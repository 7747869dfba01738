------------------------- MODULE AsyncLoggingProofs -------------------------
(* Proofs about AsyncLogging for any buffer size, line lengths and run length, and
   about what stands behind and before it: LogFile and Logger. *)
EXTENDS AsyncLogging, LogFile, Logger, SequenceTheorems, NaturalsInduction,
        WellFoundedInduction, TLAPS

-----------------------------------------------------------------------------
(* Buffers *)

(* FixedBuffer::append stays inside the buffer, whatever it is given. *)
LEMMA PutResult ==
  ASSUME NEW b \in FixedBuffer, NEW line \in 1..MaxLines, NEW len \in Lengths
  PROVE  Put(b, line, len) \in FixedBuffer
<1>1. /\ LargeBufferSize \in Nat /\ len \in Nat
      /\ b.data \in Seq(1..MaxLines) /\ b.size \in 0..(LargeBufferSize - 1)
  BY LoggingAssumption DEF FixedBuffer
<1>2. CASE LargeBufferSize - b.size > len
  <2>1. Append(b.data, line) \in Seq(1..MaxLines)
    BY <1>1
  <2>2. b.size + len \in 0..(LargeBufferSize - 1)
    BY <1>1, <1>2
  <2>3. Put(b, line, len) = [data |-> Append(b.data, line), size |-> b.size + len]
    BY <1>2 DEF Put, avail
  <2>4. QED BY <2>1, <2>2, <2>3 DEF FixedBuffer
<1>3. CASE ~(LargeBufferSize - b.size > len)
  BY <1>3 DEF Put, avail
<1>4. QED BY <1>2, <1>3

(* An empty buffer is a buffer, and an empty pointer is none. *)
LEMMA EmptyResult == Empty \in FixedBuffer /\ Null \notin FixedBuffer /\ Empty # Null
<1>1. 0 \in 0..(LargeBufferSize - 1) /\ Null \notin FixedBuffer
  BY LoggingAssumption
<1>2. <<>> \in Seq(1..MaxLines)
  OBVIOUS
<1>3. Empty \in FixedBuffer
  BY <1>1, <1>2, SMT DEF Empty, FixedBuffer
<1>4. QED BY <1>1, <1>3, Zenon

-----------------------------------------------------------------------------
(* The inductive invariant *)

(* nextBuffer_ is missing only while a filled buffer waits; outside the writing
   phase the backend has both its spares; in it, it has a written buffer for
   every spare it gave away. *)
SparesAccounted ==
  /\ nextBuffer = Null => buffers # <<>>
  /\ pc \in {"test", "lock", "wait"} => newbuffer1 # Null /\ newbuffer2 # Null
  /\ pc \in {"write", "recycle"} =>
       /\ newbuffer1 = Null
       /\ Len(toWrite) >= 1
       /\ newbuffer2 = Null => Len(toWrite) >= 2

IInv == TypeOK /\ SparesAccounted

LEMMA InitIInv == Init => IInv
<1> SUFFICES ASSUME Init PROVE IInv
  OBVIOUS
<1>1. TypeOK
  <2>1. 0 \in 0..MaxLines /\ <<>> \in Seq(1..MaxLines) /\ <<>> \in Seq(FixedBuffer)
    BY LoggingAssumption
  <2>2. i \in 1..(Len(toWrite) + 1) /\ flushed \in 0..Len(file)
    <3>1. i = 1 /\ toWrite = <<>> /\ flushed = 0 /\ file = <<>>
      BY DEF Init
    <3>2. QED BY <3>1
  <2>3. QED BY <2>1, <2>2, EmptyResult, Zenon DEF Init, TypeOK
<1>2. SparesAccounted
  BY EmptyResult DEF Init, SparesAccounted
<1>3. QED BY <1>1, <1>2 DEF IInv

(* Taking the buffers fills currentBuffer_ and nextBuffer_ and keeps the count. *)
LEMMA SwapStep == IInv /\ Swap => IInv'
<1> SUFFICES ASSUME IInv, Swap PROVE IInv'
  OBVIOUS
<1> USE DEF IInv
<1>1. /\ pc \in {"lock", "wait"} /\ pc' = "write" /\ i' = 1
      /\ toWrite' = Append(buffers, currentBuffer)
      /\ currentBuffer' = newbuffer1 /\ newbuffer1' = Null /\ buffers' = <<>>
      /\ UNCHANGED <<running, appended, file, flushed, due>>
  BY DEF Swap, SwapBuffers, Taken
<1>2. newbuffer1 \in FixedBuffer /\ newbuffer2 \in FixedBuffer
  BY <1>1 DEF TypeOK, SparesAccounted
<1>3. /\ toWrite' \in Seq(FixedBuffer)
      /\ Len(toWrite') = Len(buffers) + 1 /\ Len(buffers) \in Nat
  BY <1>1 DEF TypeOK
<1>4. CASE nextBuffer = Null
  <2>1. nextBuffer' = newbuffer2 /\ newbuffer2' = Null
    BY <1>4 DEF Swap, SwapBuffers, RefillNext
  <2>2. Len(buffers) >= 1
    <3>1. buffers # <<>> /\ buffers \in Seq(FixedBuffer)
      BY <1>4 DEF TypeOK, SparesAccounted
    <3>2. QED BY <3>1, EmptySeq
  <2>3. TypeOK'
    BY <1>1, <1>2, <1>3, <2>1 DEF TypeOK
  <2>4. SparesAccounted'
    BY <1>1, <1>2, <1>3, <2>1, <2>2, EmptyResult DEF SparesAccounted
  <2>5. QED BY <2>3, <2>4
<1>5. CASE nextBuffer # Null
  <2>1. nextBuffer' = nextBuffer /\ newbuffer2' = newbuffer2
    BY <1>5 DEF Swap, SwapBuffers, RefillNext
  <2>2. TypeOK'
    BY <1>1, <1>2, <1>3, <2>1 DEF TypeOK
  <2>3. SparesAccounted'
    BY <1>1, <1>2, <1>3, <1>5, <2>1, EmptyResult DEF SparesAccounted
  <2>4. QED BY <2>2, <2>3
<1>6. QED BY <1>4, <1>5

(* Recycling finds a written buffer for each missing spare. *)
LEMMA RecycleStep == IInv /\ Recycle => IInv'
<1> SUFFICES ASSUME IInv, Recycle PROVE IInv'
  OBVIOUS
<1> USE DEF IInv
<1> DEFINE rest == SubSeq(Kept, 1, Len(Kept) - 1)
<1>1. /\ toWrite \in Seq(FixedBuffer) /\ Len(toWrite) \in Nat
      /\ newbuffer1 = Null /\ Len(toWrite) >= 1
      /\ newbuffer2 = Null => Len(toWrite) >= 2
  BY LenProperties DEF TypeOK, SparesAccounted, Recycle, Flush
<1>2. /\ Kept \in Seq(FixedBuffer)
      /\ Len(Kept) = IF Len(toWrite) > 2 THEN 2 ELSE Len(toWrite)
  BY <1>1 DEF Kept
<1> HIDE DEF Kept
<1>3. Kept # <<>>
  BY <1>1, <1>2, EmptySeq
<1>4. newbuffer2 = Null => rest # <<>>
  <2> SUFFICES ASSUME newbuffer2 = Null PROVE rest # <<>>
    OBVIOUS
  <2>1. Len(Kept) = 2
    <3>1. Len(toWrite) \in Nat /\ Len(toWrite) >= 2
      BY <1>1
    <3>2. Len(Kept) = IF Len(toWrite) > 2 THEN 2 ELSE Len(toWrite)
      BY <1>2
    <3>3. \A n \in Nat : n >= 2 => (IF n > 2 THEN 2 ELSE n) = 2
      OBVIOUS
    <3>4. QED BY <3>1, <3>2, <3>3, Zenon
  <2>2. rest = SubSeq(Kept, 1, 1)
    BY <2>1
  <2>3. Len(SubSeq(Kept, 1, 1)) = 1
    <3>1. \A j \in 1..1 : Kept[j] \in FixedBuffer
      BY <1>2, <2>1, ElementOfSeq
    <3>2. QED BY <1>2, <2>1, <3>1, SubSeqProperties
  <2>4. QED BY <2>2, <2>3
<1>5. newbuffer1' = Empty /\ newbuffer2' \in {Empty, newbuffer2} /\ newbuffer2' # Null
  <2>1. newbuffer1' = Recycled(Kept)
    BY <1>1 DEF Recycle
  <2>2. newbuffer2' = IF newbuffer2 = Null THEN Recycled(rest) ELSE newbuffer2
    BY <1>1, <1>3 DEF Recycle
  <2> HIDE DEF rest
  <2>3. QED BY <1>3, <1>4, <2>1, <2>2, EmptyResult DEF Recycled
<1>6. /\ toWrite' = <<>> /\ i' = 1 /\ flushed' = Len(file) /\ pc' = "test"
      /\ UNCHANGED <<running, front, file, due>>
  BY DEF Recycle, Flush
<1>7. TypeOK'
  BY <1>5, <1>6, EmptyResult, LenProperties DEF TypeOK, front
<1>8. SparesAccounted'
  BY <1>5, <1>6, EmptyResult DEF SparesAccounted, front
<1>9. QED BY <1>7, <1>8

(* A filled buffer joins the queue when nextBuffer_ is taken. *)
LEMMA AppendStep == ASSUME IInv, NEW len \in Lengths, append(len) PROVE IInv'
<1> USE DEF IInv
<1>1. appended' \in 1..MaxLines /\ appended' = appended + 1 /\ appended' \in 0..MaxLines
  BY LoggingAssumption DEF append, TypeOK
<1>2. FreshBuffer \in FixedBuffer
  BY EmptyResult DEF FreshBuffer, TypeOK
<1>3. UNCHANGED <<running, pc, back, file, flushed, due>>
  BY DEF append
<1>4. CASE Fits(len)
  <2>1. currentBuffer' = Put(currentBuffer, appended', len)
        /\ UNCHANGED <<nextBuffer, buffers>>
    BY <1>1, <1>4 DEF append
  <2>2. currentBuffer' \in FixedBuffer
    BY <1>1, <2>1, PutResult DEF TypeOK
  <2>3. TypeOK' /\ SparesAccounted'
    BY <1>1, <1>3, <2>1, <2>2 DEF TypeOK, SparesAccounted, back
  <2>4. QED BY <2>3
<1>5. CASE ~Fits(len)
  <2>1. /\ buffers' = Append(buffers, currentBuffer)
        /\ currentBuffer' = Put(FreshBuffer, appended', len)
        /\ nextBuffer' = Null
    BY <1>1, <1>5 DEF append
  <2>2. currentBuffer' \in FixedBuffer
    BY <1>1, <1>2, <2>1, PutResult
  <2>3. /\ buffers' \in Seq(FixedBuffer)
        /\ Len(buffers') = Len(buffers) + 1 /\ Len(buffers) \in Nat
    BY <2>1 DEF TypeOK
  <2>4. buffers' # <<>>
    BY <2>3, EmptySeq
  <2>5. TypeOK'
    BY <1>1, <1>3, <2>1, <2>2, <2>3 DEF TypeOK, back
  <2>6. SparesAccounted'
    BY <1>3, <2>1, <2>4 DEF SparesAccounted, back
  <2>7. QED BY <2>5, <2>6
<1>6. QED BY <1>4, <1>5

(* A buffer's lines join the file. *)
LEMMA WriteStep == IInv /\ Write => IInv'
<1> SUFFICES ASSUME IInv, Write PROVE IInv'
  OBVIOUS
<1> USE DEF IInv
<1>1. /\ toWrite \in Seq(FixedBuffer) /\ Len(toWrite) \in Nat /\ Len(file) \in Nat
      /\ i \in 1..Len(toWrite) /\ file \in Seq(1..MaxLines)
  BY LenProperties DEF Write, TypeOK
<1>2. toWrite[i] \in FixedBuffer
  BY <1>1, ElementOfSeq
<1>3. toWrite[i].data \in Seq(1..MaxLines)
  BY <1>2 DEF FixedBuffer
<1>4. /\ file' \in Seq(1..MaxLines)
      /\ Len(file') = Len(file) + Len(toWrite[i].data)
      /\ Len(toWrite[i].data) \in Nat
  BY <1>1, <1>3, ConcatProperties, LenProperties DEF Write
<1>5. flushed' \in 0..Len(file') /\ i' \in 1..(Len(toWrite) + 1)
  BY <1>1, <1>4 DEF Write, TypeOK
<1>6. UNCHANGED <<running, front, pc, newbuffer1, newbuffer2, toWrite, flushed, due>>
  BY DEF Write
<1>7. TypeOK'
  BY <1>4, <1>5, <1>6 DEF TypeOK, front
<1>8. SparesAccounted'
  BY <1>6 DEF SparesAccounted, front
<1>9. QED BY <1>7, <1>8

(* IInv is inductive. *)
LEMMA Inductive == IInv /\ [Next]_vars => IInv'
<1> SUFFICES ASSUME IInv, [Next]_vars PROVE IInv'
  OBVIOUS
<1> USE DEF IInv
<1>1. CASE UNCHANGED vars
  BY <1>1 DEF vars, front, back, TypeOK, SparesAccounted
<1>2. ASSUME NEW len \in Lengths, append(len) PROVE IInv'
  BY <1>2, AppendStep
<1>3. CASE start
  BY <1>3, EmptyResult DEF start, TypeOK, SparesAccounted, front
<1>4. CASE stop
  BY <1>4 DEF stop, TypeOK, SparesAccounted, front, back
<1>5. CASE TestRunning
  BY <1>5, LenProperties DEF TestRunning, TypeOK, SparesAccounted, front, back
<1>6. CASE LockAndWait
  BY <1>6 DEF LockAndWait, TypeOK, SparesAccounted, front, back
<1>7. CASE EndWrite
  BY <1>7 DEF EndWrite, TypeOK, SparesAccounted, front, back
<1>8. QED BY <1>1, <1>2, <1>3, <1>4, <1>5, <1>6, <1>7,
             SwapStep, WriteStep, RecycleStep DEF Next, threadFunc

-----------------------------------------------------------------------------
(* Every pointer that append or threadFunc follows points to a buffer, and no
   buffer overflows. *)
THEOREM TypeCorrect == Spec => []TypeOK
<1>1. IInv => TypeOK
  BY DEF IInv
<1>2. QED BY <1>1, InitIInv, Inductive, PTL DEF Spec

(* threadFunc never takes a spare from an empty vector of written buffers. *)
THEOREM SparesAlwaysSuffice == Spec => []SparesSuffice
<1>1. IInv => SparesSuffice
  BY DEF IInv, SparesAccounted, SparesSuffice
<1>2. QED BY <1>1, InitIInv, Inductive, PTL DEF Spec

-----------------------------------------------------------------------------
(* Numbers: the least element stands for induction. *)

LEMMA LeastNumber ==
  ASSUME NEW S \in SUBSET Nat, S # {}
  PROVE  \E n \in S : \A m \in S : n <= m
<1> DEFINE R == {ss \in Nat \X Nat : ss[1] < ss[2]}
<1>1. R = OpToRel(<, Nat)
  BY Zenon DEF OpToRel
<1>2. IsWellFoundedOn(R, Nat)
  BY <1>1, NatLessThanWellFounded, Zenon
<1> HIDE DEF R
<1>3. PICK n \in S : \A m \in S : ~(<<m, n>> \in R)
  BY <1>2, WFMin, Zenon
<1>4. ASSUME NEW m \in S PROVE n <= m
  <2>1. m \in Nat /\ n \in Nat
    OBVIOUS
  <2>2. ~(m < n)
    BY <1>3, <2>1 DEF R
  <2>3. QED BY <2>1, <2>2
<1>5. QED BY <1>4

-----------------------------------------------------------------------------
(* Runs of consecutive lines *)

(* The lines after a up to b. *)
Run(a, b) == [j \in 1..(b - a) |-> a + j]

LEMMA RunProperties ==
  ASSUME NEW a \in Nat, NEW b \in Nat, a <= b
  PROVE  /\ Run(a, b) \in Seq(Nat) /\ Len(Run(a, b)) = b - a /\ DOMAIN Run(a, b) = 1..(b - a)
         /\ \A j \in 1..(b - a) : Run(a, b)[j] = a + j
<1>1. b - a \in Nat
  OBVIOUS
<1>2. QED BY <1>1 DEF Run

LEMMA RunsJoin ==
  ASSUME NEW a \in Nat, NEW b \in Nat, NEW c \in Nat, a <= b, b <= c
  PROVE  Run(a, b) \o Run(b, c) = Run(a, c)
<1> DEFINE p == Run(a, b)
           q == Run(b, c)
           r == p \o q
<1>1. p \in Seq(Nat) /\ Len(p) = b - a /\ \A j \in 1..(b - a) : p[j] = a + j
  BY RunProperties
<1>2. q \in Seq(Nat) /\ Len(q) = c - b /\ \A j \in 1..(c - b) : q[j] = b + j
  BY RunProperties
<1>3. /\ Run(a, c) \in Seq(Nat) /\ Len(Run(a, c)) = c - a
      /\ \A j \in 1..(c - a) : Run(a, c)[j] = a + j
  BY RunProperties
<1> HIDE DEF p, q
<1>4. /\ r \in Seq(Nat) /\ Len(r) = Len(p) + Len(q)
      /\ \A j \in 1..(Len(p) + Len(q)) : r[j] = IF j <= Len(p) THEN p[j] ELSE q[j - Len(p)]
  BY <1>1, <1>2, ConcatProperties
<1> HIDE DEF r
<1>5. Len(r) = c - a /\ \A j \in 1..(c - a) : r[j] = a + j
  <2>1. Len(r) = c - a
    BY <1>1, <1>2, <1>4
  <2>2. ASSUME NEW j \in 1..(c - a) PROVE r[j] = a + j
    <3>1. CASE j <= b - a
      <4>1. j \in 1..(Len(p) + Len(q)) /\ j \in 1..(b - a)
        BY <1>1, <1>2, <3>1
      <4>2. QED BY <1>1, <1>4, <3>1, <4>1
    <3>2. CASE ~(j <= b - a)
      <4>1. j - (b - a) \in 1..(c - b) /\ j \in 1..(Len(p) + Len(q))
        BY <1>1, <1>2, <3>2
      <4>2. r[j] = q[j - (b - a)]
        BY <1>1, <1>4, <3>2, <4>1
      <4>3. QED BY <1>2, <4>1, <4>2
    <3>3. QED BY <3>1, <3>2
  <2>3. QED BY <2>1, <2>2
<1>6. r = Run(a, c)
  BY <1>3, <1>4, <1>5, SeqEqual
<1>7. QED BY <1>6 DEF p, q, r

(* Flattening runs that follow on each other gives one run.  h is the function that
   FlattenSeq defines by recursion; the least k where it differs from the runs'
   ends would not be the least. *)
LEMMA Flattened ==
  ASSUME NEW N \in Nat \ {0}, NEW s \in Seq(Seq(Nat)), Len(s) = N,
         NEW at \in [1..(N + 1) -> Nat],
         \A j, k \in 1..(N + 1) : j <= k => at[j] <= at[k],
         \A k \in 1..N : s[k] = Run(at[k], at[k + 1])
  PROVE  FlattenSeq(s) = Run(at[1], at[N + 1])
<1> DEFINE G(f) == f = [n \in 1..N |-> IF n = 1 THEN s[n] ELSE f[n - 1] \o s[n]]
           g == [k \in 1..N |-> Run(at[1], at[k + 1])]
           h == CHOOSE f : G(f)
<1>1. ASSUME NEW k \in 1..N, k # 1 PROVE g[k] = g[k - 1] \o s[k]
  <2>1. /\ k - 1 \in 1..N /\ k \in 1..(N + 1) /\ k + 1 \in 1..(N + 1) /\ 1 \in 1..(N + 1)
        /\ 1 <= k /\ k <= k + 1
    BY <1>1
  <2>2. at[1] \in Nat /\ at[k] \in Nat /\ at[k + 1] \in Nat /\ at[1] <= at[k] /\ at[k] <= at[k + 1]
    BY <2>1
  <2>3. g[k - 1] = Run(at[1], at[k]) /\ g[k] = Run(at[1], at[k + 1])
    BY <1>1, <2>1
  <2> HIDE DEF g
  <2>4. s[k] = Run(at[k], at[k + 1])
    BY <1>1
  <2>5. Run(at[1], at[k]) \o Run(at[k], at[k + 1]) = Run(at[1], at[k + 1])
    BY <2>2, RunsJoin
  <2>6. QED BY <2>3, <2>4, <2>5
<1>2. G(g)
  <2>1. g[1] = s[1]
    OBVIOUS
  <2> DEFINE r == [n \in 1..N |-> IF n = 1 THEN s[n] ELSE g[n - 1] \o s[n]]
  <2>2. \A k \in 1..N : g[k] = r[k]
    BY <1>1, <2>1
  <2>3. QED BY <2>2
<1>3. G(h)
  BY <1>2, Zenon
<1> HIDE DEF g
<1>4. h[1] = s[1] /\ \A k \in 1..N : k # 1 => h[k] = h[k - 1] \o s[k]
  <2> HIDE DEF h
  <2>1. h = [n \in 1..N |-> IF n = 1 THEN s[n] ELSE h[n - 1] \o s[n]]
    BY <1>3
  <2>2. \A k \in 1..N : h[k] = IF k = 1 THEN s[k] ELSE h[k - 1] \o s[k]
    BY <2>1, Zenon
  <2>3. 1 \in 1..N
    OBVIOUS
  <2>4. QED BY <2>2, <2>3, Zenon
<1> HIDE DEF h
<1>5. \A k \in 1..N : h[k] = g[k]
  <2> DEFINE S == {k \in 1..N : h[k] # g[k]}
  <2>1. SUFFICES ASSUME S # {} PROVE FALSE
    OBVIOUS
  <2>2. S \in SUBSET Nat
    OBVIOUS
  <2>3. PICK k \in S : \A m \in S : k <= m
    BY <2>1, <2>2, LeastNumber
  <2>4. k # 1
    BY <1>4 DEF g
  <2>5. k - 1 \in 1..N /\ k - 1 \notin S /\ k \in 1..N
    <3>1. k \in 1..N /\ k - 1 \in 1..N /\ ~(k <= k - 1)
      BY <2>4
    <3>2. QED BY <2>3, <3>1
  <2>6. h[k - 1] = g[k - 1]
    BY <2>5
  <2>7. QED BY <1>1, <1>4, <2>3, <2>4, <2>5, <2>6
<1>6. FlattenSeq(s) = h[N]
  BY Zenon DEF FlattenSeq, h
<1>7. QED BY <1>5, <1>6 DEF g

LEMMA RunExtends ==
  ASSUME NEW a \in Nat, NEW b \in Nat, a <= b
  PROVE  Append(Run(a, b), b + 1) = Run(a, b + 1)
<1> DEFINE p == Run(a, b)
           q == Run(a, b + 1)
           r == Append(p, b + 1)
<1>1. p \in Seq(Nat) /\ Len(p) = b - a /\ \A j \in 1..(b - a) : p[j] = a + j
  BY RunProperties
<1>2. q \in Seq(Nat) /\ Len(q) = b + 1 - a /\ \A j \in 1..(b + 1 - a) : q[j] = a + j
  BY RunProperties
<1> HIDE DEF p, q
<1>3. /\ r \in Seq(Nat) /\ Len(r) = Len(p) + 1
      /\ \A j \in 1..Len(p) : r[j] = p[j]
      /\ r[Len(p) + 1] = b + 1
  BY <1>1, AppendProperties
<1> HIDE DEF r
<1>4. Len(r) = Len(q)
  BY <1>1, <1>2, <1>3
<1>5. ASSUME NEW j \in 1..Len(q) PROVE r[j] = q[j]
  <2>1. CASE j \in 1..(b - a)
    BY <1>1, <1>2, <1>3, <2>1
  <2>2. CASE j = b + 1 - a
    BY <1>1, <1>2, <1>3, <2>2
  <2>3. QED BY <1>2, <2>1, <2>2
<1>6. r = q
  BY <1>2, <1>3, <1>4, <1>5, SeqEqual
<1>7. QED BY <1>6 DEF p, q, r

LEMMA EmptyRun == ASSUME NEW a \in Nat PROVE Run(a, a) = <<>>
<1>1. Run(a, a) \in Seq(Nat) /\ Len(Run(a, a)) = 0
  BY RunProperties
<1>2. QED BY <1>1, EmptySeq

(* The buffers of bs from lo on hold the lines after a up to b: at[k] is the number of
   lines before the k-th. *)
ChainAt(bs, lo, at) ==
  /\ \A j, k \in lo..(Len(bs) + 1) : j <= k => at[j] <= at[k]
  /\ \A k \in lo..Len(bs) : bs[k].data = Run(at[k], at[k + 1])
Chain(bs, lo, a, b) ==
  \E at \in [lo..(Len(bs) + 1) -> Nat] :
    at[lo] = a /\ at[Len(bs) + 1] = b /\ ChainAt(bs, lo, at)

LEMMA ChainEmpty ==
  ASSUME NEW bs \in Seq(FixedBuffer), NEW a \in Nat, NEW b \in Nat
  PROVE  Chain(bs, Len(bs) + 1, a, b) <=> a = b
<1>0. Len(bs) \in Nat
  BY LenProperties
<1>1. ASSUME Chain(bs, Len(bs) + 1, a, b) PROVE a = b
  BY <1>1 DEF Chain
<1>2. ASSUME a = b PROVE Chain(bs, Len(bs) + 1, a, b)
  <2> DEFINE at == [k \in (Len(bs) + 1)..(Len(bs) + 1) |-> a]
  <2>1. at \in [(Len(bs) + 1)..(Len(bs) + 1) -> Nat] /\ at[Len(bs) + 1] = a
    BY <1>0
  <2>2. ChainAt(bs, Len(bs) + 1, at)
    BY <1>0 DEF ChainAt
  <2> HIDE DEF at
  <2>3. QED BY <1>2, <2>1, <2>2 DEF Chain
<1>3. QED BY <1>1, <1>2

(* One more buffer. *)
LEMMA ChainAppend ==
  ASSUME NEW bs \in Seq(FixedBuffer), NEW b \in FixedBuffer,
         NEW m \in Nat, NEW n \in Nat, NEW p \in Nat,
         Chain(bs, 1, m, n), n <= p, b.data = Run(n, p)
  PROVE  Chain(Append(bs, b), 1, m, p)
<1> DEFINE N == Len(bs)
           cs == Append(bs, b)
<1>1. /\ N \in Nat /\ Len(cs) = N + 1 /\ cs[N + 1] = b
      /\ \A k \in 1..N : cs[k] = bs[k]
  BY LenProperties, AppendProperties
<1>2. PICK at \in [1..(N + 1) -> Nat] : at[1] = m /\ at[N + 1] = n /\ ChainAt(bs, 1, at)
  BY DEF Chain
<1> DEFINE to == [k \in 1..(N + 2) |-> IF k = N + 2 THEN p ELSE at[k]]
<1> HIDE DEF N, cs
<1>3. /\ to \in [1..(N + 2) -> Nat] /\ to[N + 2] = p
      /\ \A k \in 1..(N + 1) : to[k] = at[k]
  BY <1>1, <1>2
<1> HIDE DEF to
<1>4. /\ \A j, k \in 1..(N + 1) : j <= k => at[j] <= at[k]
      /\ \A k \in 1..N : bs[k].data = Run(at[k], at[k + 1])
  BY <1>2 DEF ChainAt, N
<1>5. ASSUME NEW j \in 1..(N + 2), NEW k \in 1..(N + 2), j <= k PROVE to[j] <= to[k]
  <2>1. CASE k = N + 2 /\ j # N + 2
    <3>1. j \in 1..(N + 1) /\ N + 1 \in 1..(N + 1)
      BY <1>1, <2>1
    <3>2. at[j] <= n /\ at[j] \in Nat
      BY <1>1, <1>2, <1>4, <3>1
    <3>3. QED BY <1>3, <2>1, <3>1, <3>2
  <2>2. CASE k = N + 2 /\ j = N + 2
    BY <1>3, <2>2
  <2>3. CASE k # N + 2
    <3>1. j \in 1..(N + 1) /\ k \in 1..(N + 1)
      <4>1. N \in Nat /\ k \in Int /\ j \in Int /\ 1 <= j /\ j <= k /\ k <= N + 2
        BY <1>1, <1>5
      <4>2. QED BY <2>3, <4>1
    <3>2. QED BY <1>3, <1>4, <1>5, <3>1
  <2>4. QED BY <2>1, <2>2, <2>3
<1>6. ASSUME NEW k \in 1..(N + 1) PROVE cs[k].data = Run(to[k], to[k + 1])
  <2>1. CASE k = N + 1
    <3>1. to[k] = n /\ to[k + 1] = p
      BY <1>1, <1>2, <1>3, <2>1
    <3>2. QED BY <1>1, <2>1, <3>1
  <2>2. CASE k \in 1..N
    <3>1. to[k] = at[k] /\ to[k + 1] = at[k + 1]
      BY <1>1, <1>3, <2>2
    <3>2. QED BY <1>1, <1>4, <2>2, <3>1
  <2>3. QED BY <1>1, <2>1, <2>2
<1>7. ChainAt(cs, 1, to)
  BY <1>1, <1>5, <1>6 DEF ChainAt
<1>8. to[1] = m
  BY <1>1, <1>2, <1>3
<1>9. Chain(cs, 1, m, p)
  <2>1. Len(cs) + 1 = N + 2
    BY <1>1
  <2>2. to \in [1..(Len(cs) + 1) -> Nat] /\ to[Len(cs) + 1] = p
    BY <1>3, <2>1
  <2>3. QED BY <1>7, <1>8, <2>2, Zenon DEF Chain
<1>10. QED BY <1>9 DEF cs

(* One buffer less. *)
LEMMA ChainNext ==
  ASSUME NEW bs \in Seq(FixedBuffer), NEW lo \in 1..Len(bs), NEW a \in Nat, NEW b \in Nat,
         Chain(bs, lo, a, b)
  PROVE  \E c \in Nat : a <= c /\ bs[lo].data = Run(a, c) /\ Chain(bs, lo + 1, c, b)
<1>0. Len(bs) \in Nat
  BY LenProperties
<1>1. PICK at \in [lo..(Len(bs) + 1) -> Nat] :
        at[lo] = a /\ at[Len(bs) + 1] = b /\ ChainAt(bs, lo, at)
  BY DEF Chain
<1> DEFINE to == [k \in (lo + 1)..(Len(bs) + 1) |-> at[k]]
<1>2. /\ to \in [(lo + 1)..(Len(bs) + 1) -> Nat]
      /\ \A k \in (lo + 1)..(Len(bs) + 1) : to[k] = at[k]
  BY <1>0
<1> HIDE DEF to
<1>3. /\ to[lo + 1] = at[lo + 1] /\ at[lo + 1] \in Nat /\ to[Len(bs) + 1] = b
  BY <1>0, <1>1, <1>2
<1>4. a <= at[lo + 1] /\ bs[lo].data = Run(a, at[lo + 1])
  BY <1>0, <1>1 DEF ChainAt
<1>5. ChainAt(bs, lo + 1, to)
  <2>1. /\ \A j, k \in lo..(Len(bs) + 1) : j <= k => at[j] <= at[k]
        /\ \A k \in lo..Len(bs) : bs[k].data = Run(at[k], at[k + 1])
    BY <1>1 DEF ChainAt
  <2>2. \A k \in (lo + 1)..(Len(bs) + 1) : k \in lo..(Len(bs) + 1)
    BY <1>0
  <2>3. \A j, k \in (lo + 1)..(Len(bs) + 1) : j <= k => to[j] <= to[k]
    BY <1>2, <2>1, <2>2
  <2>4. ASSUME NEW k \in (lo + 1)..Len(bs) PROVE bs[k].data = Run(to[k], to[k + 1])
    <3>1. /\ k \in lo..Len(bs) /\ k \in (lo + 1)..(Len(bs) + 1)
          /\ k + 1 \in (lo + 1)..(Len(bs) + 1)
      BY <1>0
    <3>2. QED BY <1>2, <2>1, <3>1
  <2>5. QED BY <2>3, <2>4 DEF ChainAt
<1>6. Chain(bs, lo + 1, at[lo + 1], b)
  BY <1>2, <1>3, <1>5 DEF Chain
<1>7. QED BY <1>3, <1>4, <1>6

(* What a chain holds. *)
LEMMA ChainLines ==
  ASSUME NEW bs \in Seq(FixedBuffer), NEW lo \in 1..(Len(bs) + 1),
         NEW a \in Nat, NEW b \in Nat, Chain(bs, lo, a, b)
  PROVE  a <= b /\ Lines(SubSeq(bs, lo, Len(bs))) = Run(a, b)
<1>0. Len(bs) \in Nat
  BY LenProperties
<1>1. PICK at \in [lo..(Len(bs) + 1) -> Nat] :
        at[lo] = a /\ at[Len(bs) + 1] = b /\ ChainAt(bs, lo, at)
  BY DEF Chain
<1>2. a <= b
  BY <1>0, <1>1 DEF ChainAt
<1> DEFINE N == Len(bs) - lo + 1
           cs == SubSeq(bs, lo, Len(bs))
           s == [k \in DOMAIN cs |-> cs[k].data]
<1>3. N \in Nat /\ lo + N = Len(bs) + 1
  BY <1>0
<1>4. cs \in Seq(FixedBuffer) /\ Len(cs) = N /\ DOMAIN cs = 1..N
        /\ \A k \in 1..N : cs[k] = bs[lo + k - 1]
  BY <1>0, SubSeqProperties, LenProperties
<1> HIDE DEF N, cs
<1>5. \A k \in 1..N : cs[k].data \in Seq(Nat)
  <2>1. \A k \in 1..N : cs[k] \in FixedBuffer
    BY <1>4, ElementOfSeq
  <2>2. \A c \in FixedBuffer : c.data \in Seq(1..MaxLines)
    BY DEF FixedBuffer
  <2>3. Seq(1..MaxLines) \subseteq Seq(Nat)
    BY LoggingAssumption
  <2>4. QED BY <2>1, <2>2, <2>3
<1>6. s \in Seq(Seq(Nat)) /\ Len(s) = N /\ \A k \in 1..N : s[k] = cs[k].data
  <2>1. s = [k \in 1..N |-> cs[k].data]
    BY <1>4, Zenon
  <2>2. \A k \in 1..N : s[k] = cs[k].data
    BY <2>1, Zenon
  <2>3. s \in [1..N -> Seq(Nat)]
    BY <2>1, <1>5, Zenon
  <2> HIDE DEF s
  <2>4. s \in Seq(Seq(Nat)) /\ Len(s) = N
    <3> DEFINE T == Seq(Nat)
    <3>1. s \in [1..N -> T]
      BY <2>3
    <3> HIDE DEF T
    <3>2. s \in Seq(T) /\ Len(s) = N
      BY <3>1, <1>3
    <3>3. QED BY <3>2 DEF T
  <2>5. QED BY <2>2, <2>4
<1>7. Lines(cs) = FlattenSeq(s)
  BY DEF Lines
<1> HIDE DEF s
<1>8. CASE N = 0
  <2>1. FlattenSeq(s) = s /\ s = <<>>
    BY <1>6, <1>8, EmptySeq DEF FlattenSeq
  <2>2. a = b
    BY <1>0, <1>1, <1>3, <1>8
  <2>3. QED BY <1>2, <1>7, <2>1, <2>2, EmptyRun DEF cs
<1>9. CASE N # 0
  <2> DEFINE to == [k \in 1..(N + 1) |-> at[lo + k - 1]]
  <2>1. /\ to \in [1..(N + 1) -> Nat]
        /\ \A k \in 1..(N + 1) : to[k] = at[lo + k - 1] /\ lo + k - 1 \in lo..(Len(bs) + 1)
    <3>1. \A k \in 1..(N + 1) : lo + k - 1 \in lo..(Len(bs) + 1)
      BY <1>0, <1>3
    <3>2. \A k \in 1..(N + 1) : at[lo + k - 1] \in Nat
      BY <1>0, <3>1
    <3>3. QED BY <3>1, <3>2
  <2> HIDE DEF to
  <2>2. to[1] = a /\ to[N + 1] = b
    BY <1>0, <1>1, <1>3, <2>1
  <2>3. \A j, k \in 1..(N + 1) : j <= k => to[j] <= to[k]
    <3>1. \A j, k \in lo..(Len(bs) + 1) : j <= k => at[j] <= at[k]
      BY <1>1 DEF ChainAt
    <3>2. \A j, k \in 1..(N + 1) : j <= k => lo + j - 1 <= lo + k - 1
      BY <1>0, <1>3
    <3>3. QED BY <2>1, <3>1, <3>2
  <2>4. ASSUME NEW k \in 1..N PROVE s[k] = Run(to[k], to[k + 1])
    <3>1. lo + k - 1 \in lo..Len(bs) /\ k \in 1..(N + 1) /\ k + 1 \in 1..(N + 1)
      BY <1>0, <1>3
    <3>2. bs[lo + k - 1].data = Run(at[lo + k - 1], at[lo + k - 1 + 1])
      BY <1>1, <3>1 DEF ChainAt
    <3>3. to[k] = at[lo + k - 1] /\ to[k + 1] = at[lo + k - 1 + 1]
      <4>1. lo + (k + 1) - 1 = lo + k - 1 + 1
        BY <1>0
      <4>2. QED BY <2>1, <3>1, <4>1
    <3>4. QED BY <1>4, <1>6, <3>2, <3>3
  <2>5. N \in Nat \ {0}
    BY <1>3, <1>9
  <2>6. FlattenSeq(s) = Run(to[1], to[N + 1])
    BY <1>6, <2>1, <2>3, <2>4, <2>5, Flattened
  <2>7. QED BY <1>2, <1>7, <2>2, <2>6 DEF cs
<1>10. QED BY <1>8, <1>9

-----------------------------------------------------------------------------
(* The lines on their way *)

(* The file, what is left of toWrite, the filled buffers and the current one are runs
   that follow on each other, and what is left of toWrite ends at or after due. *)
Ordered ==
  \E m, n \in Nat :
    /\ file = Run(0, Len(file))
    /\ Chain(toWrite, i, Len(file), m)
    /\ Chain(buffers, 1, m, n)
    /\ n <= appended /\ currentBuffer.data = Run(n, appended)
    /\ pc = "write" => due <= m

(* Spares are empty, so that a line always fits the buffer that is put in place. *)
SparesEmpty == nextBuffer \in {Null, Empty} /\ newbuffer1 \in {Null, Empty}
                 /\ newbuffer2 \in {Null, Empty}

(* toWrite is in use only while it is written. *)
BatchWritten ==
  /\ pc = "recycle" => i = Len(toWrite) + 1
  /\ pc \notin {"write", "recycle"} => toWrite = <<>> /\ i = 1

(* Between two rounds of threadFunc, the lines due are on the disk. *)
DueKept ==
  /\ due <= appended
  /\ pc = "recycle" => due <= Len(file)
  /\ pc \in {"off", "test", "done"} => due <= flushed

LinesInv == Ordered /\ SparesEmpty /\ BatchWritten /\ DueKept

LEMMA NumberFacts ==
  ASSUME IInv
  PROVE  /\ Len(file) \in Nat /\ appended \in Nat /\ flushed \in Nat /\ due \in Nat
         /\ flushed <= Len(file) /\ i \in Nat /\ Len(toWrite) \in Nat /\ Len(buffers) \in Nat
         /\ toWrite \in Seq(FixedBuffer) /\ buffers \in Seq(FixedBuffer)
BY LenProperties, LoggingAssumption DEF IInv, TypeOK

LEMMA InitLines == Init => LinesInv
<1> SUFFICES ASSUME Init PROVE LinesInv
  OBVIOUS
<1>1. /\ file = <<>> /\ Len(file) = 0 /\ toWrite = <<>> /\ i = 1 /\ buffers = <<>>
      /\ Len(toWrite) = 0 /\ Len(buffers) = 0
      /\ appended = 0 /\ currentBuffer.data = <<>> /\ pc = "off" /\ due = 0 /\ flushed = 0
  BY DEF Init, Empty
<1>2. <<>> \in Seq(FixedBuffer)
  OBVIOUS
<1>3. Chain(toWrite, 1, 0, 0) /\ Chain(buffers, 1, 0, 0)
  <2>1. Chain(<<>>, Len(<<>>) + 1, 0, 0)
    BY <1>2, ChainEmpty
  <2>2. Len(<<>>) + 1 = 1
    OBVIOUS
  <2>3. QED BY <1>1, <2>1, <2>2, Zenon
<1>4. Run(0, 0) = <<>>
  BY EmptyRun
<1>5. Ordered
  <2>1. /\ file = Run(0, Len(file)) /\ Chain(toWrite, i, Len(file), 0) /\ Chain(buffers, 1, 0, 0)
        /\ 0 <= appended /\ currentBuffer.data = Run(0, appended) /\ (pc = "write" => due <= 0)
    BY <1>1, <1>3, <1>4
  <2>2. 0 \in Nat
    OBVIOUS
  <2>3. QED BY <2>1, <2>2, Zenon DEF Ordered
<1>6. QED
  BY <1>1, <1>5 DEF Init, LinesInv, SparesEmpty, BatchWritten, DueKept

(* A line given to append is in the current buffer. *)
LEMMA AppendLines == ASSUME IInv, LinesInv, NEW len \in Lengths, append(len) PROVE LinesInv'
<1>0. /\ appended' = appended + 1
      /\ UNCHANGED <<running, pc, newbuffer1, newbuffer2, toWrite, i, file, flushed, due>>
  BY DEF append, back
<1>1. /\ Len(file) \in Nat /\ appended \in Nat /\ buffers \in Seq(FixedBuffer)
      /\ due \in Nat /\ currentBuffer \in FixedBuffer
  BY NumberFacts DEF IInv, TypeOK
<1>2. PICK m, n \in Nat :
        /\ file = Run(0, Len(file))
        /\ Chain(toWrite, i, Len(file), m)
        /\ Chain(buffers, 1, m, n)
        /\ n <= appended /\ currentBuffer.data = Run(n, appended)
        /\ pc = "write" => due <= m
  BY DEF LinesInv, Ordered
<1>3. Ordered' /\ nextBuffer' \in {nextBuffer, Null}
  <2>1. CASE Fits(len)
    <3>1. /\ currentBuffer' = Put(currentBuffer, appended + 1, len)
          /\ UNCHANGED <<nextBuffer, buffers>>
      BY <2>1 DEF append
    <3>2. currentBuffer'.data = Append(currentBuffer.data, appended + 1)
      BY <2>1, <3>1 DEF Put, Fits
    <3>3. currentBuffer'.data = Run(n, appended')
      BY <1>0, <1>1, <1>2, <3>2, RunExtends
    <3>4. n <= appended'
      BY <1>0, <1>1, <1>2
    <3>5. /\ file' = Run(0, Len(file')) /\ Chain(toWrite', i', Len(file'), m)
          /\ Chain(buffers', 1, m, n) /\ (pc' = "write" => due' <= m)
      BY <1>0, <1>2, <3>1
    <3>6. Ordered'
      BY <3>3, <3>4, <3>5, Zenon DEF Ordered
    <3>7. QED BY <3>1, <3>6
  <2>2. CASE ~Fits(len)
    <3>1. /\ buffers' = Append(buffers, currentBuffer)
          /\ currentBuffer' = Put(FreshBuffer, appended + 1, len)
          /\ nextBuffer' = Null
      BY <2>2 DEF append
    <3>2. FreshBuffer = Empty
      BY DEF FreshBuffer, LinesInv, SparesEmpty
    <3>3. avail(Empty) > len
      BY LoggingAssumption DEF avail, Empty
    <3>4. currentBuffer'.data = Append(<<>>, appended + 1)
      BY <3>1, <3>2, <3>3 DEF Put, Empty
    <3>5. currentBuffer'.data = Run(appended, appended')
      <4>1. Run(appended, appended) = <<>>
        BY <1>1, EmptyRun
      <4>2. Append(Run(appended, appended), appended + 1) = Run(appended, appended + 1)
        <5>1. appended <= appended
          BY <1>1
        <5>2. QED BY <1>1, <5>1, RunExtends, Zenon
      <4>3. QED BY <1>0, <3>4, <4>1, <4>2, Zenon
    <3>6. Chain(buffers', 1, m, appended)
      BY <1>1, <1>2, <3>1, ChainAppend
    <3>7. appended <= appended'
      BY <1>0, <1>1
    <3>8. /\ file' = Run(0, Len(file')) /\ Chain(toWrite', i', Len(file'), m)
          /\ (pc' = "write" => due' <= m)
      BY <1>0, <1>2
    <3>9. Ordered'
      BY <1>1, <3>5, <3>6, <3>7, <3>8, Zenon DEF Ordered
    <3>10. QED BY <3>1, <3>9
  <2>3. QED BY <2>1, <2>2
<1>4. SparesEmpty' /\ BatchWritten'
  BY <1>0, <1>3 DEF LinesInv, SparesEmpty, BatchWritten
<1>5. DueKept'
  BY <1>0, <1>1 DEF LinesInv, DueKept
<1>6. QED BY <1>3, <1>4, <1>5 DEF LinesInv

(* All lines appended so far are taken, those due among them. *)
LEMMA SwapLines == ASSUME IInv, LinesInv, Swap PROVE LinesInv'
<1>0. /\ pc \in {"lock", "wait"} /\ pc' = "write" /\ i' = 1
      /\ toWrite' = Append(buffers, currentBuffer)
      /\ currentBuffer' = newbuffer1 /\ newbuffer1' = Null /\ buffers' = <<>>
      /\ UNCHANGED <<running, appended, file, flushed, due>>
  BY DEF Swap, SwapBuffers, Taken
<1>1. /\ Len(file) \in Nat /\ appended \in Nat /\ buffers \in Seq(FixedBuffer)
      /\ toWrite \in Seq(FixedBuffer) /\ currentBuffer \in FixedBuffer
      /\ newbuffer1 = Empty /\ toWrite = <<>> /\ i = Len(toWrite) + 1
  <2>1. newbuffer1 = Empty
    BY <1>0 DEF IInv, SparesAccounted, LinesInv, SparesEmpty
  <2>2. toWrite = <<>> /\ i = 1
    BY <1>0 DEF LinesInv, BatchWritten
  <2>3. QED BY <2>1, <2>2, NumberFacts DEF IInv, TypeOK
<1>2. PICK m, n \in Nat :
        /\ file = Run(0, Len(file))
        /\ Chain(toWrite, i, Len(file), m)
        /\ Chain(buffers, 1, m, n)
        /\ n <= appended /\ currentBuffer.data = Run(n, appended)
        /\ pc = "write" => due <= m
  BY DEF LinesInv, Ordered
<1>3. m = Len(file)
  BY <1>1, <1>2, ChainEmpty
<1>4. Chain(toWrite', i', Len(file'), appended)
  <2>1. Chain(Append(buffers, currentBuffer), 1, m, appended)
    BY <1>1, <1>2, ChainAppend
  <2>2. QED BY <1>0, <1>3, <2>1
<1>5. Chain(buffers', 1, appended, appended)
  <2>1. <<>> \in Seq(FixedBuffer) /\ Len(<<>>) + 1 = 1
    OBVIOUS
  <2>2. Chain(<<>>, Len(<<>>) + 1, appended, appended)
    BY <1>1, <2>1, ChainEmpty
  <2>3. QED BY <1>0, <2>1, <2>2, Zenon
<1>6. currentBuffer'.data = Run(appended, appended')
  BY <1>0, <1>1, EmptyRun DEF Empty
<1>7. due <= appended
  BY DEF LinesInv, DueKept
<1>8. Ordered'
  <2>1. /\ file' = Run(0, Len(file')) /\ appended <= appended' /\ due' <= appended
    BY <1>0, <1>1, <1>2, <1>7
  <2>2. QED BY <1>1, <1>4, <1>5, <1>6, <2>1, Zenon DEF Ordered
<1>9. nextBuffer' \in {nextBuffer, newbuffer2} /\ newbuffer2' \in {newbuffer2, Null}
  BY DEF Swap, SwapBuffers, RefillNext
<1>10. SparesEmpty' /\ BatchWritten' /\ DueKept'
  BY <1>0, <1>9 DEF LinesInv, SparesEmpty, BatchWritten, DueKept
<1>11. QED BY <1>8, <1>10 DEF LinesInv

(* The next buffer's lines follow those in the file. *)
LEMMA WriteLines == ASSUME IInv, LinesInv, Write PROVE LinesInv'
<1>0. /\ pc = "write" /\ i <= Len(toWrite)
      /\ file' = file \o toWrite[i].data /\ i' = i + 1
      /\ UNCHANGED <<running, front, pc, newbuffer1, newbuffer2, toWrite, flushed, due>>
  BY DEF Write
<1> USE DEF front
<1>1. /\ Len(file) \in Nat /\ appended \in Nat /\ toWrite \in Seq(FixedBuffer)
      /\ i \in 1..Len(toWrite) /\ Len(toWrite) \in Nat
  BY <1>0, NumberFacts DEF IInv, TypeOK
<1>2. PICK m, n \in Nat :
        /\ file = Run(0, Len(file))
        /\ Chain(toWrite, i, Len(file), m)
        /\ Chain(buffers, 1, m, n)
        /\ n <= appended /\ currentBuffer.data = Run(n, appended)
        /\ pc = "write" => due <= m
  BY DEF LinesInv, Ordered
<1>3. PICK c \in Nat : /\ Len(file) <= c /\ toWrite[i].data = Run(Len(file), c)
                       /\ Chain(toWrite, i + 1, c, m)
  BY <1>1, <1>2, ChainNext
<1>4. file' = Run(0, c)
  <2>1. Run(0, Len(file)) \o Run(Len(file), c) = Run(0, c)
    <3>1. 0 \in Nat /\ 0 <= Len(file)
      BY <1>1
    <3>2. QED BY <1>1, <1>3, <3>1, RunsJoin, Zenon
  <2>2. QED BY <1>0, <1>2, <1>3, <2>1
<1>5. Len(file') = c
  BY <1>4, RunProperties
<1>6. Ordered'
  <2>1. /\ file' = Run(0, Len(file')) /\ Chain(toWrite', i', Len(file'), m)
        /\ Chain(buffers', 1, m, n) /\ n <= appended'
        /\ currentBuffer'.data = Run(n, appended') /\ (pc' = "write" => due' <= m)
    BY <1>0, <1>2, <1>3, <1>4, <1>5
  <2>2. QED BY <2>1, Zenon DEF Ordered
<1>7. SparesEmpty' /\ BatchWritten' /\ DueKept'
  BY <1>0 DEF LinesInv, SparesEmpty, BatchWritten, DueKept
<1>8. QED BY <1>6, <1>7 DEF LinesInv

(* All buffers are written: the lines due are in the file. *)
LEMMA EndWriteLines == ASSUME IInv, LinesInv, EndWrite PROVE LinesInv'
<1>0. /\ pc = "write" /\ i > Len(toWrite) /\ pc' = "recycle"
      /\ UNCHANGED <<running, front, back, file, flushed, due>>
  BY DEF EndWrite
<1> USE DEF front, back
<1>1. /\ Len(file) \in Nat /\ toWrite \in Seq(FixedBuffer) /\ i = Len(toWrite) + 1
  BY <1>0, NumberFacts DEF IInv, TypeOK
<1>2. PICK m, n \in Nat :
        /\ file = Run(0, Len(file))
        /\ Chain(toWrite, i, Len(file), m)
        /\ Chain(buffers, 1, m, n)
        /\ n <= appended /\ currentBuffer.data = Run(n, appended)
        /\ pc = "write" => due <= m
  BY DEF LinesInv, Ordered
<1>3. m = Len(file) /\ due <= m
  BY <1>0, <1>1, <1>2, ChainEmpty
<1>4. Ordered'
  <2>1. /\ file' = Run(0, Len(file')) /\ Chain(toWrite', i', Len(file'), m)
        /\ Chain(buffers', 1, m, n) /\ n <= appended'
        /\ currentBuffer'.data = Run(n, appended') /\ (pc' = "write" => due' <= m)
    BY <1>0, <1>2
  <2>2. QED BY <2>1, Zenon DEF Ordered
<1>5. SparesEmpty' /\ BatchWritten' /\ DueKept'
  BY <1>0, <1>1, <1>3 DEF LinesInv, SparesEmpty, BatchWritten, DueKept
<1>6. QED BY <1>4, <1>5 DEF LinesInv

(* The file is flushed before the next round. *)
LEMMA RecycleLines == ASSUME IInv, LinesInv, Recycle PROVE LinesInv'
<1>0. /\ pc = "recycle" /\ toWrite' = <<>> /\ i' = 1 /\ flushed' = Len(file) /\ pc' = "test"
      /\ UNCHANGED <<running, front, file, due>>
      /\ newbuffer1' \in {newbuffer1, Null, Empty} /\ newbuffer2' \in {newbuffer2, Null, Empty}
  BY DEF Recycle, Flush, Recycled
<1> USE DEF front
<1>1. /\ Len(file) \in Nat /\ toWrite \in Seq(FixedBuffer) /\ i = Len(toWrite) + 1
  BY <1>0, NumberFacts DEF LinesInv, BatchWritten
<1>2. PICK m, n \in Nat :
        /\ file = Run(0, Len(file))
        /\ Chain(toWrite, i, Len(file), m)
        /\ Chain(buffers, 1, m, n)
        /\ n <= appended /\ currentBuffer.data = Run(n, appended)
        /\ pc = "write" => due <= m
  BY DEF LinesInv, Ordered
<1>3. m = Len(file)
  BY <1>1, <1>2, ChainEmpty
<1>4. Chain(toWrite', i', Len(file'), m)
  <2>1. <<>> \in Seq(FixedBuffer) /\ Len(<<>>) + 1 = 1
    OBVIOUS
  <2>2. Chain(<<>>, Len(<<>>) + 1, m, m)
    BY <2>1, ChainEmpty
  <2>3. QED BY <1>0, <1>3, <2>1, <2>2, Zenon
<1>5. Ordered'
  <2>1. /\ file' = Run(0, Len(file')) /\ Chain(buffers', 1, m, n) /\ n <= appended'
        /\ currentBuffer'.data = Run(n, appended') /\ (pc' = "write" => due' <= m)
    BY <1>0, <1>2
  <2>2. QED BY <1>4, <2>1, Zenon DEF Ordered
<1>6. SparesEmpty' /\ BatchWritten' /\ DueKept'
  BY <1>0 DEF LinesInv, SparesEmpty, BatchWritten, DueKept
<1>7. QED BY <1>5, <1>6 DEF LinesInv

(* The other steps move no line. *)
LEMMA OtherLines ==
  ASSUME IInv, LinesInv, UNCHANGED <<front, toWrite, i, file>>, pc' # "write" \/ pc = "write",
         newbuffer1' \in {newbuffer1, Empty}, newbuffer2' \in {newbuffer2, Empty},
         due' = due \/ pc' # "write"
  PROVE  Ordered' /\ SparesEmpty'
<1> USE DEF front
<1>1. PICK m, n \in Nat :
        /\ file = Run(0, Len(file))
        /\ Chain(toWrite, i, Len(file), m)
        /\ Chain(buffers, 1, m, n)
        /\ n <= appended /\ currentBuffer.data = Run(n, appended)
        /\ pc = "write" => due <= m
  BY DEF LinesInv, Ordered
<1>2. /\ file' = Run(0, Len(file')) /\ Chain(toWrite', i', Len(file'), m)
      /\ Chain(buffers', 1, m, n) /\ n <= appended'
      /\ currentBuffer'.data = Run(n, appended') /\ (pc' = "write" => due' <= m)
  BY <1>1
<1>3. Ordered'
  BY <1>2, Zenon DEF Ordered
<1>4. SparesEmpty'
  BY DEF LinesInv, SparesEmpty
<1>5. QED BY <1>3, <1>4

LEMMA LinesStep == IInv /\ LinesInv /\ [Next]_vars => LinesInv'
<1> SUFFICES ASSUME IInv, LinesInv, [Next]_vars PROVE LinesInv'
  OBVIOUS
<1>0. /\ BatchWritten /\ DueKept /\ appended \in Nat /\ due \in Nat /\ flushed \in Nat
      /\ Len(file) \in Nat /\ flushed <= Len(file)
  BY NumberFacts DEF LinesInv
<1>1. CASE UNCHANGED vars
  <2>1. Ordered' /\ SparesEmpty'
    BY <1>1, OtherLines DEF vars, back, front
  <2>2. BatchWritten' /\ DueKept'
    BY <1>0, <1>1 DEF vars, back, front, BatchWritten, DueKept
  <2>3. QED BY <2>1, <2>2 DEF LinesInv
<1>2. ASSUME NEW len \in Lengths, append(len) PROVE LinesInv'
  BY <1>2, AppendLines
<1>3. CASE start
  <2>1. Ordered' /\ SparesEmpty'
    BY <1>3, OtherLines DEF start
  <2>2. BatchWritten' /\ DueKept'
    BY <1>0, <1>3 DEF start, front, BatchWritten, DueKept
  <2>3. QED BY <2>1, <2>2 DEF LinesInv
<1>4. CASE stop
  <2>1. Ordered' /\ SparesEmpty'
    BY <1>4, OtherLines DEF stop, back
  <2>2. BatchWritten' /\ DueKept'
    BY <1>0, <1>4 DEF stop, front, back, BatchWritten, DueKept
  <2>3. QED BY <2>1, <2>2 DEF LinesInv
<1>5. CASE TestRunning
  <2>1. /\ pc = "test" /\ UNCHANGED <<running, front, back, file>>
        /\ \/ pc' = "lock" /\ due' = appended /\ flushed' = flushed
           \/ pc' = "done" /\ flushed' = Len(file) /\ due' = due
    BY <1>5 DEF TestRunning
  <2>2. Ordered' /\ SparesEmpty'
    BY <2>1, OtherLines DEF back
  <2>3. BatchWritten' /\ DueKept'
    BY <1>0, <2>1 DEF front, back, BatchWritten, DueKept
  <2>4. QED BY <2>2, <2>3 DEF LinesInv
<1>6. CASE LockAndWait
  <2>1. Ordered' /\ SparesEmpty'
    BY <1>6, OtherLines DEF LockAndWait, back
  <2>2. BatchWritten' /\ DueKept'
    BY <1>0, <1>6 DEF LockAndWait, front, back, BatchWritten, DueKept
  <2>3. QED BY <2>1, <2>2 DEF LinesInv
<1>7. QED BY <1>1, <1>2, <1>3, <1>4, <1>5, <1>6, SwapLines, WriteLines, EndWriteLines,
             RecycleLines DEF Next, threadFunc

(* No line is lost, repeated or overtaken between append and the file, for any buffer
   size, line lengths and number of lines. *)
THEOREM LinesInOrder == Spec => []InOrder
<1>1. IInv /\ LinesInv => InOrder
  <2> SUFFICES ASSUME IInv, LinesInv PROVE InOrder
    OBVIOUS
  <2>0. /\ Len(file) \in Nat /\ appended \in Nat
        /\ toWrite \in Seq(FixedBuffer) /\ buffers \in Seq(FixedBuffer)
        /\ i \in 1..(Len(toWrite) + 1) /\ Len(buffers) \in Nat
    BY NumberFacts DEF IInv, TypeOK
  <2>1. PICK m, n \in Nat :
          /\ file = Run(0, Len(file))
          /\ Chain(toWrite, i, Len(file), m)
          /\ Chain(buffers, 1, m, n)
          /\ n <= appended /\ currentBuffer.data = Run(n, appended)
    BY DEF LinesInv, Ordered
  <2>2. Len(file) <= m /\ Lines(Unwritten) = Run(Len(file), m)
    BY <2>0, <2>1, ChainLines DEF Unwritten
  <2>3. m <= n /\ Lines(buffers) = Run(m, n)
    <3>1. SubSeq(buffers, 1, Len(buffers)) = buffers
      BY <2>0, SubSeqFull
    <3>2. 1 \in 1..(Len(buffers) + 1)
      BY <2>0
    <3>3. m <= n /\ Lines(SubSeq(buffers, 1, Len(buffers))) = Run(m, n)
      BY <2>0, <2>1, <3>2, ChainLines
    <3>4. QED BY <3>1, <3>3
  <2>3a. 0 \in Nat /\ 0 <= Len(file) /\ 0 <= m /\ 0 <= n
    BY <2>0
  <2>4. file \o Lines(Unwritten) = Run(0, m)
    <3>1. Run(0, Len(file)) \o Run(Len(file), m) = Run(0, m)
      BY <2>0, <2>2, <2>3a, RunsJoin, Zenon
    <3>2. QED BY <2>1, <2>2, <3>1
  <2>5. Run(0, m) \o Lines(buffers) = Run(0, n)
    <3>1. Run(0, m) \o Run(m, n) = Run(0, n)
      BY <2>3, <2>3a, RunsJoin, Zenon
    <3>2. QED BY <2>3, <3>1
  <2>6. Run(0, n) \o currentBuffer.data = Run(0, appended)
    <3>1. Run(0, n) \o Run(n, appended) = Run(0, appended)
      BY <2>0, <2>1, <2>3a, RunsJoin, Zenon
    <3>2. QED BY <2>1, <3>1
  <2>7. Run(0, appended) = [k \in 1..appended |-> k]
    BY <2>0 DEF Run
  <2>8. QED BY <2>4, <2>5, <2>6, <2>7 DEF InOrder
<1>2. QED BY <1>1, InitIInv, Inductive, InitLines, LinesStep, PTL DEF Spec

(* What was appended before threadFunc last found running_ set is on the disk when the
   thread has ended. *)
THEOREM StopFlushesDue == Spec => []StopKeepsDue
<1>1. IInv /\ LinesInv => StopKeepsDue
  <2> SUFFICES ASSUME IInv, LinesInv, pc = "done" PROVE flushed >= due
    BY DEF StopKeepsDue
  <2>1. due <= flushed /\ due \in Nat /\ flushed \in Nat
    BY NumberFacts DEF LinesInv, DueKept
  <2>2. QED BY <2>1
<1>2. QED BY <1>1, InitIInv, Inductive, InitLines, LinesStep, PTL DEF Spec

-----------------------------------------------------------------------------
(* The file the backend writes to, for any sizes, intervals and line lengths, and
   for whatever count_ starts with. *)

(* The inductive invariant of the file *)

(* The oldest buffered line came after the last timed flush. *)
BufferedSinceFlush == oldest # None => lastFlush <= oldest

(* count_ has counted every line that missed the change of day, from 0 or from
   where it started, and has not reached the check. *)
LateCounted ==
  /\ \E c \in CountAtStart \cup {0} : late <= count - c
  /\ late > 0 => count < CheckEveryN

(* The period is that of the last roll. *)
PeriodOfRoll == startOfPeriod = Period(lastRoll)

FileIInv ==
  /\ CounterBounded /\ PeriodOfRoll /\ BufferedSinceFlush /\ FlushLag
  /\ LateCounted

-----------------------------------------------------------------------------
LEMMA PeriodResult ==
  ASSUME NEW time \in Nat
  PROVE  /\ Period(time) \in Nat
         /\ Period(time) <= time /\ time < Period(time) + Day
<1>1. Day \in Nat \ {0}
  BY LogFileAssumption
<1> DEFINE d == time \div Day
<1>2. d \in Nat /\ Day * d <= time /\ time < Day * (d + 1)
  BY <1>1
<1> HIDE DEF d
<1>3. d * Day \in Nat /\ d * Day = Day * d /\ Day * (d + 1) = d * Day + Day
  BY <1>1, <1>2
<1>4. QED BY <1>2, <1>3 DEF Period, d

-----------------------------------------------------------------------------
(* The two outcomes of an append *)

BytesCounted(bytes) == written + bytes
RollWanted(bytes) ==
  \/ BytesCounted(bytes) > RollSize
  \/ count + 1 >= CheckEveryN /\ Period(now) # startOfPeriod

(* rollFile refuses only in the second of the last roll, which is not another day. *)
LEMMA RefusedInSamePeriod ==
  ASSUME LogFileTypeOK, startOfPeriod = Period(lastRoll),
         NEW time \in {now, now + 1}, ~(time > lastRoll)
  PROVE  now = lastRoll /\ Period(now) = startOfPeriod
BY DEF LogFileTypeOK

LEMMA CountedResult ==
  ASSUME LogFileTypeOK, NEW bytes \in Nat
  PROVE  Counted(size + bytes) \in 0..(RollSize + 1)
BY LogFileAssumption DEF LogFileTypeOK, Counted

LEMMA RollResult ==
  ASSUME LogFileTypeOK,
         NEW bytes \in Nat, NEW time \in {now, now + 1}, appendInlock(bytes, time),
         RollWanted(bytes), time > lastRoll
  PROVE  /\ lastRoll' = time /\ lastFlush' = time /\ startOfPeriod' = Period(time)
         /\ written' = 0 /\ size' \in 0..(RollSize + 1) /\ oldest' = None /\ late' = 0
         /\ count' \in {0, count + 1}
<1> DEFINE a == FileAppend(Current, bytes)
           r == Rolled(a, time)
           f == Flushed(r)
<1>0. /\ now \in Nat /\ lastRoll \in Nat /\ time \in Nat /\ FlushInterval \in Nat
      /\ ~(time <= lastRoll) /\ ~(now - time > FlushInterval)
  BY LogFileAssumption DEF LogFileTypeOK
<1>1. /\ a.written = BytesCounted(bytes) /\ a.count = count + 1 /\ a.lastRoll = lastRoll
      /\ a.startOfPeriod = startOfPeriod /\ a.size \in 0..(RollSize + 1)
  <2>1. /\ a.written = BytesCounted(bytes) /\ a.count = count + 1
        /\ a.lastRoll = lastRoll /\ a.startOfPeriod = startOfPeriod
        /\ a.size = Counted(size + bytes)
    BY DEF FileAppend, Current, BytesCounted
  <2>2. QED BY <2>1, CountedResult
<1>2. /\ r.lastFlush = time /\ r.lastRoll = time /\ r.startOfPeriod = Period(time)
      /\ r.written = 0 /\ r.size \in {a.size, 0}
      /\ r.oldest = None /\ r.count \in {0, count + 1}
  <2>1. CASE BytesCounted(bytes) > RollSize
    BY <1>0, <1>1, <2>1 DEF Rolled, rollFile, Reopened, FileAppend, Current
  <2>2. CASE ~(BytesCounted(bytes) > RollSize)
    BY <1>0, <1>1, <2>2
       DEF Rolled, rollFile, Reopened, FileAppend, Current, CheckDue,
           RollWanted
  <2>3. QED BY <2>1, <2>2
<1>3. f = r
  BY <1>0, <1>2 DEF Flushed
<1>4. /\ count' = f.count /\ startOfPeriod' = f.startOfPeriod
      /\ lastRoll' = f.lastRoll /\ lastFlush' = f.lastFlush
      /\ written' = f.written /\ size' = f.size /\ oldest' = f.oldest
      /\ late' = (IF f.lastRoll # lastRoll \/ Period(now) = startOfPeriod
                  THEN 0 ELSE late + 1)
  BY DEF appendInlock
<1>5. 0 \in 0..(RollSize + 1)
  BY LogFileAssumption
<1> HIDE DEF a, r, f
<1>6. QED BY <1>0, <1>1, <1>2, <1>3, <1>4, <1>5

LEMMA KeepResult ==
  ASSUME LogFileTypeOK,
         NEW bytes \in Nat, NEW time \in {now, now + 1}, appendInlock(bytes, time),
         ~RollWanted(bytes) \/ ~(time > lastRoll)
  PROVE  /\ lastRoll' = lastRoll /\ startOfPeriod' = startOfPeriod
         /\ written' = BytesCounted(bytes) /\ size' \in 0..(RollSize + 1)
         /\ late' = (IF Period(now) = startOfPeriod THEN 0 ELSE late + 1)
         /\ count' = (IF count + 1 >= CheckEveryN /\ ~(BytesCounted(bytes) > RollSize)
                      THEN 0 ELSE count + 1)
         /\ \/ lastFlush' = now /\ oldest' = None
            \/ /\ now - lastFlush <= FlushInterval /\ lastFlush' = lastFlush
               /\ oldest' = (IF oldest = None THEN now ELSE oldest)
<1> DEFINE a == FileAppend(Current, bytes)
           r == Rolled(a, time)
           f == Flushed(r)
<1>0. /\ now \in Nat /\ lastRoll \in Nat /\ time \in Nat /\ FlushInterval \in Nat
      /\ lastFlush \in Nat
  BY LogFileAssumption DEF LogFileTypeOK
<1>1. /\ a.written = BytesCounted(bytes) /\ a.count = count + 1 /\ a.lastRoll = lastRoll
      /\ a.startOfPeriod = startOfPeriod /\ a.lastFlush = lastFlush
      /\ a.oldest = (IF oldest = None THEN now ELSE oldest)
      /\ a.size = Counted(size + bytes)
  BY DEF FileAppend, Current, BytesCounted
<1>2. /\ r.lastFlush = lastFlush /\ r.lastRoll = lastRoll
      /\ r.startOfPeriod = startOfPeriod
      /\ r.written = BytesCounted(bytes) /\ r.oldest = a.oldest /\ r.size = a.size
      /\ r.count = (IF count + 1 >= CheckEveryN /\ ~(BytesCounted(bytes) > RollSize)
                    THEN 0 ELSE count + 1)
  <2>1. CASE BytesCounted(bytes) > RollSize
    <3>1. ~(time > lastRoll)
      BY <2>1 DEF RollWanted
    <3>2. r = a
      BY <1>0, <1>1, <2>1, <3>1 DEF Rolled, rollFile
    <3>3. QED BY <1>1, <2>1, <3>2
  <2>2. CASE ~(BytesCounted(bytes) > RollSize) /\ ~CheckDue(a)
    <3>1. r = a
      BY <1>0, <1>1, <2>2 DEF Rolled
    <3>2. QED BY <1>1, <2>2, <3>1 DEF CheckDue
  <2>3. CASE ~(BytesCounted(bytes) > RollSize) /\ CheckDue(a)
    <3>1. r = [a EXCEPT !.count = 0]
      BY <1>0, <1>1, <2>3
         DEF Rolled, rollFile, FileAppend, Current, CheckDue,
             RollWanted
    <3>2. /\ r.lastFlush = a.lastFlush /\ r.lastRoll = a.lastRoll /\ r.count = 0
          /\ r.startOfPeriod = a.startOfPeriod /\ r.written = a.written
          /\ r.oldest = a.oldest /\ r.size = a.size
      BY <3>1, ZenonT(60) DEF FileAppend, Current
    <3>3. QED BY <1>1, <2>3, <3>2 DEF CheckDue
  <2>4. QED BY <2>1, <2>2, <2>3
<1>3. /\ count' = f.count /\ startOfPeriod' = f.startOfPeriod
      /\ lastRoll' = f.lastRoll /\ lastFlush' = f.lastFlush
      /\ written' = f.written /\ size' = f.size /\ oldest' = f.oldest
      /\ late' = (IF f.lastRoll # lastRoll \/ Period(now) = startOfPeriod
                  THEN 0 ELSE late + 1)
  BY DEF appendInlock
<1>4. r \in [count : {r.count}, startOfPeriod : {r.startOfPeriod},
             lastRoll : {r.lastRoll}, lastFlush : {r.lastFlush}, written : {r.written},
             size : {r.size}, oldest : {r.oldest}]
  BY DEF Rolled, rollFile, FileAppend, Current
<1>8. Counted(size + bytes) \in 0..(RollSize + 1)
  BY CountedResult
<1>5. CASE now - lastFlush > FlushInterval
  <2>1. f = [r EXCEPT !.lastFlush = now, !.oldest = None]
    BY <1>2, <1>5 DEF Flushed
  <2> HIDE DEF a, r, f
  <2>2. /\ f.count = r.count /\ f.startOfPeriod = r.startOfPeriod
        /\ f.lastRoll = r.lastRoll /\ f.written = r.written
        /\ f.lastFlush = now /\ f.oldest = None /\ f.size = r.size
    BY <1>4, <2>1
  <2>3. QED BY <1>1, <1>2, <1>3, <1>8, <2>2
<1>6. CASE ~(now - lastFlush > FlushInterval)
  <2>1. f = r
    BY <1>2, <1>6 DEF Flushed
  <2> HIDE DEF a, r, f
  <2>2. QED BY <1>0, <1>1, <1>2, <1>3, <1>6, <1>8, <2>1
<1>7. QED BY <1>5, <1>6

-----------------------------------------------------------------------------
LEMMA FileAppendStep ==
  ASSUME FileIInv, NEW bytes \in Nat,
         NEW time \in {now, now + 1} \cap 0..MaxTime,
         appendInlock(bytes, time)
  PROVE  FileIInv'
<1>0. /\ LogFileTypeOK /\ PeriodOfRoll /\ LateCounted /\ BufferedSinceFlush
      /\ now \in Nat /\ lastRoll \in Nat /\ lastFlush \in Nat /\ count \in Int
      /\ late \in Nat /\ written \in Nat /\ time \in Nat /\ time >= now
      /\ FlushInterval \in Nat /\ RollSize \in Nat /\ CheckEveryN \in Nat \ {0}
      /\ CountAtStart \subseteq Int /\ lastRoll <= now /\ lastFlush <= now
      /\ lastRoll <= lastFlush /\ lastRoll >= 1 /\ now <= MaxTime /\ time <= MaxTime
      /\ MaxTime \in Nat
  BY LogFileAssumption DEF FileIInv, CounterBounded, LogFileTypeOK
<1>1. lastAppend' = now /\ now' = time
  BY DEF appendInlock
<1>2. CASE RollWanted(bytes) /\ time > lastRoll
  <2>1. /\ lastRoll' = time /\ lastFlush' = time /\ startOfPeriod' = Period(time)
        /\ written' = 0 /\ size' \in 0..(RollSize + 1) /\ oldest' = None /\ late' = 0
        /\ count' \in {0, count + 1}
    BY <1>0, <1>2, RollResult
  <2>2. LogFileTypeOK'
    <3>1. /\ Period(time) \in Nat
          /\ Period(time) <= time /\ time < Period(time) + Day
      BY <1>0, PeriodResult
    <3>2. QED BY <1>0, <1>1, <2>1, <3>1 DEF LogFileTypeOK
  <2>3. LateCounted'
    <3>1. CASE count' = 0
      BY <2>1, <3>1 DEF LateCounted
    <3>2. CASE count' = count + 1
      <4>1. PICK c \in CountAtStart \cup {0} : late <= count - c
        BY <1>0 DEF LateCounted
      <4>2. c \in Int /\ late' <= count' - c
        BY <1>0, <2>1, <3>2, <4>1
      <4>3. ~(late' > 0)
        BY <2>1
      <4>4. QED BY <4>1, <4>2, <4>3, Zenon DEF LateCounted
    <3>3. QED BY <2>1, <3>1, <3>2
  <2>4. QED BY <1>0, <2>1, <2>2, <2>3
    DEF FileIInv, CounterBounded, PeriodOfRoll, BufferedSinceFlush, FlushLag,
        Period
<1>3. CASE ~(RollWanted(bytes) /\ time > lastRoll)
  <2>1. /\ lastRoll' = lastRoll /\ startOfPeriod' = startOfPeriod
        /\ written' = BytesCounted(bytes) /\ size' \in 0..(RollSize + 1)
        /\ late' = (IF Period(now) = startOfPeriod THEN 0 ELSE late + 1)
        /\ count' = (IF count + 1 >= CheckEveryN /\ ~(BytesCounted(bytes) > RollSize)
                     THEN 0 ELSE count + 1)
        /\ \/ lastFlush' = now /\ oldest' = None
           \/ /\ now - lastFlush <= FlushInterval /\ lastFlush' = lastFlush
              /\ oldest' = (IF oldest = None THEN now ELSE oldest)
    BY <1>0, <1>3, KeepResult
  <2>2. BytesCounted(bytes) \in Nat /\ (oldest # None => oldest \in 1..MaxTime)
    BY <1>0 DEF BytesCounted, LogFileTypeOK
  <2>3. LogFileTypeOK'
    BY <1>0, <1>1, <2>1, <2>2 DEF LogFileTypeOK
  <2>4. RollWanted(bytes) => now = lastRoll /\ Period(now) = startOfPeriod
    BY <1>0, <1>3, RefusedInSamePeriod DEF PeriodOfRoll
  <2>5. CounterBounded'
    BY <1>1, <2>1, <2>3, <2>4 DEF CounterBounded, RollWanted
  <2>6. BufferedSinceFlush' /\ FlushLag'
    BY <1>0, <1>1, <2>1, <2>2 DEF BufferedSinceFlush, FlushLag
  <2>7. LateCounted'
    <3>1. CASE Period(now) = startOfPeriod
      BY <1>0, <2>1, <3>1 DEF LateCounted
    <3>2. CASE Period(now) # startOfPeriod
      <4>1. late' = late + 1 /\ count' = count + 1 /\ count + 1 < CheckEveryN
        BY <1>0, <2>1, <2>4, <3>2 DEF RollWanted
      <4>2. QED BY <1>0, <4>1 DEF LateCounted
    <3>3. QED BY <3>1, <3>2
  <2>8. PeriodOfRoll'
    BY <1>0, <2>1 DEF PeriodOfRoll, Period
  <2>9. QED BY <2>5, <2>6, <2>7, <2>8 DEF FileIInv
<1>4. QED BY <1>2, <1>3

LEMMA FileInductive == LogFileSpec => []FileIInv
<1>1. LogFileInit => FileIInv
  <2> SUFFICES ASSUME LogFileInit PROVE FileIInv
    OBVIOUS
  <2>1. count \in CountAtStart /\ count \in Int
    BY LogFileAssumption DEF LogFileInit
  <2>2. Period(1) \in Nat /\ Period(1) <= 1 /\ 1 < Period(1) + Day
    BY PeriodResult
  <2>3. LogFileTypeOK
    BY <2>1, <2>2, LogFileAssumption DEF LogFileInit, LogFileTypeOK
  <2>4. LateCounted
    BY <2>1 DEF LogFileInit, LateCounted
  <2>5. QED BY <2>3, <2>4, LogFileAssumption
    DEF LogFileInit, FileIInv, CounterBounded, PeriodOfRoll,
        BufferedSinceFlush, FlushLag
<1>2. FileIInv /\ [LogFileNext]_logFileVars => FileIInv'
  <2> SUFFICES ASSUME FileIInv, [LogFileNext]_logFileVars PROVE FileIInv'
    OBVIOUS
  <2> USE LogFileAssumption DEF FileIInv, CounterBounded, PeriodOfRoll,
          BufferedSinceFlush, FlushLag, LateCounted, LogFileTypeOK, Period
  <2>1. CASE LogFileTick BY <2>1 DEF LogFileTick
  <2>2. CASE flush BY <2>2 DEF flush
  <2>3. ASSUME NEW counted \in FileLengths \cup {0},
               NEW time \in {now, now + 1} \cap 0..MaxTime,
               appendInlock(counted, time)
        PROVE  FileIInv'
    <3>1. counted \in Nat
      BY LogFileAssumption
    <3>2. QED BY <2>3, <3>1, FileAppendStep
  <2>4. CASE UNCHANGED logFileVars BY <2>4 DEF logFileVars
  <2>5. QED BY <2>1, <2>2, <2>3, <2>4 DEF LogFileNext
<1>3. QED BY <1>1, <1>2, PTL DEF LogFileSpec

(* No line waits in the stdio buffer for more than flushInterval_ once a later
   append has returned. *)
THEOREM FlushInTime == LogFileSpec => []FlushLag
<1>1. FileIInv => FlushLag
  BY DEF FileIInv
<1>2. QED BY <1>1, FileInductive, PTL

(* What is written to a file since it was opened exceeds rollsize_ only in the second
   of the last roll, and every variable keeps its type.  Nothing bounds the file: a
   roll on the same date opens it again. *)
THEOREM CounterRolls == LogFileSpec => []CounterBounded
<1>1. FileIInv => CounterBounded
  BY DEF FileIInv
<1>2. QED BY <1>1, FileInductive, PTL

(* A new day reaches the file within checkEveryN_ lines, whatever count_ held when
   the object was made, plus what it was below zero. *)
THEOREM RollsByDay == LogFileSpec => []DayNoticed
<1>1. FileIInv => DayNoticed
  <2> SUFFICES ASSUME FileIInv PROVE DayNoticed
    OBVIOUS
  <2>1. /\ late \in Nat /\ count \in Int /\ CountAtStart \subseteq Int
        /\ CheckEveryN \in Nat \ {0} /\ LateCounted
    BY LogFileAssumption DEF FileIInv, CounterBounded, LogFileTypeOK
  <2>2. CASE late = 0
    BY <2>1, <2>2 DEF DayNoticed
  <2>3. CASE late > 0
    <3>1. PICK c \in CountAtStart \cup {0} : late <= count - c
      BY <2>1 DEF LateCounted
    <3>2. late < CheckEveryN - c
      BY <2>1, <2>3, <3>1 DEF LateCounted
    <3>3. QED BY <2>1, <3>1, <3>2 DEF DayNoticed
  <2>4. QED BY <2>1, <2>2, <2>3
<1>2. QED BY <1>1, FileInductive, PTL

-----------------------------------------------------------------------------
(* The LOG_* statements that make the lines, for any threads and statements. *)

(* What a line is, whatever Formatted makes of the statement. *)
LogLine == {[statement |-> s, buffer |-> Formatted(s)] : s \in Statements}

(* The types, and that every line is one that its statement makes. *)
LogTypes == LoggerTypeOK /\ lines \in Seq(LogLine)

FatalIn(n) == \E k \in 1..n : lines[k].statement.level = "FATAL"

(* A thread in the destructor of a FATAL statement has put its line out, and after
   the flush of the same sink the line has left the process. *)
FatalOut ==
  /\ \A t \in Threads :
       /\ log_pc[t] = "flush" => FatalIn(Len(lines))
       /\ log_pc[t] = "abort" /\ g_output = g_flush => FatalIn(reached)
  /\ aborted => \E t \in Threads : log_pc[t] = "abort"

LEMMA BrokenDownFields ==
  ASSUME NEW s \in Nat
  PROVE  /\ BrokenDown(s) \in [Fields -> Nat]
BY DEF BrokenDown, Fields

LEMMA LogTypesStep == ASSUME LogTypes, LoggerNext PROVE LogTypes'
<1> USE LoggerAssumption DEF LogTypes, LoggerTypeOK, At, config
<1>1. CASE LoggerTick BY <1>1 DEF LoggerTick
<1>2. CASE setOutput BY <1>2 DEF setOutput
<1>3. CASE setFlush BY <1>3 DEF setFlush
<1>4. CASE SinkWrites BY <1>4 DEF SinkWrites
<1>5. ASSUME NEW t \in Threads, ThreadStep(t) PROVE LogTypes'
  <2>1. CASE Construct(t) BY <2>1 DEF Construct
  <2>2. CASE localtime(t)
    <3>1. tm' \in [Fields -> Nat]
      BY <2>2, BrokenDownFields DEF localtime
    <3>2. NoFields \in [Fields -> Nat \cup {NoField}]
      BY DEF NoFields
    <3>3. QED BY <2>2, <3>1, <3>2 DEF localtime
  <2>3. CASE callFlush(t) BY <2>3 DEF callFlush
  <2>4. CASE Abort(t) BY <2>4 DEF Abort
  <2>5. ASSUME NEW f \in Fields, PrintField(t, f) PROVE LogTypes'
    BY <2>5 DEF PrintField
  <2>6. ASSUME NEW s \in Statements, Output(t, s) PROVE LogTypes'
    <3>1. NoFields \in [Fields -> Nat \cup {NoField}]
      BY DEF NoFields
    <3>2. lines' = Append(lines, [statement |-> s, buffer |-> Formatted(s)])
      BY <2>6 DEF Output
    <3>3. [statement |-> s, buffer |-> Formatted(s)] \in LogLine
      BY DEF LogLine
    <3>4. lines' \in Seq(LogLine) /\ Len(lines') = Len(lines) + 1
      BY <3>2, <3>3
    <3>5. reached' \in 0..Len(lines')
      BY <2>6, <3>4 DEF Output
    <3>6. QED BY <2>6, <3>1, <3>4, <3>5 DEF Output
  <2>7. QED BY <1>5, <2>1, <2>2, <2>3, <2>4, <2>5, <2>6 DEF ThreadStep
<1>6. QED BY <1>1, <1>2, <1>3, <1>4, <1>5 DEF LoggerNext

LEMMA FatalOutStep == ASSUME LogTypes, FatalOut, LoggerNext PROVE FatalOut'
<1> USE DEF LogTypes, LoggerTypeOK, FatalOut, FatalIn, At, config
<1>1. CASE LoggerTick BY <1>1 DEF LoggerTick
<1>2. CASE setOutput BY <1>2 DEF setOutput
<1>3. CASE setFlush BY <1>3 DEF setFlush
<1>4. CASE SinkWrites BY <1>4 DEF SinkWrites
<1>5. ASSUME NEW t \in Threads, ThreadStep(t) PROVE FatalOut'
  <2>1. CASE Construct(t) BY <2>1 DEF Construct
  <2>2. CASE localtime(t) BY <2>2 DEF localtime
  <2>3. CASE callFlush(t) BY <2>3 DEF callFlush
  <2>4. CASE Abort(t) BY <2>4 DEF Abort
  <2>5. ASSUME NEW f \in Fields, PrintField(t, f) PROVE FatalOut'
    BY <2>5 DEF PrintField
  <2>6. ASSUME NEW s \in Statements, Output(t, s) PROVE FatalOut'
    <3>1. lines' = Append(lines, [statement |-> s, buffer |-> Formatted(s)])
      BY <2>6 DEF Output
    <3>2. /\ \A k \in 1..Len(lines) : lines'[k] = lines[k]
          /\ Len(lines') = Len(lines) + 1
          /\ lines'[Len(lines) + 1].statement = s
      BY <3>1
    <3>3. QED BY <2>6, <3>2 DEF Output
  <2>7. QED BY <1>5, <2>1, <2>2, <2>3, <2>4, <2>5, <2>6 DEF ThreadStep
<1>6. QED BY <1>1, <1>2, <1>3, <1>4, <1>5 DEF LoggerNext

LEMMA LogInductive == LoggerSpec => [](LogTypes /\ FatalOut)
<1>1. LoggerInit => LogTypes /\ FatalOut
  <2> SUFFICES ASSUME LoggerInit PROVE LogTypes /\ FatalOut
    OBVIOUS
  <2>1. LogTypes
    <3>1. NoFields \in [Fields -> Nat \cup {NoField}]
      BY DEF NoFields
    <3>2. BrokenDown(0) \in [Fields -> Nat]
      BY BrokenDownFields
    <3>3. 0 \in 0..MaxMinutes /\ MaxStatements \in Nat
      BY LoggerAssumption
    <3>4. lines \in Seq(LogLine) /\ Len(lines) = 0
      BY EmptySeq DEF LoggerInit
    <3>5. reached \in 0..Len(lines) /\ Len(lines) <= MaxStatements
      BY <3>3, <3>4 DEF LoggerInit
    <3>6. QED BY <3>1, <3>2, <3>3, <3>4, <3>5 DEF LoggerInit, LogTypes, LoggerTypeOK
  <2>2. FatalOut
    BY DEF LoggerInit, FatalOut
  <2>3. QED BY <2>1, <2>2
<1>2. LogTypes /\ FatalOut /\ [LoggerNext]_loggerVars
        => (LogTypes /\ FatalOut)'
  <2> SUFFICES ASSUME LogTypes, FatalOut, [LoggerNext]_loggerVars
               PROVE  LogTypes' /\ FatalOut'
    OBVIOUS
  <2>1. CASE UNCHANGED loggerVars
    BY <2>1 DEF loggerVars, config, LogTypes, LoggerTypeOK, FatalOut, FatalIn
  <2>2. QED BY <2>1, LogTypesStep, FatalOutStep
<1>3. QED BY <1>1, <1>2, PTL DEF LoggerSpec

(* When a process has aborted, a FATAL line has left it, if its output and its flush
   are of one sink. *)
THEOREM FatalAlwaysReaches == LoggerSpec => []FatalReaches
<1>1. FatalOut => FatalReaches
  BY DEF FatalOut, FatalIn, FatalReaches
<1>2. QED BY <1>1, LogInductive, PTL

-----------------------------------------------------------------------------
(* What the folds and the digits make of a line, for any statements. *)

(* What a fold has after each element, when its steps are functions. *)
Steps(h, base, f, N) == h[0] = base /\ \A n \in 1..N : h[n] = f[n][h[n - 1]]

LEMMA StepsExist ==
  ASSUME NEW X, NEW base \in X, NEW N \in Nat, NEW f \in [1..N -> [X -> X]]
  PROVE  \E h \in [0..N -> X] : Steps(h, base, f, N)
<1> DEFINE P(n) == \E h \in [0..n -> X] : Steps(h, base, f, n)
           B == {n \in 0..N : ~P(n)}
<1>1. SUFFICES ASSUME B # {} PROVE FALSE
  OBVIOUS
<1>2. PICK n \in B : \A m \in B : n <= m
  <2>1. B \in SUBSET Nat
    OBVIOUS
  <2>2. QED BY <1>1, <2>1, LeastNumber
<1>3. n \in 0..N /\ ~P(n)
  BY <1>2
<1>4. P(0)
  <2> DEFINE h == [k \in 0..0 |-> base]
  <2>1. h \in [0..0 -> X] /\ h[0] = base
    OBVIOUS
  <2> HIDE DEF h
  <2>2. Steps(h, base, f, 0)
    BY <2>1 DEF Steps
  <2>3. QED BY <2>1, <2>2
<1>5. n # 0
  BY <1>3, <1>4
<1>6. n - 1 \in 0..N /\ n - 1 \in Nat /\ ~(n <= n - 1) /\ n \in 1..N
  BY <1>3, <1>5
<1>7. P(n - 1)
  BY <1>2, <1>6
<1>8. PICK h \in [0..(n - 1) -> X] : Steps(h, base, f, n - 1)
  BY <1>7
<1> DEFINE g == [k \in 0..n |-> IF k = n THEN f[n][h[n - 1]] ELSE h[k]]
<1>9. f[n][h[n - 1]] \in X
  <2>1. h[n - 1] \in X /\ f[n] \in [X -> X]
    BY <1>6, <1>8
  <2>2. QED BY <2>1
<1>10. \A k \in 0..n : k # n => k \in 0..(n - 1) /\ h[k] \in X
  BY <1>3, <1>6, <1>8
<1>11. g \in [0..n -> X]
  BY <1>9, <1>10
<1>12. g[n] = f[n][h[n - 1]] /\ \A k \in 0..(n - 1) : g[k] = h[k]
  BY <1>3
<1> HIDE DEF g
<1>13. Steps(g, base, f, n)
  <2>1. g[0] = base
    BY <1>6, <1>8, <1>12 DEF Steps
  <2>2. ASSUME NEW k \in 1..n PROVE g[k] = f[k][g[k - 1]]
    <3>1. CASE k = n
      <4>1. n - 1 \in 0..(n - 1)
        BY <1>6
      <4>2. g[n - 1] = h[n - 1]
        BY <1>12, <4>1
      <4>3. QED BY <1>12, <3>1, <4>2
    <3>2. CASE k # n
      <4>1. k \in 1..(n - 1) /\ k \in 0..(n - 1) /\ k - 1 \in 0..(n - 1)
        BY <1>6, <3>2
      <4>2. g[k] = h[k] /\ g[k - 1] = h[k - 1]
        BY <1>12, <4>1
      <4>3. h[k] = f[k][h[k - 1]]
        BY <1>8, <4>1 DEF Steps
      <4>4. QED BY <4>2, <4>3
    <3>3. QED BY <3>1, <3>2
  <2>3. QED BY <2>1, <2>2 DEF Steps
<1>14. QED BY <1>3, <1>11, <1>13

(* Counting up. *)
LEMMA Upwards ==
  ASSUME NEW N \in Nat, NEW S, 0 \in S, \A n \in 1..N : n - 1 \in S => n \in S
  PROVE  \A n \in 0..N : n \in S
<1> DEFINE B == {n \in 0..N : n \notin S}
<1>1. SUFFICES ASSUME B # {} PROVE FALSE
  OBVIOUS
<1>2. PICK n \in B : \A m \in B : n <= m
  <2>1. B \in SUBSET Nat
    OBVIOUS
  <2>2. QED BY <1>1, <2>1, LeastNumber
<1>3. n \in 0..N /\ n \notin S
  BY <1>2
<1>4. n # 0
  BY <1>3
<1>5. n - 1 \in 0..N /\ ~(n <= n - 1) /\ n \in 1..N
  BY <1>3, <1>4
<1>6. n - 1 \in S
  BY <1>2, <1>5
<1>7. QED BY <1>3, <1>5, <1>6

(* A piece that is streamed, and what is written of it. *)
Fixed == [kind : {"text", "newline"}, len : Nat]
Numeral == [kind : {"digits"}, negative : BOOLEAN, digits : Seq(0..9)]
Item == Fixed \cup Numeral
Piece == Fixed \cup [kind : {"number"}, value : CInteger]

LineBuffer == [data : Seq(Item), size : Nat]
Roomy == {b \in LineBuffer : b.size < kSmallBufferSize}

(* One step of matching r, when n of it is matched, and all of them. *)
Matched(r, n, p) == IF n < Len(r) /\ r[n + 1] = p THEN n + 1 ELSE n
Matching(r, all) ==
  Fold(LAMBDA n, p : IF n < Len(r) /\ r[n + 1] = p THEN n + 1 ELSE n, 0, all)

(* What digits of one sign denote. *)
Value(sign, s) == Fold(LAMBDA n, d : 10 * n + sign * d, 0, s)

(* What the folds of the model have after each element. *)
LEMMA RoomSteps ==
  ASSUME NEW S, NEW s \in Seq(S),
         \A n \in 1..Len(s), x \in Nat : x + RoomFor(s[n]) \in Nat
  PROVE  \E h \in [0..Len(s) -> Nat] :
           /\ h[0] = 0
           /\ \A n \in 1..Len(s) : h[n] = h[n - 1] + RoomFor(s[n])
           /\ Room(s) = h[Len(s)]
<1> DEFINE N == Len(s)
           X == Nat
           G(h) == h = [n \in 0..N |-> IF n = 0 THEN 0 ELSE h[n - 1] + RoomFor(s[n])]
           c == CHOOSE h : G(h)
           f == [n \in 1..N |-> [x \in X |-> x + RoomFor(s[n])]]
<1>1. N \in Nat
  OBVIOUS
<1>2. Room(s) = c[N]
  BY Zenon DEF Room, Fold
<1>3. 0 \in X
  BY DEF X
<1> HIDE DEF N, X
<1>4. \A n \in 1..N, x \in X : x + RoomFor(s[n]) \in X
  BY DEF N, X
<1>5. \A n \in 1..N, x \in X : f[n][x] = x + RoomFor(s[n])
  OBVIOUS
<1>6. f \in [1..N -> [X -> X]]
  BY <1>4
<1> HIDE DEF f
<1>7. PICK h \in [0..N -> X] : Steps(h, 0, f, N)
  BY <1>1, <1>3, <1>6, StepsExist
<1>8. h[0] = 0 /\ \A n \in 1..N : h[n] = h[n - 1] + RoomFor(s[n])
  <2>1. h[0] = 0 /\ \A n \in 1..N : h[n] = f[n][h[n - 1]]
    BY <1>7 DEF Steps
  <2>2. \A n \in 1..N : h[n - 1] \in X
    BY <1>1, <1>7
  <2>3. QED BY <1>5, <2>1, <2>2
<1>9. G(h)
  <2> DEFINE e == [n \in 0..N |-> IF n = 0 THEN 0 ELSE h[n - 1] + RoomFor(s[n])]
  <2>1. \A n \in 0..N : h[n] = e[n]
    <3>1. \A n \in 0..N : n = 0 \/ n \in 1..N
      BY <1>1
    <3>2. QED BY <1>8, <3>1
  <2>2. DOMAIN h = 0..N /\ h = [n \in 0..N |-> h[n]] /\ DOMAIN e = 0..N
    BY <1>7
  <2>3. QED BY <2>1, <2>2
<1>10. G(c)
  BY <1>9, Zenon
<1>11. \A n \in 0..N : c[n] = IF n = 0 THEN 0 ELSE c[n - 1] + RoomFor(s[n])
  BY <1>10, Zenon
<1> HIDE DEF c, G
<1> DEFINE Q == {n \in 0..N : c[n] = h[n]}
<1>12. 0 \in Q
  BY <1>1, <1>8, <1>11
<1>13. ASSUME NEW n \in 1..N, n - 1 \in Q PROVE n \in Q
  <2>1. c[n - 1] = h[n - 1] /\ n \in 0..N /\ n # 0
    BY <1>1, <1>13
  <2>2. QED BY <1>8, <1>11, <2>1
<1> HIDE DEF Q
<1>14. \A n \in 0..N : n \in Q
  BY <1>1, <1>12, <1>13, Upwards
<1>15. c[N] = h[N]
  BY <1>1, <1>14 DEF Q
<1>16. QED BY <1>2, <1>8, <1>15 DEF N, X

(* Likewise. *)
LEMMA BytesSteps ==
  ASSUME NEW S, NEW s \in Seq(S),
         \A n \in 1..Len(s), x \in Nat : x + LengthOf(s[n]) \in Nat
  PROVE  \E h \in [0..Len(s) -> Nat] :
           /\ h[0] = 0
           /\ \A n \in 1..Len(s) : h[n] = h[n - 1] + LengthOf(s[n])
           /\ Bytes(s) = h[Len(s)]
<1> DEFINE N == Len(s)
           X == Nat
           G(h) == h = [n \in 0..N |-> IF n = 0 THEN 0 ELSE h[n - 1] + LengthOf(s[n])]
           c == CHOOSE h : G(h)
           f == [n \in 1..N |-> [x \in X |-> x + LengthOf(s[n])]]
<1>1. N \in Nat
  OBVIOUS
<1>2. Bytes(s) = c[N]
  BY Zenon DEF Bytes, Fold
<1>3. 0 \in X
  BY DEF X
<1> HIDE DEF N, X
<1>4. \A n \in 1..N, x \in X : x + LengthOf(s[n]) \in X
  BY DEF N, X
<1>5. \A n \in 1..N, x \in X : f[n][x] = x + LengthOf(s[n])
  OBVIOUS
<1>6. f \in [1..N -> [X -> X]]
  BY <1>4
<1> HIDE DEF f
<1>7. PICK h \in [0..N -> X] : Steps(h, 0, f, N)
  BY <1>1, <1>3, <1>6, StepsExist
<1>8. h[0] = 0 /\ \A n \in 1..N : h[n] = h[n - 1] + LengthOf(s[n])
  <2>1. h[0] = 0 /\ \A n \in 1..N : h[n] = f[n][h[n - 1]]
    BY <1>7 DEF Steps
  <2>2. \A n \in 1..N : h[n - 1] \in X
    BY <1>1, <1>7
  <2>3. QED BY <1>5, <2>1, <2>2
<1>9. G(h)
  <2> DEFINE e == [n \in 0..N |-> IF n = 0 THEN 0 ELSE h[n - 1] + LengthOf(s[n])]
  <2>1. \A n \in 0..N : h[n] = e[n]
    <3>1. \A n \in 0..N : n = 0 \/ n \in 1..N
      BY <1>1
    <3>2. QED BY <1>8, <3>1
  <2>2. DOMAIN h = 0..N /\ h = [n \in 0..N |-> h[n]] /\ DOMAIN e = 0..N
    BY <1>7
  <2>3. QED BY <2>1, <2>2
<1>10. G(c)
  BY <1>9, Zenon
<1>11. \A n \in 0..N : c[n] = IF n = 0 THEN 0 ELSE c[n - 1] + LengthOf(s[n])
  BY <1>10, Zenon
<1> HIDE DEF c, G
<1> DEFINE Q == {n \in 0..N : c[n] = h[n]}
<1>12. 0 \in Q
  BY <1>1, <1>8, <1>11
<1>13. ASSUME NEW n \in 1..N, n - 1 \in Q PROVE n \in Q
  <2>1. c[n - 1] = h[n - 1] /\ n \in 0..N /\ n # 0
    BY <1>1, <1>13
  <2>2. QED BY <1>8, <1>11, <2>1
<1> HIDE DEF Q
<1>14. \A n \in 0..N : n \in Q
  BY <1>1, <1>12, <1>13, Upwards
<1>15. c[N] = h[N]
  BY <1>1, <1>14 DEF Q
<1>16. QED BY <1>2, <1>8, <1>15 DEF N, X

(* Likewise. *)
LEMMA MatchSteps ==
  ASSUME NEW S, NEW s \in Seq(S),
         NEW r,
         \A n \in 1..Len(s), x \in Nat : Matched(r, x, s[n]) \in Nat
  PROVE  \E h \in [0..Len(s) -> Nat] :
           /\ h[0] = 0
           /\ \A n \in 1..Len(s) : h[n] = Matched(r, h[n - 1], s[n])
           /\ Matching(r, s) = h[Len(s)]
<1> DEFINE N == Len(s)
           X == Nat
           G(h) == h = [n \in 0..N |-> IF n = 0 THEN 0 ELSE Matched(r, h[n - 1], s[n])]
           c == CHOOSE h : G(h)
           f == [n \in 1..N |-> [x \in X |-> Matched(r, x, s[n])]]
<1>1. N \in Nat
  OBVIOUS
<1>2. Matching(r, s) = c[N]
  BY Zenon DEF Matching, Matched, Fold
<1>3. 0 \in X
  BY DEF X
<1> HIDE DEF N, X
<1>4. \A n \in 1..N, x \in X : Matched(r, x, s[n]) \in X
  BY DEF N, X
<1>5. \A n \in 1..N, x \in X : f[n][x] = Matched(r, x, s[n])
  OBVIOUS
<1>6. f \in [1..N -> [X -> X]]
  BY <1>4
<1> HIDE DEF f
<1>7. PICK h \in [0..N -> X] : Steps(h, 0, f, N)
  BY <1>1, <1>3, <1>6, StepsExist
<1>8. h[0] = 0 /\ \A n \in 1..N : h[n] = Matched(r, h[n - 1], s[n])
  <2>1. h[0] = 0 /\ \A n \in 1..N : h[n] = f[n][h[n - 1]]
    BY <1>7 DEF Steps
  <2>2. \A n \in 1..N : h[n - 1] \in X
    BY <1>1, <1>7
  <2>3. QED BY <1>5, <2>1, <2>2
<1>9. G(h)
  <2> DEFINE e == [n \in 0..N |-> IF n = 0 THEN 0 ELSE Matched(r, h[n - 1], s[n])]
  <2>1. \A n \in 0..N : h[n] = e[n]
    <3>1. \A n \in 0..N : n = 0 \/ n \in 1..N
      BY <1>1
    <3>2. QED BY <1>8, <3>1
  <2>2. DOMAIN h = 0..N /\ h = [n \in 0..N |-> h[n]] /\ DOMAIN e = 0..N
    BY <1>7
  <2>3. QED BY <2>1, <2>2
<1>10. G(c)
  BY <1>9, Zenon
<1>11. \A n \in 0..N : c[n] = IF n = 0 THEN 0 ELSE Matched(r, c[n - 1], s[n])
  BY <1>10, Zenon
<1> HIDE DEF c, G
<1> DEFINE Q == {n \in 0..N : c[n] = h[n]}
<1>12. 0 \in Q
  BY <1>1, <1>8, <1>11
<1>13. ASSUME NEW n \in 1..N, n - 1 \in Q PROVE n \in Q
  <2>1. c[n - 1] = h[n - 1] /\ n \in 0..N /\ n # 0
    BY <1>1, <1>13
  <2>2. QED BY <1>8, <1>11, <2>1
<1> HIDE DEF Q
<1>14. \A n \in 0..N : n \in Q
  BY <1>1, <1>12, <1>13, Upwards
<1>15. c[N] = h[N]
  BY <1>1, <1>14 DEF Q
<1>16. QED BY <1>2, <1>8, <1>15 DEF N, X

(* Likewise. *)
LEMMA ReadSteps ==
  ASSUME NEW S, NEW s \in Seq(S),
         NEW sign,
         \A n \in 1..Len(s), x \in Int : 10 * x + sign * s[n] \in Int
  PROVE  \E h \in [0..Len(s) -> Int] :
           /\ h[0] = 0
           /\ \A n \in 1..Len(s) : h[n] = 10 * h[n - 1] + sign * s[n]
           /\ Value(sign, s) = h[Len(s)]
<1> DEFINE N == Len(s)
           X == Int
           G(h) == h = [n \in 0..N |-> IF n = 0 THEN 0 ELSE 10 * h[n - 1] + sign * s[n]]
           c == CHOOSE h : G(h)
           f == [n \in 1..N |-> [x \in X |-> 10 * x + sign * s[n]]]
<1>1. N \in Nat
  OBVIOUS
<1>2. Value(sign, s) = c[N]
  BY Zenon DEF Value, Fold
<1>3. 0 \in X
  BY DEF X
<1> HIDE DEF N, X
<1>4. \A n \in 1..N, x \in X : 10 * x + sign * s[n] \in X
  BY DEF N, X
<1>5. \A n \in 1..N, x \in X : f[n][x] = 10 * x + sign * s[n]
  OBVIOUS
<1>6. f \in [1..N -> [X -> X]]
  BY <1>4
<1> HIDE DEF f
<1>7. PICK h \in [0..N -> X] : Steps(h, 0, f, N)
  BY <1>1, <1>3, <1>6, StepsExist
<1>8. h[0] = 0 /\ \A n \in 1..N : h[n] = 10 * h[n - 1] + sign * s[n]
  <2>1. h[0] = 0 /\ \A n \in 1..N : h[n] = f[n][h[n - 1]]
    BY <1>7 DEF Steps
  <2>2. \A n \in 1..N : h[n - 1] \in X
    BY <1>1, <1>7
  <2>3. QED BY <1>5, <2>1, <2>2
<1>9. G(h)
  <2> DEFINE e == [n \in 0..N |-> IF n = 0 THEN 0 ELSE 10 * h[n - 1] + sign * s[n]]
  <2>1. \A n \in 0..N : h[n] = e[n]
    <3>1. \A n \in 0..N : n = 0 \/ n \in 1..N
      BY <1>1
    <3>2. QED BY <1>8, <3>1
  <2>2. DOMAIN h = 0..N /\ h = [n \in 0..N |-> h[n]] /\ DOMAIN e = 0..N
    BY <1>7
  <2>3. QED BY <2>1, <2>2
<1>10. G(c)
  BY <1>9, Zenon
<1>11. \A n \in 0..N : c[n] = IF n = 0 THEN 0 ELSE 10 * c[n - 1] + sign * s[n]
  BY <1>10, Zenon
<1> HIDE DEF c, G
<1> DEFINE Q == {n \in 0..N : c[n] = h[n]}
<1>12. 0 \in Q
  BY <1>1, <1>8, <1>11
<1>13. ASSUME NEW n \in 1..N, n - 1 \in Q PROVE n \in Q
  <2>1. c[n - 1] = h[n - 1] /\ n \in 0..N /\ n # 0
    BY <1>1, <1>13
  <2>2. QED BY <1>8, <1>11, <2>1
<1> HIDE DEF Q
<1>14. \A n \in 0..N : n \in Q
  BY <1>1, <1>12, <1>13, Upwards
<1>15. c[N] = h[N]
  BY <1>1, <1>14 DEF Q
<1>16. QED BY <1>2, <1>8, <1>15 DEF N, X

(* Likewise. *)
LEMMA StreamSteps ==
  ASSUME NEW S, NEW s \in Seq(S),
         \A n \in 1..Len(s), x \in Roomy : Stream(x, s[n]) \in Roomy
  PROVE  \E h \in [0..Len(s) -> Roomy] :
           /\ h[0] = EmptyBuffer
           /\ \A n \in 1..Len(s) : h[n] = Stream(h[n - 1], s[n])
           /\ Fold(Stream, EmptyBuffer, s) = h[Len(s)]
<1> DEFINE N == Len(s)
           X == Roomy
           G(h) == h = [n \in 0..N |-> IF n = 0 THEN EmptyBuffer ELSE Stream(h[n - 1], s[n])]
           c == CHOOSE h : G(h)
           f == [n \in 1..N |-> [x \in X |-> Stream(x, s[n])]]
<1>1. N \in Nat
  OBVIOUS
<1>2. Fold(Stream, EmptyBuffer, s) = c[N]
  BY Zenon DEF Fold
<1>3. EmptyBuffer \in X
  BY DEF X, Roomy, LineBuffer, EmptyBuffer, kSmallBufferSize
<1> HIDE DEF N, X
<1>4. \A n \in 1..N, x \in X : Stream(x, s[n]) \in X
  BY DEF N, X
<1>5. \A n \in 1..N, x \in X : f[n][x] = Stream(x, s[n])
  OBVIOUS
<1>6. f \in [1..N -> [X -> X]]
  BY <1>4
<1> HIDE DEF f
<1>7. PICK h \in [0..N -> X] : Steps(h, EmptyBuffer, f, N)
  BY <1>1, <1>3, <1>6, StepsExist
<1>8. h[0] = EmptyBuffer /\ \A n \in 1..N : h[n] = Stream(h[n - 1], s[n])
  <2>1. h[0] = EmptyBuffer /\ \A n \in 1..N : h[n] = f[n][h[n - 1]]
    BY <1>7 DEF Steps
  <2>2. \A n \in 1..N : h[n - 1] \in X
    BY <1>1, <1>7
  <2>3. QED BY <1>5, <2>1, <2>2
<1>9. G(h)
  <2> DEFINE e == [n \in 0..N |-> IF n = 0 THEN EmptyBuffer ELSE Stream(h[n - 1], s[n])]
  <2>1. \A n \in 0..N : h[n] = e[n]
    <3>1. \A n \in 0..N : n = 0 \/ n \in 1..N
      BY <1>1
    <3>2. QED BY <1>8, <3>1
  <2>2. DOMAIN h = 0..N /\ h = [n \in 0..N |-> h[n]] /\ DOMAIN e = 0..N
    BY <1>7
  <2>3. QED BY <2>1, <2>2
<1>10. G(c)
  BY <1>9, Zenon
<1>11. \A n \in 0..N : c[n] = IF n = 0 THEN EmptyBuffer ELSE Stream(c[n - 1], s[n])
  BY <1>10, Zenon
<1> HIDE DEF c, G
<1> DEFINE Q == {n \in 0..N : c[n] = h[n]}
<1>12. 0 \in Q
  BY <1>1, <1>8, <1>11
<1>13. ASSUME NEW n \in 1..N, n - 1 \in Q PROVE n \in Q
  <2>1. c[n - 1] = h[n - 1] /\ n \in 0..N /\ n # 0
    BY <1>1, <1>13
  <2>2. QED BY <1>8, <1>11, <2>1
<1> HIDE DEF Q
<1>14. \A n \in 0..N : n \in Q
  BY <1>1, <1>12, <1>13, Upwards
<1>15. c[N] = h[N]
  BY <1>1, <1>14 DEF Q
<1>16. QED BY <1>2, <1>8, <1>15 DEF N, X

(* Division by 10 keeps the sign, and the remainder is a digit with that sign. *)
LEMMA QuotientFacts ==
  ASSUME NEW num \in Int
  PROVE  /\ Quotient(num) \in Int
         /\ num >= 0 => Quotient(num) >= 0 /\ num - 10 * Quotient(num) \in 0..9
         /\ num <= 0 => Quotient(num) <= 0 /\ 10 * Quotient(num) - num \in 0..9
<1>1. /\ num \div 10 \in Int /\ num % 10 \in 0..9
      /\ num = 10 * (num \div 10) + (num % 10)
  OBVIOUS
<1> DEFINE q == num \div 10
           m == num % 10
<1>2. Quotient(num) = IF num < 0 /\ m # 0 THEN q + 1 ELSE q
  BY DEF Quotient
<1>3. q \in Int /\ m \in 0..9 /\ num = 10 * q + m
  BY <1>1
<1> HIDE DEF q, m
<1>4. QED BY <1>2, <1>3

LEMMA DividedSteps ==
  ASSUME NEW num \in Int
  PROVE  LET rest == Divided(num)
         IN  /\ rest \in [0..kMaxNumberSize -> Int]
             /\ rest[0] = num
             /\ \A n \in 1..kMaxNumberSize : rest[n] = Quotient(rest[n - 1])
<1> DEFINE N == kMaxNumberSize
           G(h) == h = [n \in 0..N |-> IF n = 0 THEN num ELSE Quotient(h[n - 1])]
           c == CHOOSE h : G(h)
           f == [n \in 1..N |-> [x \in Int |-> Quotient(x)]]
<1>1. N \in Nat
  BY DEF kMaxNumberSize
<1>2. Divided(num) = c
  BY Zenon DEF Divided
<1> HIDE DEF N
<1>3. \A n \in 1..N, x \in Int : f[n][x] = Quotient(x)
  OBVIOUS
<1>4. f \in [1..N -> [Int -> Int]]
  BY QuotientFacts
<1> HIDE DEF f
<1>5. PICK h \in [0..N -> Int] : Steps(h, num, f, N)
  BY <1>1, <1>4, StepsExist
<1>6. h[0] = num /\ \A n \in 1..N : h[n] = Quotient(h[n - 1])
  <2>1. h[0] = num /\ \A n \in 1..N : h[n] = f[n][h[n - 1]]
    BY <1>5 DEF Steps
  <2>2. \A n \in 1..N : h[n - 1] \in Int
    BY <1>1, <1>5
  <2>3. QED BY <1>3, <2>1, <2>2
<1>7. G(h)
  <2> DEFINE e == [n \in 0..N |-> IF n = 0 THEN num ELSE Quotient(h[n - 1])]
  <2>1. \A n \in 0..N : h[n] = e[n]
    <3>1. \A n \in 0..N : n = 0 \/ n \in 1..N
      BY <1>1
    <3>2. QED BY <1>6, <3>1
  <2>2. DOMAIN h = 0..N /\ h = [n \in 0..N |-> h[n]] /\ DOMAIN e = 0..N
    BY <1>5
  <2>3. QED BY <2>1, <2>2
<1>8. G(c)
  BY <1>7, Zenon
<1>9. /\ DOMAIN c = 0..N
      /\ \A n \in 0..N : c[n] = IF n = 0 THEN num ELSE Quotient(c[n - 1])
  BY <1>8, Zenon
<1>10. c = [n \in 0..N |-> c[n]]
  <2> DEFINE e == [n \in 0..N |-> IF n = 0 THEN num ELSE Quotient(c[n - 1])]
  <2>1. c = e
    BY <1>8, Zenon
  <2> HIDE DEF c, G
  <2>2. e = [n \in 0..N |-> e[n]]
    OBVIOUS
  <2> HIDE DEF e
  <2>3. QED BY <2>1, <2>2
<1> HIDE DEF c, G
<1> DEFINE Q == {n \in 0..N : c[n] \in Int}
<1>11. 0 \in Q
  BY <1>1, <1>9
<1>12. ASSUME NEW n \in 1..N, n - 1 \in Q PROVE n \in Q
  <2>1. c[n - 1] \in Int /\ n \in 0..N /\ n # 0
    BY <1>1, <1>12
  <2>2. QED BY <1>9, <2>1, QuotientFacts
<1> HIDE DEF Q
<1>13. \A n \in 0..N : n \in Q
  BY <1>1, <1>11, <1>12, Upwards
<1>14. c \in [0..N -> Int]
  BY <1>10, <1>13 DEF Q
<1>15. c[0] = num /\ \A n \in 1..N : c[n] = Quotient(c[n - 1])
  <2>1. 0 \in 0..N /\ \A n \in 1..N : n \in 0..N /\ n # 0
    BY <1>1
  <2>2. QED BY <1>9, <2>1
<1>16. QED BY <1>2, <1>14, <1>15 DEF N

(* All that is left of a number has its sign. *)
LEMMA DividedSign ==
  ASSUME NEW num \in Int
  PROVE  \A n \in 0..kMaxNumberSize :
           /\ num >= 0 => Divided(num)[n] >= 0
           /\ num <= 0 => Divided(num)[n] <= 0
<1> DEFINE rest == Divided(num)
           N == kMaxNumberSize
           Q == {n \in 0..N : (num >= 0 => rest[n] >= 0) /\ (num <= 0 => rest[n] <= 0)}
<1>1. /\ rest \in [0..N -> Int] /\ rest[0] = num
      /\ \A n \in 1..N : rest[n] = Quotient(rest[n - 1])
  BY DividedSteps
<1>2. N \in Nat
  BY DEF kMaxNumberSize
<1> HIDE DEF rest, N
<1>3. 0 \in Q
  BY <1>1, <1>2
<1>4. ASSUME NEW n \in 1..N, n - 1 \in Q PROVE n \in Q
  <2> DEFINE r == rest[n - 1]
  <2>1. /\ rest[n] = Quotient(r) /\ r \in Int
        /\ num >= 0 => r >= 0
        /\ num <= 0 => r <= 0
        /\ n \in 0..N
    BY <1>1, <1>2, <1>4
  <2> HIDE DEF r
  <2>2. /\ Quotient(r) \in Int
        /\ r >= 0 => Quotient(r) >= 0
        /\ r <= 0 => Quotient(r) <= 0
    BY <2>1, QuotientFacts
  <2>3. QED BY <2>1, <2>2
<1> HIDE DEF Q
<1>5. \A n \in 0..N : n \in Q
  BY <1>2, <1>3, <1>4, Upwards
<1>6. QED BY <1>5 DEF Q, rest, N

(* The table gives the digit of a remainder of either sign. *)
LEMMA ZeroFacts ==
  ASSUME NEW d \in 0..9
  PROVE  zero(d) = d /\ zero(-d) = d
<1>1. \A k \in 1..19 : digits[k] = IF k < 10 THEN 10 - k ELSE k - 10
  <2>1. \A k \in 1..19 : k \in {1, 2, 3, 4, 5, 6, 7, 8, 9, 10, 11, 12, 13, 14, 15, 16, 17, 18, 19}
    OBVIOUS
  <2>2. QED BY <2>1 DEF digits
<1>2. d + 10 \in 10..19 /\ -d + 10 \in 1..10
  OBVIOUS
<1> HIDE DEF digits
<1>3. QED BY <1>1, <1>2 DEF zero

(* What a division leaves and takes away. *)
LEMMA DigitTaken ==
  ASSUME NEW num \in Int, NEW n \in 1..kMaxNumberSize
  PROVE  LET rest == Divided(num)
             sign == IF num < 0 THEN -1 ELSE 1
         IN  /\ zero(Remainder(rest[n - 1])) \in 0..9
             /\ rest[n - 1] = 10 * rest[n] + sign * zero(Remainder(rest[n - 1]))
<1> DEFINE r == Divided(num)[n - 1]
           q == Divided(num)[n]
<1>1. r \in Int /\ q = Quotient(r)
  <2>1. LET rest == Divided(num)
        IN  /\ rest \in [0..kMaxNumberSize -> Int]
            /\ \A m \in 1..kMaxNumberSize : rest[m] = Quotient(rest[m - 1])
    BY DividedSteps
  <2>2. n - 1 \in 0..kMaxNumberSize
    BY DEF kMaxNumberSize
  <2>3. QED BY <2>1, <2>2
<1>2. (num >= 0 => r >= 0) /\ (num <= 0 => r <= 0)
  <2>1. n - 1 \in 0..kMaxNumberSize
    BY DEF kMaxNumberSize
  <2>2. QED BY <2>1, DividedSign
<1> HIDE DEF r, q
<1>3. Remainder(r) = r - 10 * q
  BY <1>1 DEF Remainder
<1>4. CASE num < 0
  <2>1. r <= 0
    BY <1>2, <1>4
  <2>2. q \in Int /\ 10 * q - r \in 0..9
    BY <1>1, <2>1, QuotientFacts
  <2>3. Remainder(r) = -(10 * q - r)
    <3>1. r - 10 * q = -(10 * q - r)
      BY <1>1, <2>2
    <3>2. QED BY <1>3, <3>1
  <2>4. zero(Remainder(r)) = 10 * q - r
    BY <2>2, <2>3, ZeroFacts
  <2>5. r = 10 * q + (-1) * zero(Remainder(r))
    BY <1>1, <2>2, <2>4
  <2>6. QED BY <1>4, <2>2, <2>4, <2>5 DEF r, q
<1>5. CASE ~(num < 0)
  <2>1. r >= 0
    BY <1>2, <1>5
  <2>2. q \in Int /\ r - 10 * q \in 0..9
    BY <1>1, <2>1, QuotientFacts
  <2>3. zero(Remainder(r)) = r - 10 * q
    BY <1>3, <2>2, ZeroFacts
  <2>4. r = 10 * q + 1 * zero(Remainder(r))
    BY <1>1, <2>2, <2>3
  <2>5. QED BY <1>5, <2>2, <2>3, <2>4 DEF r, q
<1>6. QED BY <1>4, <1>5

(* The digits of a number, the lowest first, until nothing is left of it. *)
LEMMA LowDigits ==
  ASSUME NEW num \in CInteger
  PROVE  \E len \in 1..20 :
           /\ LowDigitsFirst(num) \in [1..len -> 0..9]
           /\ Divided(num)[len] = 0
           /\ \A n \in 1..len :
                LowDigitsFirst(num)[n] = zero(Remainder(Divided(num)[n - 1]))
<1> DEFINE rest == Divided(num)
           C == {n \in 1..kMaxNumberSize : rest[n] = 0}
           len == Min(C)
<1>1. num \in Int /\ rest[20] = 0
  BY DEF CInteger
<1>2. \E n \in C : \A m \in C : n <= m
  <2>1. C \in SUBSET Nat /\ 20 \in C
    BY <1>1 DEF kMaxNumberSize
  <2> HIDE DEF C
  <2>2. QED BY <2>1, LeastNumber
<1>3. len \in C /\ len <= 20
  <2>1. 20 \in C
    BY <1>1 DEF kMaxNumberSize
  <2> HIDE DEF C
  <2>2. len \in C /\ \A m \in C : len <= m
    BY <1>2, Zenon DEF Min
  <2>3. QED BY <2>1, <2>2
<1>4. LowDigitsFirst(num) = [n \in 1..len |-> zero(Remainder(rest[n - 1]))]
  BY Zenon DEF LowDigitsFirst
<1>5. rest[len] = 0 /\ len \in 1..20 /\ \A n \in 1..len : n \in 1..kMaxNumberSize
  BY <1>3 DEF kMaxNumberSize
<1> HIDE DEF len, C
<1>6. \A n \in 1..len : zero(Remainder(rest[n - 1])) \in 0..9
  BY <1>1, <1>5, DigitTaken
<1> DEFINE e == [n \in 1..len |-> zero(Remainder(rest[n - 1]))]
<1>7. e \in [1..len -> 0..9] /\ \A n \in 1..len : e[n] = zero(Remainder(rest[n - 1]))
  BY <1>6
<1>8. QED BY <1>4, <1>5, <1>7, Zenon

(* What formatInteger writes of a number. *)
Digits(num) == [kind |-> "digits", negative |-> num < 0,
                digits |-> Reverse(LowDigitsFirst(num))]

LEMMA DigitsWritten ==
  ASSUME NEW num \in CInteger
  PROVE  \E len \in 1..20 :
           /\ Digits(num).digits \in Seq(0..9) /\ Len(Digits(num).digits) = len
           /\ Divided(num)[len] = 0
           /\ \A n \in 1..len :
                Digits(num).digits[n] = zero(Remainder(Divided(num)[len - n]))
<1> DEFINE low == LowDigitsFirst(num)
           high == Reverse(low)
<1>1. PICK len \in 1..20 :
        /\ low \in [1..len -> 0..9]
        /\ Divided(num)[len] = 0
        /\ \A n \in 1..len : low[n] = zero(Remainder(Divided(num)[n - 1]))
  BY LowDigits
<1>2. low \in Seq(0..9) /\ Len(low) = len
  <2> HIDE DEF low
  <2>1. low \in [1..len -> 0..9] /\ len \in Nat
    BY <1>1
  <2>2. QED BY <2>1
<1>3. high = [n \in 1..len |-> low[len - n + 1]]
  BY <1>2 DEF Reverse
<1> HIDE DEF low, high
<1>4. \A n \in 1..len : len - n + 1 \in 1..len /\ (len - n + 1) - 1 = len - n
  <2>1. len \in Nat
    BY <1>1
  <2>2. QED BY <2>1
<1>5. high \in [1..len -> 0..9] /\ \A n \in 1..len : high[n] = low[len - n + 1]
  BY <1>1, <1>3, <1>4
<1>6. high \in Seq(0..9) /\ Len(high) = len
  <2>1. high \in [1..len -> 0..9] /\ len \in Nat
    BY <1>1, <1>5
  <2>2. QED BY <2>1
<1>7. \A n \in 1..len : high[n] = zero(Remainder(Divided(num)[len - n]))
  <2> TAKE n \in 1..len
  <2>1. low[len - n + 1] = zero(Remainder(Divided(num)[(len - n + 1) - 1]))
    BY <1>1, <1>4
  <2>2. QED BY <1>4, <1>5, <2>1
<1>8. Digits(num).digits = high
  BY DEF Digits, high, low
<1>9. QED BY <1>1, <1>6, <1>7, <1>8

LEMMA NumberReadBack ==
  ASSUME NEW num \in CInteger
  PROVE  ReadBack(Digits(num)) = Number(num)
<1> DEFINE rest == Divided(num)
           N == kMaxNumberSize
           s == Digits(num).digits
           sign == IF Digits(num).negative THEN -1 ELSE 1
<1>1. PICK len \in 1..20 :
        /\ s \in Seq(0..9) /\ Len(s) = len /\ rest[len] = 0
        /\ \A n \in 1..len : s[n] = zero(Remainder(rest[len - n]))
  BY DigitsWritten
<1>2. num \in Int
  BY DEF CInteger
<1>3. /\ rest[0] = num /\ len \in Nat
      /\ \A n \in 1..len :
           rest[len - n] \in Int /\ rest[len - n] = 10 * rest[len - (n - 1)] + sign * s[n]
  <2>1. rest[0] = num
    BY <1>2, DividedSteps
  <2>2. ASSUME NEW n \in 1..len
        PROVE  rest[len - n] \in Int
               /\ rest[len - n] = 10 * rest[len - (n - 1)] + sign * s[n]
    <3>0. sign = IF num < 0 THEN -1 ELSE 1
      BY DEF Digits
    <3> DEFINE m == len - (n - 1)
    <3>1. m \in 1..N /\ m - 1 = len - n /\ m - 1 \in 0..N
      BY DEF kMaxNumberSize
    <3>2. rest[m - 1] = 10 * rest[m] + sign * zero(Remainder(rest[m - 1]))
      BY <1>2, <3>0, <3>1, DigitTaken
    <3>3. rest \in [0..N -> Int]
      BY <1>2, DividedSteps
    <3> HIDE DEF rest, sign, s, N
    <3>4. s[n] = zero(Remainder(rest[m - 1]))
      BY <1>1, <3>1
    <3>5. QED BY <3>1, <3>2, <3>3, <3>4
  <2>3. QED BY <2>1, <2>2
<1>4. sign \in Int
  OBVIOUS
<1>5. ReadBack(Digits(num)) = Number(Value(sign, s))
  BY Zenon DEF ReadBack, Value
<1> HIDE DEF rest, sign, s, N
<1>6. \A n \in 1..Len(s), x \in Int : 10 * x + sign * s[n] \in Int
  <2>1. \A n \in 1..Len(s) : s[n] \in Int
    BY <1>1
  <2>2. \A y, x \in Int : 10 * x + sign * y \in Int
    BY <1>4
  <2>3. QED BY <2>1, <2>2
<1>7. PICK h \in [0..Len(s) -> Int] :
        /\ h[0] = 0
        /\ \A n \in 1..Len(s) : h[n] = 10 * h[n - 1] + sign * s[n]
        /\ Value(sign, s) = h[Len(s)]
  <2>1. s \in Seq(0..9)
    BY <1>1
  <2>2. QED BY <1>6, <2>1, ReadSteps
<1> DEFINE Q == {n \in 0..len : h[n] = rest[len - n]}
<1>8. 0 \in Q
  BY <1>1, <1>3, <1>7
<1>9. ASSUME NEW n \in 1..len, n - 1 \in Q PROVE n \in Q
  <2>1. h[n - 1] = rest[len - (n - 1)] /\ n \in 0..len /\ n \in 1..Len(s)
    BY <1>1, <1>3, <1>9
  <2>2. h[n] = 10 * rest[len - (n - 1)] + sign * s[n]
    BY <1>7, <2>1
  <2>3. QED BY <1>3, <2>1, <2>2
<1> HIDE DEF Q
<1>10. \A n \in 0..len : n \in Q
  BY <1>3, <1>8, <1>9, Upwards
<1>11. h[len] = rest[len - len]
  BY <1>3, <1>10 DEF Q
<1>12. len - len = 0
  BY <1>3
<1>13. QED BY <1>1, <1>3, <1>5, <1>7, <1>11, <1>12

(* A piece is left out when there may be no room for it, or is written as
   something that reads as it. *)
LeftOut(b, p, d) == d = b /\ b.size + RoomFor(p) >= kSmallBufferSize
Written(b, p, d) ==
  \E w \in Item :
    /\ d.data = Append(b.data, w)
    /\ d.size = b.size + LengthOf(w) /\ LengthOf(w) \in Nat
    /\ LengthOf(w) <= RoomFor(p)
    /\ AsStreamed(w) = p /\ (p.kind # "number" => w = p)

LEMMA Added ==
  ASSUME NEW b \in Roomy, NEW w \in Item, NEW len \in Nat, b.size + len < kSmallBufferSize
  PROVE  /\ add(b, w, len) \in Roomy
         /\ add(b, w, len).data = Append(b.data, w)
         /\ add(b, w, len).size = b.size + len
<1>1. b.data \in Seq(Item) /\ b.size \in Nat
  BY DEF Roomy, LineBuffer
<1>2. Append(b.data, w) \in Seq(Item) /\ b.size + len \in Nat
  BY <1>1
<1> DEFINE e == Append(b.data, w)
<1> HIDE DEF e
<1>3. [data |-> e, size |-> b.size + len] \in Roomy
  BY <1>2 DEF Roomy, LineBuffer, e
<1>4. QED BY <1>3 DEF add, e

LEMMA StreamStep ==
  ASSUME NEW b \in Roomy, NEW p \in Piece
  PROVE  /\ Stream(b, p) \in Roomy
         /\ LeftOut(b, p, Stream(b, p)) \/ Written(b, p, Stream(b, p))
         /\ RoomFor(p) \in Nat
<1>1. b.size \in Nat /\ b.size < kSmallBufferSize /\ kSmallBufferSize = 4096
  BY DEF Roomy, LineBuffer, kSmallBufferSize
<1>2. CASE p \in Fixed
  <2>1. /\ p.kind # "number" /\ p.kind # "digits" /\ p.len \in Nat /\ p \in Item
    BY <1>2 DEF Fixed, Item
  <2>2. RoomFor(p) = p.len /\ LengthOf(p) = p.len /\ AsStreamed(p) = p
    BY <2>1 DEF RoomFor, LengthOf, AsStreamed
  <2>3. Stream(b, p) = IF 4096 - b.size > p.len THEN add(b, p, p.len) ELSE b
    BY <2>1, <1>1 DEF Stream, smallAppend, smallAvail
  <2>4. CASE 4096 - b.size > p.len
    <3>1. b.size + p.len < kSmallBufferSize
      BY <1>1, <2>1, <2>4
    <3>2. /\ add(b, p, p.len) \in Roomy
          /\ add(b, p, p.len).data = Append(b.data, p)
          /\ add(b, p, p.len).size = b.size + p.len
      BY <2>1, <3>1, Added
    <3>3. Written(b, p, add(b, p, p.len))
      BY <2>1, <2>2, <3>2 DEF Written
    <3>4. QED BY <2>1, <2>2, <2>3, <2>4, <3>2, <3>3
  <2>5. CASE ~(4096 - b.size > p.len)
    BY <1>1, <2>1, <2>2, <2>3, <2>5 DEF LeftOut
  <2>6. QED BY <2>4, <2>5
<1>3. CASE p \in [kind : {"number"}, value : CInteger]
  <2> DEFINE num == p.value
             w == Digits(num)
             len == Len(w.digits) + (IF num < 0 THEN 1 ELSE 0)
  <2>1. p.kind = "number" /\ num \in CInteger /\ p = Number(num)
    BY <1>3 DEF Number
  <2>2. /\ w.digits \in Seq(0..9) /\ Len(w.digits) \in 1..20
        /\ ReadBack(w) = Number(num)
    BY <2>1, DigitsWritten, NumberReadBack
  <2>3. w \in Numeral /\ w.kind = "digits" /\ w.negative = (num < 0)
    BY <2>2 DEF Digits, Numeral
  <2>4. len \in Nat /\ len <= 21
    <3>1. \A m \in 1..20, one \in {0, 1} : m + one \in Nat /\ m + one <= 21
      OBVIOUS
    <3>2. (IF num < 0 THEN 1 ELSE 0) \in {0, 1}
      OBVIOUS
    <3>3. QED BY <2>2, <3>1, <3>2, Zenon
  <2>5. LengthOf(w) = len /\ AsStreamed(w) = p /\ RoomFor(p) = 32 /\ w \in Item
    BY <2>1, <2>2, <2>3 DEF LengthOf, AsStreamed, RoomFor, kMaxNumberSize, Item
  <2>6. Stream(b, p) = IF 4096 - b.size >= 32 THEN add(b, w, len) ELSE b
    <3>1. Stream(b, p) = formatInteger(b, num)
      BY <2>1, Zenon DEF Stream
    <3>2. formatInteger(b, num)
            = IF smallAvail(b) >= kMaxNumberSize THEN add(b, w, len) ELSE b
      BY Zenon DEF formatInteger, Digits
    <3>3. smallAvail(b) = 4096 - b.size /\ kMaxNumberSize = 32
      BY <1>1 DEF smallAvail, kMaxNumberSize
    <3> HIDE DEF num, w, len
    <3>4. QED BY <3>1, <3>2, <3>3
  <2> HIDE DEF num, w, len
  <2>7. CASE 4096 - b.size >= 32
    <3>1. b.size + len < kSmallBufferSize
      BY <1>1, <2>4, <2>7
    <3>2. /\ add(b, w, len) \in Roomy
          /\ add(b, w, len).data = Append(b.data, w)
          /\ add(b, w, len).size = b.size + len
      BY <2>4, <2>5, <3>1, Added
    <3>3. Written(b, p, add(b, w, len))
      BY <2>1, <2>4, <2>5, <3>2 DEF Written
    <3>4. QED BY <2>5, <2>6, <2>7, <3>2, <3>3
  <2>8. CASE ~(4096 - b.size >= 32)
    <3>1. b.size + 32 >= kSmallBufferSize
      BY <1>1, <2>8
    <3>2. QED BY <2>5, <2>6, <2>8, <3>1 DEF LeftOut
  <2>9. QED BY <2>7, <2>8
<1>4. QED BY <1>2, <1>3 DEF Piece

(* How many pieces a line has, l, and how many bytes, z, after each piece that was
   streamed, when its data ends as D. *)
Streamed(all, D, l, z) ==
  /\ all \in Seq(Piece) /\ D \in Seq(Item)
  /\ l \in [0..Len(all) -> Nat] /\ z \in [0..Len(all) -> 0..kSmallBufferSize - 1]
  /\ l[0] = 0 /\ z[0] = 0 /\ l[Len(all)] = Len(D)
  /\ \A n \in 1..Len(all) :
       \/ /\ l[n] = l[n - 1] /\ z[n] = z[n - 1]
          /\ z[n] + RoomFor(all[n]) >= kSmallBufferSize
       \/ /\ l[n] = l[n - 1] + 1 /\ l[n] \in 1..Len(D)
          /\ z[n] = z[n - 1] + LengthOf(D[l[n]]) /\ LengthOf(D[l[n]]) <= RoomFor(all[n])
          /\ AsStreamed(D[l[n]]) = all[n]
          /\ all[n].kind # "number" => D[l[n]] = all[n]

BeginsWith(t, s) == Len(s) <= Len(t) /\ \A k \in 1..Len(s) : t[k] = s[k]

LEMMA BeginsAppend ==
  ASSUME NEW s \in Seq(Item), NEW w \in Item, NEW t \in Seq(Item),
         BeginsWith(t, Append(s, w))
  PROVE  BeginsWith(t, s) /\ Len(s) + 1 \in 1..Len(t) /\ t[Len(s) + 1] = w
<1> DEFINE a == Append(s, w)
<1>1. /\ Len(s) \in Nat /\ Len(t) \in Nat
      /\ Len(a) = Len(s) + 1 /\ a[Len(s) + 1] = w
      /\ \A k \in 1..Len(s) : a[k] = s[k]
  OBVIOUS
<1> HIDE DEF a
<1>2. Len(a) <= Len(t) /\ \A k \in 1..Len(a) : t[k] = a[k]
  BY DEF BeginsWith, a
<1>3. Len(s) + 1 \in 1..Len(t) /\ Len(s) <= Len(t) /\ Len(s) + 1 \in 1..Len(a)
  BY <1>1, <1>2
<1>4. \A k \in 1..Len(s) : k \in 1..Len(a)
  BY <1>1
<1>5. QED BY <1>1, <1>2, <1>3, <1>4 DEF BeginsWith

LEMMA FormattedSteps ==
  ASSUME NEW all \in Seq(Piece)
  PROVE  LET b == Fold(Stream, EmptyBuffer, all)
         IN  b \in Roomy /\ \E l, z : Streamed(all, b.data, l, z) /\ z[Len(all)] = b.size
<1> DEFINE N == Len(all)
<1>1. N \in Nat /\ \A n \in 1..N : all[n] \in Piece
  OBVIOUS
<1>2. \A n \in 1..N, x \in Roomy : Stream(x, all[n]) \in Roomy
  BY <1>1, StreamStep
<1>3. PICK B \in [0..N -> Roomy] :
        /\ B[0] = EmptyBuffer
        /\ \A n \in 1..N : B[n] = Stream(B[n - 1], all[n])
        /\ Fold(Stream, EmptyBuffer, all) = B[N]
  BY <1>2, StreamSteps
<1> HIDE DEF N
<1>4. \A n \in 1..N : /\ n - 1 \in 0..N /\ n \in 0..N
                      /\ B[n - 1] \in Roomy /\ B[n] \in Roomy
                      /\ RoomFor(all[n]) \in Nat
                      /\ LeftOut(B[n - 1], all[n], B[n]) \/ Written(B[n - 1], all[n], B[n])
  <2> TAKE n \in 1..N
  <2>1. n - 1 \in 0..N /\ n \in 0..N
    BY <1>1
  <2>2. B[n - 1] \in Roomy /\ B[n] = Stream(B[n - 1], all[n]) /\ all[n] \in Piece
    BY <1>1, <1>3, <2>1
  <2>3. QED BY <2>1, <2>2, StreamStep
<1>5. \A n \in 0..N : B[n].data \in Seq(Item) /\ B[n].size \in 0..kSmallBufferSize - 1
  <2>1. \A x \in Roomy : x.data \in Seq(Item) /\ x.size \in Nat /\ x.size < kSmallBufferSize
    BY DEF Roomy, LineBuffer
  <2>2. \A m \in Nat : m < kSmallBufferSize => m \in 0..kSmallBufferSize - 1
    BY DEF kSmallBufferSize
  <2>3. QED BY <1>3, <2>1, <2>2, Zenon
<1> DEFINE D == B[N].data
           l == [n \in 0..N |-> Len(B[n].data)]
           z == [n \in 0..N |-> B[n].size]
           Q == {j \in 0..N : BeginsWith(D, B[N - j].data)}
<1>6. \A j \in 0..N : j \in Q
  <2>1. 0 \in Q
    <3>1. N - 0 = N /\ N \in 0..N /\ 0 \in 0..N
      BY <1>1
    <3>2. Len(D) \in Nat
      BY <1>5, <3>1
    <3>3. BeginsWith(D, D)
      BY <3>2 DEF BeginsWith
    <3>4. QED BY <3>1, <3>3
  <2>2. ASSUME NEW j \in 1..N, j - 1 \in Q PROVE j \in Q
    <3> DEFINE n == N - (j - 1)
    <3>1. n \in 1..N /\ N - j = n - 1 /\ j \in 0..N /\ N \in 0..N
      BY <1>1
    <3>2. BeginsWith(D, B[n].data)
      BY <2>2
    <3> HIDE DEF n, D
    <3>3. CASE LeftOut(B[n - 1], all[n], B[n])
      BY <3>1, <3>2, <3>3 DEF LeftOut
    <3>4. CASE Written(B[n - 1], all[n], B[n])
      <4>1. PICK w \in Item : B[n].data = Append(B[n - 1].data, w)
        BY <3>4 DEF Written
      <4>2. B[n - 1].data \in Seq(Item) /\ D \in Seq(Item)
        BY <1>4, <1>5, <3>1 DEF D
      <4>3. BeginsWith(D, B[n - 1].data)
        BY <3>2, <4>1, <4>2, BeginsAppend
      <4>4. QED BY <3>1, <4>3
    <3>5. QED BY <1>4, <3>1, <3>3, <3>4
  <2> HIDE DEF Q
  <2>3. QED BY <1>1, <2>1, <2>2, Upwards
<1>7. \A n \in 0..N : BeginsWith(D, B[n].data)
  <2> TAKE n \in 0..N
  <2>1. N - n \in 0..N /\ N - (N - n) = n
    BY <1>1
  <2>2. BeginsWith(D, B[N - (N - n)].data)
    BY <1>6, <2>1
  <2>3. QED BY <2>1, <2>2
<1>8. /\ l \in [0..N -> Nat] /\ z \in [0..N -> 0..kSmallBufferSize - 1]
      /\ \A n \in 0..N : l[n] = Len(B[n].data) /\ z[n] = B[n].size
  BY <1>5
<1>9. /\ D \in Seq(Item) /\ l[N] = Len(D) /\ z[N] = B[N].size
      /\ l[0] = 0 /\ z[0] = 0
  <2>1. N \in 0..N /\ 0 \in 0..N
    BY <1>1
  <2>2. B[0].data = <<>> /\ B[0].size = 0
    BY <1>3 DEF EmptyBuffer
  <2>3. QED BY <1>5, <1>8, <2>1, <2>2
<1> HIDE DEF l, z, D, Q
<1>10. ASSUME NEW n \in 1..N
       PROVE  \/ /\ l[n] = l[n - 1] /\ z[n] = z[n - 1]
                 /\ z[n] + RoomFor(all[n]) >= kSmallBufferSize
              \/ /\ l[n] = l[n - 1] + 1 /\ l[n] \in 1..Len(D)
                 /\ z[n] = z[n - 1] + LengthOf(D[l[n]])
                 /\ LengthOf(D[l[n]]) <= RoomFor(all[n])
                 /\ AsStreamed(D[l[n]]) = all[n]
                 /\ all[n].kind # "number" => D[l[n]] = all[n]
  <2>1. CASE LeftOut(B[n - 1], all[n], B[n])
    BY <1>4, <1>8, <2>1 DEF LeftOut
  <2>2. CASE Written(B[n - 1], all[n], B[n])
    <3>1. PICK w \in Item :
            /\ B[n].data = Append(B[n - 1].data, w)
            /\ B[n].size = B[n - 1].size + LengthOf(w)
            /\ LengthOf(w) <= RoomFor(all[n])
            /\ AsStreamed(w) = all[n] /\ (all[n].kind # "number" => w = all[n])
      BY <2>2 DEF Written
    <3>2. B[n - 1].data \in Seq(Item) /\ BeginsWith(D, B[n].data)
      BY <1>4, <1>5, <1>7
    <3>3. /\ Len(B[n - 1].data) + 1 \in 1..Len(D) /\ D[Len(B[n - 1].data) + 1] = w
          /\ Len(B[n].data) = Len(B[n - 1].data) + 1
      BY <1>9, <3>1, <3>2, BeginsAppend
    <3>4. l[n] = l[n - 1] + 1 /\ l[n] \in 1..Len(D) /\ D[l[n]] = w
      BY <1>4, <1>8, <3>3
    <3>5. z[n] = z[n - 1] + LengthOf(D[l[n]])
      BY <1>4, <1>8, <3>1, <3>4
    <3>6. QED BY <3>1, <3>4, <3>5
  <2>3. QED BY <1>4, <2>1, <2>2
<1>11. Streamed(all, D, l, z)
  BY <1>8, <1>9, <1>10 DEF Streamed, N
<1>12. QED
  <2>1. Fold(Stream, EmptyBuffer, all) = B[N] /\ B[N] \in Roomy
    BY <1>1, <1>3
  <2>2. Streamed(all, B[N].data, l, z) /\ z[Len(all)] = B[N].size
    BY <1>9, <1>11 DEF D, N
  <2>3. QED BY <2>1, <2>2

LEMMA ItemLength ==
  ASSUME NEW w \in Item
  PROVE  LengthOf(w) \in Nat
<1>1. CASE w \in Fixed
  BY <1>1 DEF Fixed, LengthOf
<1>2. CASE w \in Numeral
  <2>1. w.kind = "digits" /\ w.digits \in Seq(0..9)
    BY <1>2 DEF Numeral
  <2>2. Len(w.digits) \in Nat
    BY <2>1
  <2>3. \A m \in Nat, one \in {0, 1} : m + one \in Nat
    OBVIOUS
  <2>4. (IF w.negative THEN 1 ELSE 0) \in {0, 1}
    OBVIOUS
  <2>5. LengthOf(w) = Len(w.digits) + (IF w.negative THEN 1 ELSE 0)
    BY <2>1 DEF LengthOf
  <2>6. QED BY <2>2, <2>3, <2>4, <2>5, Zenon
<1>3. QED BY <1>1, <1>2 DEF Item

(* The size of the buffer is that of what it holds. *)
LEMMA SizeIsBytes ==
  ASSUME NEW all, NEW D, NEW l, NEW z, Streamed(all, D, l, z)
  PROVE  z[Len(all)] = Bytes(D)
<1> DEFINE N == Len(all)
<1>1. N \in Nat /\ D \in Seq(Item) /\ Len(D) \in Nat
  BY DEF Streamed
<1>2. /\ l \in [0..N -> Nat] /\ z \in [0..N -> 0..kSmallBufferSize - 1]
      /\ l[0] = 0 /\ z[0] = 0 /\ l[N] = Len(D)
      /\ \A n \in 1..N : \/ l[n] = l[n - 1] /\ z[n] = z[n - 1]
                         \/ /\ l[n] = l[n - 1] + 1 /\ l[n] \in 1..Len(D)
                            /\ z[n] = z[n - 1] + LengthOf(D[l[n]])
  BY DEF Streamed
<1>3. \A k \in 1..Len(D), x \in Nat : x + LengthOf(D[k]) \in Nat
  <2>1. \A k \in 1..Len(D) : D[k] \in Item
    BY <1>1
  <2>2. \A k \in 1..Len(D) : LengthOf(D[k]) \in Nat
    BY <2>1, ItemLength
  <2>3. QED BY <2>2
<1>4. PICK h \in [0..Len(D) -> Nat] :
        /\ h[0] = 0
        /\ \A k \in 1..Len(D) : h[k] = h[k - 1] + LengthOf(D[k])
        /\ Bytes(D) = h[Len(D)]
  BY <1>1, <1>3, BytesSteps
<1> HIDE DEF N
<1> DEFINE Q == {n \in 0..N : z[n] = h[l[n]]}
<1>5. 0 \in Q
  BY <1>1, <1>2, <1>4
<1>6. ASSUME NEW n \in 1..N, n - 1 \in Q PROVE n \in Q
  <2>1. n \in 0..N /\ n - 1 \in 0..N /\ z[n - 1] = h[l[n - 1]] /\ l[n - 1] \in Nat
    BY <1>1, <1>2, <1>6
  <2>2. CASE l[n] = l[n - 1] /\ z[n] = z[n - 1]
    BY <2>1, <2>2
  <2>3. CASE /\ l[n] = l[n - 1] + 1 /\ l[n] \in 1..Len(D)
             /\ z[n] = z[n - 1] + LengthOf(D[l[n]])
    <3>1. l[n] - 1 = l[n - 1]
      BY <2>1, <2>3
    <3>2. h[l[n]] = h[l[n] - 1] + LengthOf(D[l[n]])
      BY <1>4, <2>3
    <3>3. QED BY <2>1, <2>3, <3>1, <3>2
  <2>4. QED BY <1>2, <2>2, <2>3
<1> HIDE DEF Q
<1>7. \A n \in 0..N : n \in Q
  BY <1>1, <1>5, <1>6, Upwards
<1>8. z[N] = h[l[N]]
  <2>1. N \in Q
    BY <1>1, <1>7
  <2>2. QED BY <2>1 DEF Q
<1>9. QED BY <1>2, <1>4, <1>8 DEF N

(* What is read of the line is matched in the statement, greedily. *)
LEMMA DataMatches ==
  ASSUME NEW all, NEW D, NEW l, NEW z, Streamed(all, D, l, z),
         NEW r, r = [k \in DOMAIN D |-> AsStreamed(D[k])]
  PROVE  Matching(r, all) = Len(r)
<1> DEFINE N == Len(all)
           M == Len(D)
<1>1. N \in Nat /\ M \in Nat /\ all \in Seq(Piece) /\ DOMAIN D = 1..M
  BY DEF Streamed
<1>2. Len(r) = M /\ \A k \in 1..M : r[k] = AsStreamed(D[k])
  BY <1>1
<1>3. /\ l \in [0..N -> Nat] /\ l[0] = 0 /\ l[N] = M
      /\ \A n \in 1..N : \/ l[n] = l[n - 1]
                         \/ l[n] = l[n - 1] + 1 /\ l[n] \in 1..M /\ r[l[n]] = all[n]
  BY <1>2 DEF Streamed
<1>4. \A n \in 1..N, x \in Nat : Matched(r, x, all[n]) \in Nat
  BY DEF Matched
<1>5. PICK h \in [0..N -> Nat] :
        /\ h[0] = 0
        /\ \A n \in 1..N : h[n] = Matched(r, h[n - 1], all[n])
        /\ Matching(r, all) = h[N]
  BY <1>1, <1>4, MatchSteps
<1> HIDE DEF N, M
<1> DEFINE Q == {n \in 0..N : l[n] <= h[n] /\ h[n] <= M}
<1>6. 0 \in Q
  BY <1>1, <1>3, <1>5
<1>7. ASSUME NEW n \in 1..N, n - 1 \in Q PROVE n \in Q
  <2> DEFINE x == h[n - 1]
             y == l[n - 1]
  <2>1. n \in 0..N /\ n - 1 \in 0..N /\ y <= x /\ x <= M /\ x \in Nat /\ y \in Nat
    BY <1>1, <1>3, <1>5, <1>7
  <2>2. h[n] = IF x < M /\ r[x + 1] = all[n] THEN x + 1 ELSE x
    BY <1>2, <1>5 DEF Matched
  <2>3. l[n] = y \/ (l[n] = y + 1 /\ l[n] \in 1..M /\ r[l[n]] = all[n])
    BY <1>3
  <2> HIDE DEF x, y
  <2>4. h[n] <= M
    BY <1>1, <2>1, <2>2
  <2>5. l[n] <= h[n]
    <3>1. CASE l[n] = y
      BY <2>1, <2>2, <3>1
    <3>2. CASE l[n] = y + 1 /\ l[n] \in 1..M /\ r[l[n]] = all[n]
      <4>1. CASE x = y
        BY <1>1, <2>1, <2>2, <3>2, <4>1
      <4>2. CASE x # y
        BY <2>1, <2>2, <3>2, <4>2
      <4>3. QED BY <4>1, <4>2
    <3>3. QED BY <2>3, <3>1, <3>2
  <2>6. QED BY <2>1, <2>4, <2>5
<1> HIDE DEF Q
<1>8. \A n \in 0..N : n \in Q
  BY <1>1, <1>6, <1>7, Upwards
<1>9. M <= h[N] /\ h[N] <= M
  <2>1. N \in Q
    BY <1>1, <1>8
  <2>2. QED BY <1>3, <2>1 DEF Q
<1>10. h[N] \in Nat
  BY <1>1, <1>5
<1>11. h[N] = M
  BY <1>1, <1>9, <1>10
<1>12. QED BY <1>2, <1>5, <1>11

(* Nothing is left out when there is room for all. *)
LEMMA RoomIsEnough ==
  ASSUME NEW all, NEW D, NEW l, NEW z, Streamed(all, D, l, z),
         NEW r, r = [k \in DOMAIN D |-> AsStreamed(D[k])],
         Room(all) < kSmallBufferSize
  PROVE  r = all
<1> DEFINE N == Len(all)
<1>1. N \in Nat /\ all \in Seq(Piece) /\ D \in Seq(Item) /\ DOMAIN D = 1..Len(D)
      /\ DOMAIN all = 1..N
  BY DEF Streamed
<1>2. \A n \in 1..N : RoomFor(all[n]) \in Nat
  <2> TAKE n \in 1..N
  <2>1. all[n] \in Piece
    BY <1>1
  <2> DEFINE p == all[n]
  <2> HIDE DEF p
  <2>2. p \in Piece => RoomFor(p) \in Nat
    BY DEF Piece, Fixed, RoomFor, kMaxNumberSize
  <2>3. QED BY <2>1, <2>2 DEF p
<1>3. PICK h \in [0..N -> Nat] :
        /\ h[0] = 0
        /\ \A n \in 1..N : h[n] = h[n - 1] + RoomFor(all[n])
        /\ Room(all) = h[N]
  <2>1. \A n \in 1..Len(all), x \in Nat : x + RoomFor(all[n]) \in Nat
    BY <1>2
  <2>2. QED BY <1>1, <2>1, RoomSteps
<1>4. /\ l \in [0..N -> Nat] /\ l[0] = 0 /\ l[N] = Len(D)
      /\ z \in [0..N -> 0..kSmallBufferSize - 1] /\ z[0] = 0
      /\ \A n \in 1..N :
           \/ /\ z[n] = z[n - 1]
              /\ z[n] + RoomFor(all[n]) >= kSmallBufferSize
           \/ /\ l[n] = l[n - 1] + 1 /\ l[n] \in 1..Len(D)
              /\ z[n] = z[n - 1] + LengthOf(D[l[n]]) /\ LengthOf(D[l[n]]) <= RoomFor(all[n])
              /\ AsStreamed(D[l[n]]) = all[n]
  BY DEF Streamed
<1>5. \A n \in 1..N : z[n] <= z[n - 1] + RoomFor(all[n]) /\ z[n - 1] \in Nat /\ z[n] \in Nat
  <2> TAKE n \in 1..N
  <2>1. n \in 0..N /\ n - 1 \in 0..N
    BY <1>1
  <2>2. z[n] \in Nat /\ z[n - 1] \in Nat
    <3>1. \A m \in 0..kSmallBufferSize - 1 : m \in Nat
      OBVIOUS
    <3>2. QED BY <1>4, <2>1, <3>1
  <2>3. CASE z[n] = z[n - 1]
    BY <1>2, <2>2, <2>3
  <2>4. CASE /\ z[n] = z[n - 1] + LengthOf(D[l[n]]) /\ LengthOf(D[l[n]]) <= RoomFor(all[n])
             /\ l[n] \in 1..Len(D)
    <3>1. LengthOf(D[l[n]]) \in Nat
      BY <1>1, <2>4, ItemLength
    <3>2. QED BY <1>2, <2>2, <2>4, <3>1
  <2>5. QED BY <1>4, <2>2, <2>3, <2>4
<1> HIDE DEF N
<1> DEFINE Q == {n \in 0..N : z[n] <= h[n]}
           U == {j \in 0..N : h[N - j] <= h[N]}
           V == {n \in 0..N : l[n] = n}
<1>6. \A n \in 0..N : n \in Q
  <2>1. 0 \in Q
    BY <1>1, <1>3, <1>4
  <2>2. ASSUME NEW n \in 1..N, n - 1 \in Q PROVE n \in Q
    <3>1. n \in 0..N /\ n - 1 \in 0..N /\ z[n - 1] <= h[n - 1]
      BY <1>1, <2>2
    <3>2. h[n] = h[n - 1] + RoomFor(all[n]) /\ h[n - 1] \in Nat
      BY <1>3, <3>1
    <3>3. z[n] <= h[n]
      BY <1>2, <1>5, <3>1, <3>2
    <3>4. QED BY <3>1, <3>3
  <2> HIDE DEF Q
  <2>3. QED BY <1>1, <2>1, <2>2, Upwards
<1>7. \A j \in 0..N : j \in U
  <2>1. 0 \in U
    <3>1. 0 \in 0..N /\ N - 0 = N /\ N \in 0..N
      BY <1>1
    <3>2. h[N] \in Nat
      BY <1>3, <3>1
    <3>3. QED BY <3>1, <3>2
  <2>2. ASSUME NEW j \in 1..N, j - 1 \in U PROVE j \in U
    <3> DEFINE n == N - (j - 1)
    <3>1. n \in 1..N /\ n \in 0..N /\ N - j = n - 1 /\ j \in 0..N /\ N \in 0..N /\ n - 1 \in 0..N
      BY <1>1
    <3>2. h[n] <= h[N]
      BY <2>2
    <3> HIDE DEF n
    <3>3. h[n] = h[n - 1] + RoomFor(all[n]) /\ h[n - 1] \in Nat /\ h[n] \in Nat /\ h[N] \in Nat
      BY <1>3, <3>1
    <3>4. h[n - 1] <= h[N]
      BY <1>2, <3>1, <3>2, <3>3
    <3>5. QED BY <3>1, <3>4
  <2> HIDE DEF U
  <2>3. QED BY <1>1, <2>1, <2>2, Upwards
<1>8. \A n \in 1..N : /\ l[n] = l[n - 1] + 1 /\ l[n] \in 1..Len(D)
                      /\ AsStreamed(D[l[n]]) = all[n]
  <2> TAKE n \in 1..N
  <2>1. n \in 0..N /\ n - 1 \in 0..N /\ N - n \in 0..N /\ N - (N - n) = n /\ N \in 0..N
    BY <1>1
  <2>2. z[n - 1] <= h[n - 1]
    BY <1>6, <2>1 DEF Q
  <2>3. h[N - (N - n)] <= h[N]
    BY <1>7, <2>1 DEF U
  <2>4. h[n] = h[n - 1] + RoomFor(all[n]) /\ h[n - 1] \in Nat /\ h[n] \in Nat /\ h[N] \in Nat
    BY <1>3, <2>1
  <2>5. h[N] < kSmallBufferSize
    BY <1>3
  <2>6. ~(z[n] = z[n - 1] /\ z[n] + RoomFor(all[n]) >= kSmallBufferSize)
    <3>1. \A a, c, d, e, f \in Nat :
            a <= c /\ d = c + e /\ d <= f /\ f < kSmallBufferSize
              => ~(a + e >= kSmallBufferSize)
      BY DEF kSmallBufferSize
    <3>2. RoomFor(all[n]) \in Nat /\ z[n - 1] \in Nat /\ h[n] <= h[N]
      BY <1>2, <1>5, <2>1, <2>3
    <3>3. ~(z[n - 1] + RoomFor(all[n]) >= kSmallBufferSize)
      BY <2>2, <2>4, <2>5, <3>1, <3>2, Zenon
    <3>4. QED BY <3>3, Zenon
  <2>7. QED BY <1>4, <2>6
<1>9. \A n \in 0..N : n \in V
  <2>1. 0 \in V
    BY <1>1, <1>4
  <2>2. ASSUME NEW n \in 1..N, n - 1 \in V PROVE n \in V
    <3>1. l[n - 1] = n - 1 /\ n \in 0..N
      BY <1>1, <2>2
    <3>2. l[n] = n
      BY <1>8, <3>1
    <3>3. QED BY <3>1, <3>2
  <2> HIDE DEF V
  <2>3. QED BY <1>1, <2>1, <2>2, Upwards
<1>10. Len(D) = N /\ \A n \in 1..N : AsStreamed(D[n]) = all[n]
  <2>1. \A n \in 0..N : l[n] = n
    BY <1>9 DEF V
  <2>2. N \in 0..N /\ \A n \in 1..N : n \in 0..N
    BY <1>1
  <2>3. QED BY <1>4, <1>8, <2>1, <2>2
<1>11. DOMAIN D = 1..N
  BY <1>1, <1>10
<1>12. all = [k \in 1..N |-> all[k]]
  BY <1>1 DEF N
<1>13. QED BY <1>10, <1>11, <1>12

(* A newline at the end is there, or it was the one byte too much. *)
LEMMA NewlineLast ==
  ASSUME NEW all, NEW D, NEW l, NEW z, Streamed(all, D, l, z),
         Len(all) >= 1, all[Len(all)] = Newline
  PROVE  Last(D) = Newline \/ z[Len(all)] = kSmallBufferSize - 1
<1> DEFINE N == Len(all)
<1>1. N \in 1..N /\ N \in Nat /\ N \in 0..N
  BY DEF Streamed
<1>2. Newline.kind # "number" /\ RoomFor(Newline) = 1
  BY DEF Newline, RoomFor
<1>3. l[N] = Len(D) /\ z[N] \in 0..kSmallBufferSize - 1
  BY <1>1 DEF Streamed
<1>4. \/ z[N] + RoomFor(all[N]) >= kSmallBufferSize
      \/ all[N].kind # "number" => D[l[N]] = all[N]
  BY <1>1 DEF Streamed
<1>5. CASE z[N] + RoomFor(all[N]) >= kSmallBufferSize
  <2>1. z[N] + 1 >= kSmallBufferSize
    BY <1>2, <1>5
  <2>2. \A m \in 0..kSmallBufferSize - 1 :
          m + 1 >= kSmallBufferSize => m = kSmallBufferSize - 1
    <3> DEFINE room == kSmallBufferSize
    <3>1. room \in Nat
      BY DEF kSmallBufferSize
    <3> HIDE DEF room
    <3>2. \A m \in 0..room - 1 : m + 1 >= room => m = room - 1
      BY <3>1
    <3>3. QED BY <3>2 DEF room
  <2>3. QED BY <1>3, <2>1, <2>2, Zenon
<1>6. CASE all[N].kind # "number" => D[l[N]] = all[N]
  BY <1>2, <1>3, <1>6 DEF Last
<1>7. QED BY <1>4, <1>5, <1>6

(* The line of any pieces that end with the newline is whole. *)
LEMMA LineIsWhole ==
  ASSUME NEW all \in Seq(Piece), Len(all) >= 1, all[Len(all)] = Newline
  PROVE  IsWhole(Fold(Stream, EmptyBuffer, all), all)
<1> DEFINE b == Fold(Stream, EmptyBuffer, all)
           D == b.data
           r == AsRead(b)
<1>1. b \in Roomy /\ \E l, z : Streamed(all, D, l, z) /\ z[Len(all)] = b.size
  BY FormattedSteps
<1> HIDE DEF b
<1>2. PICK l, z : Streamed(all, D, l, z) /\ z[Len(all)] = b.size
  BY <1>1
<1>3. r = [k \in DOMAIN D |-> AsStreamed(D[k])]
  BY DEF AsRead
<1>4. b.size = Bytes(b.data)
  BY <1>2, SizeIsBytes
<1>5. b.size < kSmallBufferSize
  BY <1>1 DEF Roomy
<1>6. Last(b.data) = Newline \/ b.size = kSmallBufferSize - 1
  <2>1. Last(D) = Newline \/ z[Len(all)] = kSmallBufferSize - 1
    BY <1>2, NewlineLast
  <2>2. QED BY <1>2, <2>1
<1> HIDE DEF r, D
<1>7. Matching(r, all) = Len(r)
  BY <1>2, <1>3, DataMatches
<1>8. Room(all) < kSmallBufferSize => r = all
  BY <1>2, <1>3, RoomIsEnough
<1>9. IsSubsequence(r, all)
  BY <1>7, Zenon DEF IsSubsequence, Matching
<1>10. QED BY <1>4, <1>5, <1>6, <1>8, <1>9, Zenon DEF IsWhole, b, r

(* A statement's pieces, the newline at their end. *)
LEMMA PiecesTypes ==
  ASSUME NEW s \in Statements
  PROVE  /\ Pieces(s) \in Seq(Piece)
         /\ Len(Pieces(s)) >= 1 /\ Pieces(s)[Len(Pieces(s))] = Newline
<1>1. /\ s.pieces \in Seq([kind : {"text"}, len : Nat]
                            \cup [kind : {"number"}, value : CInteger])
      /\ s.file \in Seq(Nat) /\ s.file # <<>> /\ s.line \in CInteger
  <2>1. s \in Statement /\ s.file # <<>>
    BY LoggerAssumption
  <2>2. QED BY <2>1 DEF Statement
<1>2. basename(s) \in Nat
  <2>1. Len(s.file) \in 1..Len(s.file)
    BY <1>1, EmptySeq
  <2>2. QED BY <1>1, <2>1, ElementOfSeq DEF basename
<1>3. \A len \in Nat : Text(len) \in Piece
  BY DEF Text, Piece, Fixed
<1>4. Number(s.line) \in Piece /\ Newline \in Piece
  BY <1>1 DEF Number, Newline, Piece, Fixed
<1>5. s.pieces \in Seq(Piece)
  <2>1. [kind : {"text"}, len : Nat] \cup [kind : {"number"}, value : CInteger] \subseteq Piece
    BY DEF Piece, Fixed
  <2>2. QED BY <1>1, <2>1, SeqMonotonic
<1>6. Prefix \in Seq(Piece)
  <2>1. Text(17) \in Piece /\ Text(7) \in Piece /\ Text(6) \in Piece
    BY <1>3
  <2>2. QED BY <2>1 DEF Prefix
<1>7. finish(s) \in Seq(Piece) /\ Len(finish(s)) = 5 /\ finish(s)[5] = Newline
  <2>1. Text(3) \in Piece /\ Text(basename(s)) \in Piece /\ Text(1) \in Piece
    BY <1>2, <1>3
  <2>2. QED BY <1>4, <2>1 DEF finish
<1> DEFINE a == Prefix \o s.pieces
           f == finish(s)
<1>8. a \in Seq(Piece) /\ Len(a) \in Nat
  BY <1>5, <1>6
<1>9. f \in Seq(Piece) /\ Len(f) = 5 /\ f[5] = Newline
  BY <1>7
<1> HIDE DEF a, f
<1>10. /\ a \o f \in Seq(Piece) /\ Len(a \o f) = Len(a) + 5 /\ (a \o f)[Len(a) + 5] = Newline
  <2>1. Len(a) + 5 \in 1..Len(a) + Len(f) /\ ~(Len(a) + 5 <= Len(a))
        /\ (Len(a) + 5) - Len(a) = 5
    BY <1>8, <1>9
  <2>2. /\ a \o f \in Seq(Piece) /\ Len(a \o f) = Len(a) + Len(f)
        /\ \A k \in 1..Len(a) + Len(f) :
             (a \o f)[k] = IF k <= Len(a) THEN a[k] ELSE f[k - Len(a)]
    BY <1>8, <1>9, ConcatProperties
  <2>3. (a \o f)[Len(a) + 5] = f[5]
    BY <2>1, <2>2, Zenon
  <2>4. QED BY <1>9, <2>2, <2>3
<1>11. Pieces(s) = a \o f
  BY DEF Pieces, a, f
<1>12. Len(a) + 5 >= 1
  BY <1>8
<1>13. QED BY <1>10, <1>11, <1>12, Zenon

(* However many pieces a statement streams, and whatever numbers, its line is inside
   its buffer and reads as the statement, apart from the pieces that found no room. *)
THEOREM LinesAlwaysWhole == LoggerSpec => []LinesWhole
<1>1. LogTypes => LinesWhole
  <2> SUFFICES ASSUME LogTypes, NEW k \in DOMAIN lines
               PROVE  IsWhole(lines[k].buffer, Pieces(lines[k].statement))
    BY DEF LogTypes, LinesWhole
  <2>1. lines[k] \in LogLine
    BY DEF LogTypes
  <2>2. PICK s \in Statements : lines[k] = [statement |-> s, buffer |-> Formatted(s)]
    BY <2>1 DEF LogLine
  <2>3. IsWhole(Fold(Stream, EmptyBuffer, Pieces(s)), Pieces(s))
    BY PiecesTypes, LineIsWhole
  <2>4. Formatted(s) = Fold(Stream, EmptyBuffer, Pieces(s))
    BY Zenon DEF Formatted
  <2>5. QED BY <2>2, <2>3, <2>4
<1>2. QED BY <1>1, LogInductive, PTL
=============================================================================

---------------------------- MODULE BufferProofs ----------------------------
(* Proofs about Buffer for any sizes and any bytes. *)
EXTENDS Buffer, SequenceTheorems, TLAPS

-----------------------------------------------------------------------------
(* Copies and resizes *)

(* std::copy inside the vector changes the target range and nothing else. *)
LEMMA CopyToResult ==
  ASSUME NEW mem \in Seq(Byte), NEW at \in Nat, NEW data \in Seq(Byte),
         at + Len(data) <= Len(mem)
  PROVE  /\ CopyTo(mem, at, data) \in Seq(Byte)
         /\ Len(CopyTo(mem, at, data)) = Len(mem)
         /\ \A i \in 1..Len(mem) :
              CopyTo(mem, at, data)[i] =
                IF at < i /\ i <= at + Len(data) THEN data[i - at] ELSE mem[i]
<1> DEFINE c == CopyTo(mem, at, data)
<1>1. \A i \in 1..Len(mem) :
        (IF at < i /\ i <= at + Len(data) THEN data[i - at] ELSE mem[i]) \in Byte
  <2> TAKE i \in 1..Len(mem)
  <2>1. mem[i] \in Byte
    BY ElementOfSeq
  <2>2. at < i /\ i <= at + Len(data) => data[i - at] \in Byte
    BY LenProperties
  <2>3. QED BY <2>1, <2>2
<1>2. c \in [1..Len(mem) -> Byte]
  BY <1>1 DEF CopyTo
<1>3. c \in Seq(Byte)
  BY <1>2, LenProperties, SeqDef, SMTT(30)
<1>4. Len(c) = Len(mem)
  BY <1>2, <1>3, LenProperties
<1>5. QED BY <1>3, <1>4 DEF CopyTo

(* vector::resize to a larger size keeps the old elements. *)
LEMMA ResizeResult ==
  ASSUME NEW mem \in Seq(Byte), NEW size \in Nat, Len(mem) <= size
  PROVE  /\ Resize(mem, size) \in Seq(Byte)
         /\ Len(Resize(mem, size)) = size
         /\ \A i \in 1..Len(mem) : Resize(mem, size)[i] = mem[i]
<1> DEFINE c == Resize(mem, size)
<1>1. \A i \in 1..size : (IF i <= Len(mem) THEN mem[i] ELSE Zero) \in Byte
  BY ElementOfSeq, BufferAssumption
<1>2. c \in [1..size -> Byte]
  BY <1>1 DEF Resize
<1>3. c \in Seq(Byte)
  BY <1>2, SeqDef
<1>4. Len(c) = size
  BY <1>2, <1>3, LenProperties
<1>5. \A i \in 1..Len(mem) : c[i] = mem[i]
  BY LenProperties DEF Resize
<1>6. QED BY <1>3, <1>4, <1>5

(* A piece of a vector, byte by byte. *)
LEMMA Piece ==
  ASSUME NEW mem \in Seq(Byte), NEW r \in Nat, NEW w \in Nat,
         r <= w, w <= Len(mem)
  PROVE  /\ SubSeq(mem, r + 1, w) \in Seq(Byte)
         /\ Len(SubSeq(mem, r + 1, w)) = w - r
         /\ \A i \in 1..(w - r) : SubSeq(mem, r + 1, w)[i] = mem[r + i]
<1>1. \A i \in (r + 1)..w : mem[i] \in Byte
  BY ElementOfSeq
<1>2. /\ SubSeq(mem, r + 1, w) \in Seq(Byte)
      /\ Len(SubSeq(mem, r + 1, w)) = IF r + 1 <= w THEN w - (r + 1) + 1 ELSE 0
      /\ \A i \in 1..(w - (r + 1) + 1) :
           SubSeq(mem, r + 1, w)[i] = mem[(r + 1) + i - 1]
  BY <1>1, SubSeqProperties
<1>3. QED BY <1>2

(* Data copied right behind a piece extends it. *)
LEMMA PieceExtended ==
  ASSUME NEW mem \in Seq(Byte), NEW r \in Nat, NEW w \in Nat,
         NEW data \in Seq(Byte), r <= w, w + Len(data) <= Len(mem)
  PROVE  SubSeq(CopyTo(mem, w, data), r + 1, w + Len(data))
           = SubSeq(mem, r + 1, w) \o data
<1> DEFINE m == CopyTo(mem, w, data)
           s == SubSeq(mem, r + 1, w)
           t == SubSeq(m, r + 1, w + Len(data))
           n == Len(data)
<1>0. n \in Nat /\ Len(mem) \in Nat
  BY LenProperties
<1>1. /\ m \in Seq(Byte) /\ Len(m) = Len(mem)
      /\ \A i \in 1..Len(mem) :
           m[i] = IF w < i /\ i <= w + n THEN data[i - w] ELSE mem[i]
  <2> HIDE DEF m
  <2>1. QED BY CopyToResult DEF m
<1> HIDE DEF m, n
<1>2. /\ s \in Seq(Byte) /\ Len(s) = w - r
      /\ \A i \in 1..(w - r) : s[i] = mem[r + i]
  BY <1>0, Piece DEF n
<1>3. /\ t \in Seq(Byte) /\ Len(t) = (w + n) - r
      /\ \A i \in 1..((w + n) - r) : t[i] = m[r + i]
  BY <1>0, <1>1, Piece, SMTT(30) DEF n
<1>4. /\ s \o data \in Seq(Byte) /\ Len(s \o data) = Len(s) + n
      /\ \A i \in 1..(Len(s) + n) :
           (s \o data)[i] = IF i <= Len(s) THEN s[i] ELSE data[i - Len(s)]
  BY <1>2, ConcatProperties DEF n
<1> HIDE DEF s, t
<1>5. ASSUME NEW i \in 1..Len(t) PROVE t[i] = (s \o data)[i]
  <2>1. r + i \in 1..Len(mem) /\ i \in 1..(Len(s) + n) /\ i \in 1..((w + n) - r)
    BY <1>0, <1>2, <1>3 DEF n
  <2>2. CASE i <= w - r
    BY <1>0, <1>1, <1>2, <1>3, <1>4, <2>1, <2>2
  <2>3. CASE ~(i <= w - r)
    <3>1. w < r + i /\ r + i <= w + n /\ (r + i) - w = i - Len(s)
      BY <1>0, <1>2, <2>1, <2>3
    <3>2. t[i] = data[(r + i) - w]
      BY <1>1, <1>3, <2>1, <3>1
    <3>3. (s \o data)[i] = data[i - Len(s)]
      BY <1>2, <1>4, <2>1, <2>3
    <3>4. QED BY <3>1, <3>2, <3>3
  <2>4. QED BY <2>2, <2>3
<1>6. Len(t) = Len(s \o data)
  BY <1>0, <1>2, <1>3, <1>4
<1>7. t = s \o data
  BY <1>3, <1>4, <1>5, <1>6, SeqEqual
<1>8. QED BY <1>7 DEF s, t, m, n

(* A piece moved down, or kept while the vector grows, is the same piece. *)
LEMMA PieceMoved ==
  ASSUME NEW mem \in Seq(Byte), NEW r \in Nat, NEW w \in Nat, NEW to \in Nat,
         to <= r, r <= w, w <= Len(mem)
  PROVE  SubSeq(CopyTo(mem, to, SubSeq(mem, r + 1, w)), to + 1, to + (w - r))
           = SubSeq(mem, r + 1, w)
<1> DEFINE s == SubSeq(mem, r + 1, w)
           m == CopyTo(mem, to, s)
           t == SubSeq(m, to + 1, to + (w - r))
<1>1. /\ s \in Seq(Byte) /\ Len(s) = w - r
  BY Piece
<1> HIDE DEF s
<1>2. /\ m \in Seq(Byte) /\ Len(m) = Len(mem)
      /\ \A i \in 1..Len(mem) :
           m[i] = IF to < i /\ i <= to + (w - r) THEN s[i - to] ELSE mem[i]
  <2> HIDE DEF m
  <2>1. to + Len(s) <= Len(mem)
    BY <1>1, LenProperties
  <2>2. QED BY <1>1, <2>1, CopyToResult, SMTT(30) DEF m
<1> HIDE DEF m
<1>3. /\ t \in Seq(Byte) /\ Len(t) = w - r
      /\ \A i \in 1..(w - r) : t[i] = m[to + i]
  <2>1. to + (w - r) \in Nat /\ to <= to + (w - r) /\ to + (w - r) <= Len(m)
        /\ (to + (w - r)) - to = w - r
    BY <1>2, LenProperties
  <2>2. QED BY <1>2, <2>1, Piece
<1> HIDE DEF t
<1>4. ASSUME NEW i \in 1..Len(t) PROVE t[i] = s[i]
  <2>1. i \in 1..(w - r) /\ to + i \in 1..Len(mem) /\ (to + i) - to = i
        /\ to < to + i /\ to + i <= to + (w - r)
    BY <1>3, LenProperties
  <2>2. QED BY <1>2, <1>3, <2>1
<1>5. t = s
  BY <1>1, <1>3, <1>4, SeqEqual
<1>6. QED BY <1>5 DEF t, m, s

(* A piece of a vector that grows is unchanged. *)
LEMMA PieceResized ==
  ASSUME NEW mem \in Seq(Byte), NEW r \in Nat, NEW w \in Nat, NEW size \in Nat,
         r <= w, w <= Len(mem), Len(mem) <= size
  PROVE  SubSeq(Resize(mem, size), r + 1, w) = SubSeq(mem, r + 1, w)
<1> DEFINE m == Resize(mem, size)
           s == SubSeq(mem, r + 1, w)
           t == SubSeq(m, r + 1, w)
<1>0. Len(mem) \in Nat
  BY LenProperties
<1>1. /\ m \in Seq(Byte) /\ Len(m) = size
      /\ \A i \in 1..Len(mem) : m[i] = mem[i]
  <2> HIDE DEF m
  <2>1. QED BY ResizeResult DEF m
<1> HIDE DEF m
<1>2. /\ s \in Seq(Byte) /\ Len(s) = w - r
      /\ \A i \in 1..(w - r) : s[i] = mem[r + i]
  BY Piece
<1>3. /\ t \in Seq(Byte) /\ Len(t) = w - r
      /\ \A i \in 1..(w - r) : t[i] = m[r + i]
  <2>1. w <= Len(m)
    BY <1>0, <1>1
  <2>2. QED BY <1>1, <2>1, Piece
<1> HIDE DEF s, t
<1>4. ASSUME NEW i \in 1..Len(t) PROVE t[i] = s[i]
  <2>1. i \in 1..(w - r) /\ r + i \in 1..Len(mem)
    BY <1>0, <1>3
  <2>2. QED BY <1>1, <1>2, <1>3, <2>1
<1>5. t = s
  BY <1>2, <1>3, <1>4, SeqEqual
<1>6. QED BY <1>5 DEF t, m, s

-----------------------------------------------------------------------------
(* The operations *)

(* What IsBuffer says of the fields. *)
LEMMA Fields ==
  ASSUME NEW b, IsBuffer(b)
  PROVE  /\ b.mem \in Seq(Byte) /\ b.r \in Nat /\ b.w \in Nat /\ Len(b.mem) \in Nat
         /\ kCheapPrepend \in Nat /\ kCheapPrepend <= b.r
         /\ b.r <= b.w /\ b.w <= Len(b.mem)
         /\ Readable(b) \in Seq(Byte) /\ Len(Readable(b)) = b.w - b.r
<1>1. /\ b.mem \in Seq(Byte) /\ b.r \in Nat /\ b.w \in Nat
      /\ kCheapPrepend \in Nat /\ kCheapPrepend <= b.r
      /\ b.r <= b.w /\ b.w <= Len(b.mem)
  BY BufferAssumption DEF IsBuffer
<1>2. Len(b.mem) \in Nat
  BY <1>1, LenProperties
<1>3. Readable(b) \in Seq(Byte) /\ Len(Readable(b)) = b.w - b.r
  BY <1>1, Piece DEF Readable
<1>4. QED BY <1>1, <1>2, <1>3

(* A record with ordered indices is a buffer. *)
LEMMA MakeBuffer ==
  ASSUME NEW mem \in Seq(Byte), NEW r \in Nat, NEW w \in Nat,
         kCheapPrepend <= r, r <= w, w <= Len(mem)
  PROVE  IsBuffer([mem |-> mem, r |-> r, w |-> w])
BY DEF IsBuffer

(* Data that fits joins the end of the readable bytes. *)
LEMMA FilledResult ==
  ASSUME NEW b, IsBuffer(b), NEW data \in Seq(Byte),
         Len(data) <= writableBytes(b)
  PROVE  /\ IsBuffer(Filled(b, data))
         /\ Readable(Filled(b, data)) = Readable(b) \o data
         /\ Len(Filled(b, data).mem) = Len(b.mem)
         /\ Filled(b, data).w = b.w + Len(data)
<1>1. Len(data) \in Nat /\ b.w + Len(data) <= Len(b.mem)
  BY Fields, LenProperties DEF writableBytes
<1>2. /\ CopyTo(b.mem, b.w, data) \in Seq(Byte)
      /\ Len(CopyTo(b.mem, b.w, data)) = Len(b.mem)
  BY <1>1, Fields, CopyToResult
<1>3. IsBuffer(Filled(b, data))
  <2>1. /\ b.w + Len(data) \in Nat /\ b.r <= b.w + Len(data)
        /\ b.w + Len(data) <= Len(CopyTo(b.mem, b.w, data))
    BY <1>1, <1>2, Fields
  <2>2. QED BY <1>2, <2>1, Fields, MakeBuffer DEF Filled
<1>4. Readable(Filled(b, data)) = Readable(b) \o data
  <2>1. /\ b.mem \in Seq(Byte) /\ b.r \in Nat /\ b.w \in Nat /\ b.r <= b.w
    BY Fields
  <2>2. SubSeq(CopyTo(b.mem, b.w, data), b.r + 1, b.w + Len(data))
          = SubSeq(b.mem, b.r + 1, b.w) \o data
    BY <1>1, <2>1, PieceExtended
  <2>3. QED BY <2>2 DEF Readable, Filled
<1>5. QED BY <1>2, <1>3, <1>4 DEF Filled

(* ensureWritableBytes makes room, by moving or growing, and changes no
   readable byte. *)
LEMMA EnsureResult ==
  ASSUME NEW b, IsBuffer(b), NEW len \in Nat
  PROVE  /\ IsBuffer(ensureWritableBytes(b, len))
         /\ Readable(ensureWritableBytes(b, len)) = Readable(b)
         /\ len <= writableBytes(ensureWritableBytes(b, len))
         /\ Len(ensureWritableBytes(b, len).mem) > Len(b.mem) =>
              Len(b.mem) < kCheapPrepend + readableBytes(b) + len
<1> DEFINE e == ensureWritableBytes(b, len)
<1>1. CASE ~(writableBytes(b) < len)
  <2>1. e = b
    BY <1>1 DEF ensureWritableBytes
  <2>2. len <= writableBytes(b)
    BY <1>1, Fields DEF writableBytes
  <2>3. QED BY <2>1, <2>2, Fields
<1>2. CASE writableBytes(b) < len /\ FitsAfterMove(b, len)
  <2>1. e = MoveDown(b)
    BY <1>2 DEF ensureWritableBytes, makeSpace
  <2>2. kCheapPrepend + Len(Readable(b)) <= Len(b.mem)
    BY Fields
  <2>3. /\ CopyTo(b.mem, kCheapPrepend, Readable(b)) \in Seq(Byte)
        /\ Len(CopyTo(b.mem, kCheapPrepend, Readable(b))) = Len(b.mem)
    BY <2>2, Fields, CopyToResult
  <2> DEFINE w == kCheapPrepend + (b.w - b.r)
  <2>a. e = [mem |-> CopyTo(b.mem, kCheapPrepend, Readable(b)),
             r |-> kCheapPrepend, w |-> w]
    BY <2>1 DEF MoveDown, readableBytes
  <2>4. IsBuffer(e)
    <3>1. /\ w \in Nat /\ kCheapPrepend <= w /\ kCheapPrepend <= kCheapPrepend
          /\ w <= Len(CopyTo(b.mem, kCheapPrepend, Readable(b)))
      BY <2>2, <2>3, Fields
    <3> HIDE DEF w, e
    <3>2. QED BY <2>3, <2>a, <3>1, Fields, MakeBuffer
  <2>5. Readable(e) = Readable(b)
    <3>1. SubSeq(CopyTo(b.mem, kCheapPrepend, SubSeq(b.mem, b.r + 1, b.w)),
                 kCheapPrepend + 1, kCheapPrepend + (b.w - b.r))
            = SubSeq(b.mem, b.r + 1, b.w)
      <4>1. /\ b.mem \in Seq(Byte) /\ b.r \in Nat /\ b.w \in Nat
            /\ kCheapPrepend \in Nat /\ kCheapPrepend <= b.r
            /\ b.r <= b.w /\ b.w <= Len(b.mem)
        BY Fields
      <4>2. QED BY <4>1, PieceMoved, ZenonT(30)
    <3> HIDE DEF e
    <3>2. Readable(e) = SubSeq(CopyTo(b.mem, kCheapPrepend, Readable(b)),
                               kCheapPrepend + 1, kCheapPrepend + (b.w - b.r))
      BY <2>a DEF Readable
    <3>3. QED BY <3>1, <3>2 DEF Readable
  <2>6. len <= writableBytes(e)
    <3>1. (Len(b.mem) - b.w) + b.r >= len + kCheapPrepend
      BY <1>2 DEF FitsAfterMove, writableBytes, prependableBytes
    <3> HIDE DEF e
    <3>2. writableBytes(e) = Len(b.mem) - w
      BY <2>a, <2>3 DEF writableBytes
    <3>3. QED BY <3>1, <3>2, Fields, SMTT(30)
  <2>7. Len(e.mem) = Len(b.mem)
    BY <2>1, <2>3 DEF MoveDown
  <2>8. QED BY <2>4, <2>5, <2>6, <2>7, Fields
<1>3. CASE writableBytes(b) < len /\ ~FitsAfterMove(b, len)
  <2>1. e = [mem |-> Resize(b.mem, b.w + len), r |-> b.r, w |-> b.w]
    BY <1>3 DEF ensureWritableBytes, makeSpace
  <2>2. b.w + len \in Nat /\ Len(b.mem) <= b.w + len
    BY <1>3, Fields DEF writableBytes
  <2>3. /\ Resize(b.mem, b.w + len) \in Seq(Byte)
        /\ Len(Resize(b.mem, b.w + len)) = b.w + len
    BY <2>2, Fields, ResizeResult
  <2>4. IsBuffer(e)
    <3>1. b.w <= Len(Resize(b.mem, b.w + len))
      BY <2>2, <2>3, Fields
    <3> HIDE DEF e
    <3>2. QED BY <2>1, <2>3, <3>1, Fields, MakeBuffer
  <2>5. Readable(e) = Readable(b)
    <3>1. /\ b.mem \in Seq(Byte) /\ b.r \in Nat /\ b.w \in Nat
          /\ b.r <= b.w /\ b.w <= Len(b.mem)
      BY Fields
    <3>2. SubSeq(Resize(b.mem, b.w + len), b.r + 1, b.w)
            = SubSeq(b.mem, b.r + 1, b.w)
      BY <2>2, <3>1, PieceResized, ZenonT(30)
    <3> HIDE DEF e
    <3>3. QED BY <2>1, <3>2 DEF Readable
  <2>6. len <= writableBytes(e)
    BY <2>1, <2>3, Fields DEF writableBytes
  <2>7. Len(b.mem) < kCheapPrepend + readableBytes(b) + len
    BY <1>3, Fields, SMTT(30)
       DEF FitsAfterMove, writableBytes, readableBytes, prependableBytes
  <2>8. QED BY <2>4, <2>5, <2>6, <2>7
<1>4. QED BY <1>1, <1>2, <1>3

(* append adds exactly its data, and grows the vector only if it must. *)
LEMMA AppendedResult ==
  ASSUME NEW b, IsBuffer(b), NEW data \in Seq(Byte)
  PROVE  /\ IsBuffer(Appended(b, data))
         /\ Readable(Appended(b, data)) = Readable(b) \o data
         /\ Len(Appended(b, data).mem) > Len(b.mem) =>
              Len(b.mem) < kCheapPrepend + readableBytes(b) + Len(data)
<1> DEFINE e == ensureWritableBytes(b, Len(data))
<1>1. Len(data) \in Nat
  BY LenProperties
<1>2. /\ IsBuffer(e) /\ Readable(e) = Readable(b) /\ Len(data) <= writableBytes(e)
      /\ Len(e.mem) > Len(b.mem) =>
           Len(b.mem) < kCheapPrepend + readableBytes(b) + Len(data)
  BY <1>1, EnsureResult
<1> HIDE DEF e
<1>3. /\ IsBuffer(Filled(e, data))
      /\ Readable(Filled(e, data)) = Readable(e) \o data
      /\ Len(Filled(e, data).mem) = Len(e.mem)
  BY <1>2, FilledResult
<1>4. Appended(b, data) = Filled(e, data)
  BY DEF Appended, e
<1>5. QED BY <1>2, <1>3, <1>4

(* A concatenation, byte by byte. *)
LEMMA Concat ==
  ASSUME NEW s \in Seq(Byte), NEW t \in Seq(Byte)
  PROVE  /\ s \o t \in Seq(Byte)
         /\ Len(s \o t) = Len(s) + Len(t)
         /\ \A i \in 1..Len(s) : (s \o t)[i] = s[i]
         /\ \A i \in (Len(s) + 1)..(Len(s) + Len(t)) : (s \o t)[i] = t[i - Len(s)]
<1>1. Len(s) \in Nat /\ Len(t) \in Nat
  BY LenProperties
<1>2. /\ s \o t \in Seq(Byte) /\ Len(s \o t) = Len(s) + Len(t)
      /\ \A i \in 1..(Len(s) + Len(t)) :
           (s \o t)[i] = IF i <= Len(s) THEN s[i] ELSE t[i - Len(s)]
  BY ConcatProperties
<1>3. QED BY <1>1, <1>2

(* Concatenation of byte strings is associative. *)
LEMMA Assoc ==
  ASSUME NEW s \in Seq(Byte), NEW t \in Seq(Byte), NEW u \in Seq(Byte)
  PROVE  (s \o t) \o u = s \o (t \o u)
<1> DEFINE st == s \o t
           tu == t \o u
           x == st \o u
           y == s \o tu
<1>1. Len(s) \in Nat /\ Len(t) \in Nat /\ Len(u) \in Nat
  BY LenProperties
<1>2. /\ st \in Seq(Byte) /\ Len(st) = Len(s) + Len(t)
      /\ \A i \in 1..Len(s) : st[i] = s[i]
      /\ \A i \in (Len(s) + 1)..(Len(s) + Len(t)) : st[i] = t[i - Len(s)]
  BY Concat
<1>3. /\ tu \in Seq(Byte) /\ Len(tu) = Len(t) + Len(u)
      /\ \A i \in 1..Len(t) : tu[i] = t[i]
      /\ \A i \in (Len(t) + 1)..(Len(t) + Len(u)) : tu[i] = u[i - Len(t)]
  BY Concat
<1> HIDE DEF st, tu
<1>4. /\ x \in Seq(Byte) /\ Len(x) = Len(st) + Len(u)
      /\ \A i \in 1..Len(st) : x[i] = st[i]
      /\ \A i \in (Len(st) + 1)..(Len(st) + Len(u)) : x[i] = u[i - Len(st)]
  BY <1>2, Concat
<1>5. /\ y \in Seq(Byte) /\ Len(y) = Len(s) + Len(tu)
      /\ \A i \in 1..Len(s) : y[i] = s[i]
      /\ \A i \in (Len(s) + 1)..(Len(s) + Len(tu)) : y[i] = tu[i - Len(s)]
  BY <1>3, Concat
<1> HIDE DEF x, y
<1>6. Len(x) = Len(y) /\ Len(x) = Len(s) + Len(t) + Len(u)
  BY <1>1, <1>2, <1>3, <1>4, <1>5
<1>7. ASSUME NEW i \in 1..Len(x) PROVE x[i] = y[i]
  <2>1. CASE i <= Len(s)
    <3>1. i \in 1..Len(s) /\ i \in 1..Len(st)
      BY <1>1, <1>2, <2>1
    <3>2. QED BY <1>2, <1>4, <1>5, <3>1
  <2>2. CASE Len(s) < i /\ i <= Len(s) + Len(t)
    <3>1. /\ i \in 1..Len(st) /\ i \in (Len(s) + 1)..(Len(s) + Len(t))
          /\ i \in (Len(s) + 1)..(Len(s) + Len(tu)) /\ i - Len(s) \in 1..Len(t)
      BY <1>1, <1>2, <1>3, <2>2
    <3>2. QED BY <1>2, <1>3, <1>4, <1>5, <3>1
  <2>3. CASE Len(s) + Len(t) < i
    <3>1. /\ i \in (Len(st) + 1)..(Len(st) + Len(u))
          /\ i \in (Len(s) + 1)..(Len(s) + Len(tu))
          /\ i - Len(s) \in (Len(t) + 1)..(Len(t) + Len(u))
          /\ i - Len(st) = (i - Len(s)) - Len(t)
      BY <1>1, <1>2, <1>3, <1>6, <2>3
    <3>2. QED BY <1>3, <1>4, <1>5, <3>1
  <2>4. QED BY <1>1, <1>6, <2>1, <2>2, <2>3
<1>8. x = y
  BY <1>4, <1>5, <1>6, <1>7, SeqEqual
<1>9. QED BY <1>8 DEF x, y, st, tu

(* readFd adds exactly what readv returned, wherever readv put it. *)
LEMMA ReadIntoResult ==
  ASSUME NEW b, IsBuffer(b), NEW data \in Seq(Byte)
  PROVE  /\ IsBuffer(ReadInto(b, data))
         /\ Readable(ReadInto(b, data)) = Readable(b) \o data
         /\ Len(ReadInto(b, data).mem) > Len(b.mem) =>
              Len(b.mem) < kCheapPrepend + readableBytes(b) + Len(data)
<1> DEFINE k == writableBytes(b)
           d1 == SubSeq(data, 1, k)
           d2 == SubSeq(data, k + 1, Len(data))
           f == Filled(b, d1)
<1>0. Len(data) \in Nat /\ k \in Nat
  BY Fields, LenProperties DEF writableBytes
<1>1. CASE Len(data) <= k
  <2>1. ReadInto(b, data) = Filled(b, data)
    BY <1>1 DEF ReadInto
  <2>2. QED BY <1>0, <1>1, <2>1, FilledResult, Fields
<1>2. CASE ~(Len(data) <= k)
  <2>1. ReadInto(b, data) = Appended(f, d2)
    BY <1>2 DEF ReadInto
  <2>2. /\ d1 \in Seq(Byte) /\ Len(d1) = k
        /\ d2 \in Seq(Byte) /\ Len(d2) = Len(data) - k /\ d1 \o d2 = data
    <3> HIDE DEF k
    <3>1. d1 = SubSeq(data, 0 + 1, k)
      BY <1>0
    <3>2. d1 \in Seq(Byte) /\ Len(d1) = k
          /\ \A i \in 1..k : d1[i] = data[i]
      BY <1>0, <1>2, <3>1, Piece
    <3>3. d2 \in Seq(Byte) /\ Len(d2) = Len(data) - k
          /\ \A i \in 1..(Len(data) - k) : d2[i] = data[k + i]
      BY <1>0, <1>2, Piece
    <3> HIDE DEF d1, d2
    <3>4. /\ d1 \o d2 \in Seq(Byte) /\ Len(d1 \o d2) = Len(data)
          /\ \A i \in 1..Len(data) :
               (d1 \o d2)[i] = IF i <= k THEN d1[i] ELSE d2[i - k]
      <4>1. /\ d1 \o d2 \in Seq(Byte) /\ Len(d1 \o d2) = Len(d1) + Len(d2)
            /\ \A i \in 1..(Len(d1) + Len(d2)) :
                 (d1 \o d2)[i] = IF i <= Len(d1) THEN d1[i] ELSE d2[i - Len(d1)]
        BY <3>2, <3>3, ConcatProperties
      <4>2. Len(d1) + Len(d2) = Len(data)
        BY <1>0, <3>2, <3>3
      <4>3. QED BY <3>2, <4>1, <4>2
    <3>5. ASSUME NEW i \in 1..Len(data) PROVE (d1 \o d2)[i] = data[i]
      <4>1. CASE i <= k
        BY <1>0, <3>2, <3>4, <4>1
      <4>2. CASE ~(i <= k)
        <5>1. i - k \in 1..(Len(data) - k) /\ k + (i - k) = i
          BY <1>0, <4>2
        <5>2. QED BY <3>3, <3>4, <4>2, <5>1
      <4>3. QED BY <4>1, <4>2
    <3>6. d1 \o d2 = data
      BY <3>4, <3>5, SeqEqual
    <3>7. QED BY <3>2, <3>3, <3>6
  <2>3. /\ IsBuffer(f) /\ Readable(f) = Readable(b) \o d1
        /\ Len(f.mem) = Len(b.mem) /\ f.w = b.w + k
    <3>1. Len(d1) <= writableBytes(b)
      BY <1>0, <2>2
    <3>2. QED BY <2>2, <3>1, FilledResult
  <2>4. readableBytes(f) = readableBytes(b) + k
    <3>1. f.r = b.r
      BY DEF Filled
    <3>2. QED BY <2>3, <3>1, <1>0, Fields, SMTT(30) DEF readableBytes
  <2> HIDE DEF f, k, d1, d2
  <2>5. /\ IsBuffer(Appended(f, d2))
        /\ Readable(Appended(f, d2)) = Readable(f) \o d2
        /\ Len(Appended(f, d2).mem) > Len(f.mem) =>
             Len(f.mem) < kCheapPrepend + readableBytes(f) + Len(d2)
    BY <2>2, <2>3, AppendedResult
  <2>6. (Readable(b) \o d1) \o d2 = Readable(b) \o data
    <3>1. Readable(b) \in Seq(Byte)
      BY Fields
    <3>2. d1 \in Seq(Byte) /\ d2 \in Seq(Byte) /\ d1 \o d2 = data
      BY <2>2
    <3>3. (Readable(b) \o d1) \o d2 = Readable(b) \o (d1 \o d2)
      BY <3>1, <3>2, Assoc
    <3>4. QED BY <3>2, <3>3
  <2>7. readableBytes(f) + Len(d2) = readableBytes(b) + Len(data)
    BY <1>0, <2>2, <2>4, Fields DEF readableBytes
  <2>8. kCheapPrepend + readableBytes(f) + Len(d2)
          = kCheapPrepend + readableBytes(b) + Len(data)
    BY <1>0, <2>2, <2>4, Fields DEF readableBytes
  <2>9. QED BY <2>1, <2>3, <2>5, <2>6, <2>8
<1>3. QED BY <1>1, <1>2

(* retrieve takes bytes off the front; taking them all resets the indices. *)
LEMMA RetrieveResult ==
  ASSUME NEW b, IsBuffer(b), NEW len \in Nat
  PROVE  /\ IsBuffer(retrieve(b, len))
         /\ len < Len(Readable(b)) =>
              Readable(retrieve(b, len)) = SubSeq(Readable(b), len + 1, Len(Readable(b)))
         /\ ~(len < Len(Readable(b))) => Readable(retrieve(b, len)) = <<>>
         /\ Len(retrieve(b, len).mem) = Len(b.mem)
<1>0. /\ b.mem \in Seq(Byte) /\ b.r \in Nat /\ b.w \in Nat /\ Len(b.mem) \in Nat
      /\ kCheapPrepend \in Nat /\ kCheapPrepend <= b.r
      /\ b.r <= b.w /\ b.w <= Len(b.mem)
      /\ Readable(b) \in Seq(Byte) /\ Len(Readable(b)) = b.w - b.r
  BY Fields
<1>1. CASE len < b.w - b.r
  <2>1. retrieve(b, len) = [mem |-> b.mem, r |-> b.r + len, w |-> b.w]
    BY <1>1 DEF retrieve, readableBytes
  <2>2. b.r + len \in Nat /\ kCheapPrepend <= b.r + len /\ b.r + len <= b.w
    BY <1>0, <1>1
  <2>3. IsBuffer(retrieve(b, len))
    BY <1>0, <2>1, <2>2, MakeBuffer
  <2>4. Readable(retrieve(b, len)) = SubSeq(b.mem, (b.r + len) + 1, b.w)
    <3>1. /\ retrieve(b, len).mem = b.mem /\ retrieve(b, len).r = b.r + len
          /\ retrieve(b, len).w = b.w
      BY <2>1
    <3>2. QED BY <3>1, Zenon DEF Readable
  <2> DEFINE s == Readable(b)
             t == SubSeq(b.mem, (b.r + len) + 1, b.w)
             u == SubSeq(s, len + 1, Len(s))
  <2>5. /\ t \in Seq(Byte) /\ Len(t) = b.w - (b.r + len)
        /\ \A i \in 1..(b.w - (b.r + len)) : t[i] = b.mem[(b.r + len) + i]
    <3> DEFINE q == b.r + len
    <3>1. q \in Nat /\ q <= b.w
      BY <2>2
    <3> HIDE DEF q
    <3>2. /\ SubSeq(b.mem, q + 1, b.w) \in Seq(Byte)
          /\ Len(SubSeq(b.mem, q + 1, b.w)) = b.w - q
          /\ \A i \in 1..(b.w - q) : SubSeq(b.mem, q + 1, b.w)[i] = b.mem[q + i]
      BY <1>0, <3>1, Piece, ZenonT(30)
    <3>3. QED BY <3>2, Zenon DEF q
  <2>6. \A i \in 1..(b.w - b.r) : s[i] = b.mem[b.r + i]
    BY <1>0, Piece DEF Readable
  <2>7. /\ u \in Seq(Byte) /\ Len(u) = Len(s) - len
        /\ \A i \in 1..(Len(s) - len) : u[i] = s[len + i]
    <3> HIDE DEF s
    <3>1. Len(s) \in Nat /\ s \in Seq(Byte) /\ len <= Len(s)
      BY <1>0, <1>1 DEF s
    <3>2. QED BY <3>1, Piece
  <2> HIDE DEF s, t, u
  <2>8. Len(s) = b.w - b.r
    BY <1>0 DEF s
  <2>9. ASSUME NEW i \in 1..Len(t) PROVE t[i] = u[i]
    <3>0. Len(t) = b.w - (b.r + len) /\ Len(s) - len = b.w - (b.r + len)
      <4>1. Len(t) = b.w - (b.r + len)
        BY <2>5
      <4>2. b.w \in Nat /\ b.r \in Nat /\ len \in Nat
        BY <1>0
      <4>3. QED BY <2>8, <4>1, <4>2
    <3>1. /\ i \in 1..(b.w - (b.r + len)) /\ i \in 1..(Len(s) - len)
          /\ len + i \in 1..(b.w - b.r) /\ b.r + (len + i) = (b.r + len) + i
      <4>1. b.w \in Nat /\ b.r \in Nat /\ len \in Nat
        BY <1>0
      <4>2. i \in 1..(b.w - (b.r + len)) /\ i \in 1..(Len(s) - len)
        BY <3>0
      <4>3. i \in 1..(b.w - (b.r + len))
            => len + i \in 1..(b.w - b.r) /\ b.r + (len + i) = (b.r + len) + i
        BY <4>1
      <4>4. QED BY <4>2, <4>3
    <3>2. t[i] = b.mem[(b.r + len) + i]
      BY <2>5, <3>1
    <3>3. u[i] = s[len + i]
      BY <2>7, <3>1
    <3>4. s[len + i] = b.mem[b.r + (len + i)]
      BY <2>6, <3>1
    <3>5. QED BY <3>1, <3>2, <3>3, <3>4
  <2>10. Len(t) = Len(u)
    BY <1>0, <1>1, <2>5, <2>7, <2>8
  <2>11. t = u
    BY <2>5, <2>7, <2>9, <2>10, SeqEqual
  <2>12. Len(retrieve(b, len).mem) = Len(b.mem)
    BY <2>1
  <2>13. QED BY <1>0, <1>1, <2>3, <2>4, <2>11, <2>12 DEF t, u, s
<1>2. CASE ~(len < b.w - b.r)
  <2>1. retrieve(b, len) = [mem |-> b.mem, r |-> kCheapPrepend, w |-> kCheapPrepend]
    BY <1>2 DEF retrieve, readableBytes, retrieveAll
  <2>2. kCheapPrepend <= kCheapPrepend /\ kCheapPrepend <= Len(b.mem)
    BY <1>0
  <2>3. IsBuffer(retrieve(b, len))
    BY <1>0, <2>1, <2>2, MakeBuffer
  <2>4. SubSeq(b.mem, kCheapPrepend + 1, kCheapPrepend) = <<>>
    BY <1>0, SubSeqEmpty
  <2>5. Readable(retrieve(b, len)) = <<>>
    BY <2>1, <2>4 DEF Readable
  <2>6. QED BY <1>0, <1>2, <2>1, <2>3, <2>5
<1>3. QED BY <1>1, <1>2

-----------------------------------------------------------------------------
(* The specification *)

(* The constructor makes an empty buffer. *)
LEMMA InitResult ==
  ASSUME Init
  PROVE  TypeOK /\ Readable(buf) = <<>>
<1> DEFINE n == kCheapPrepend + kInitialSize
           m == [i \in 1..n |-> Zero]
<1>1. n \in Nat /\ kCheapPrepend \in Nat /\ kCheapPrepend <= n /\ Zero \in Byte
  BY BufferAssumption
<1>2. buf = [mem |-> m, r |-> kCheapPrepend, w |-> kCheapPrepend] /\ result = <<>>
  BY DEF Init
<1> HIDE DEF n
<1>3. m \in [1..n -> Byte]
  BY <1>1
<1>4. m \in Seq(Byte)
  BY <1>1, <1>3, SeqDef
<1>5. Len(m) = n
  BY <1>1, <1>3, <1>4, LenProperties
<1> HIDE DEF m
<1>6. IsBuffer(buf)
  BY <1>1, <1>2, <1>4, <1>5, MakeBuffer
<1>7. SubSeq(m, kCheapPrepend + 1, kCheapPrepend) = <<>>
  BY <1>1, SubSeqEmpty
<1>8. Readable(buf) = <<>>
  <2>1. buf.mem = m /\ buf.r = kCheapPrepend /\ buf.w = kCheapPrepend
    BY <1>2
  <2>2. QED BY <1>7, <2>1, Zenon DEF Readable
<1>9. QED BY <1>2, <1>6, <1>8 DEF TypeOK

(* What an operation does to the readable bytes and to the vector. *)
Adds(data) ==
  /\ IsBuffer(buf')
  /\ Readable(buf') = Readable(buf) \o data
  /\ Len(buf'.mem) > Len(buf.mem) =>
       Len(buf.mem) < kCheapPrepend + readableBytes(buf) + Len(data)
  /\ result' = result

Removes(n) ==
  /\ IsBuffer(buf')
  /\ Readable(buf') = SubSeq(Readable(buf), n + 1, Len(Readable(buf)))
  /\ Len(buf'.mem) = Len(buf.mem)
  /\ result' = result \/ result' = SubSeq(Readable(buf), 1, n)

(* retrieve(len) removes len bytes, or all of them if there are fewer. *)
LEMMA RetrieveRemoves ==
  ASSUME TypeOK, NEW len \in Nat, buf' = retrieve(buf, len)
  PROVE  \E n \in 0..Len(Readable(buf)) :
           /\ n = len \/ Len(Readable(buf)) < len
           /\ IsBuffer(buf')
           /\ Readable(buf') = SubSeq(Readable(buf), n + 1, Len(Readable(buf)))
           /\ Len(buf'.mem) = Len(buf.mem)
<1> DEFINE s == Readable(buf)
           b == retrieve(buf, len)
<1>1. IsBuffer(buf) /\ s \in Seq(Byte) /\ Len(s) \in Nat
  BY Fields, LenProperties DEF TypeOK
<1>2. /\ IsBuffer(b)
      /\ len < Len(s) => Readable(b) = SubSeq(s, len + 1, Len(s))
      /\ ~(len < Len(s)) => Readable(b) = <<>>
      /\ Len(b.mem) = Len(buf.mem)
  BY <1>1, RetrieveResult
<1>3. buf' = b
  OBVIOUS
<1> HIDE DEF s, b
<1>4. SubSeq(s, Len(s) + 1, Len(s)) = <<>>
  BY <1>1, SubSeqEmpty
<1>5. CASE len < Len(s)
  <2>1. len \in 0..Len(s)
    BY <1>1, <1>5
  <2>2. QED BY <1>2, <1>3, <1>5, <2>1 DEF s
<1>6. CASE ~(len < Len(s))
  <2>1. Len(s) \in 0..Len(s) /\ (Len(s) = len \/ Len(s) < len)
    BY <1>1, <1>6
  <2>2. QED BY <1>2, <1>3, <1>4, <1>6, <2>1 DEF s
<1>7. QED BY <1>5, <1>6

(* Every step adds one of the chunks at the end or removes some bytes at the
   front. *)
LEMMA StepResult ==
  ASSUME TypeOK, Next
  PROVE  \/ \E data \in Chunks : Adds(data)
         \/ \E n \in 0..Len(Readable(buf)) : Removes(n)
<1>0. IsBuffer(buf) /\ Chunks \subseteq Seq(Byte) /\ MaxReadable \in Nat
  BY BufferAssumption DEF TypeOK
<1>1. ASSUME NEW data \in Chunks, Append_(data) PROVE Adds(data)
  <2>1. data \in Seq(Byte)
    BY <1>0
  <2>2. buf' = Appended(buf, data) /\ result' = result
    BY <1>1 DEF Append_
  <2>3. QED BY <1>0, <2>1, <2>2, AppendedResult DEF Adds
<1>2. ASSUME NEW data \in Chunks, ReadFd(data) PROVE Adds(data)
  <2>1. data \in Seq(Byte)
    BY <1>0
  <2>2. buf' = ReadInto(buf, data) /\ result' = result
    BY <1>2 DEF ReadFd
  <2>3. QED BY <1>0, <2>1, <2>2, ReadIntoResult DEF Adds
<1>3. ASSUME NEW len \in 0..MaxReadable, Retrieve(len)
      PROVE  \E n \in 0..Len(Readable(buf)) : Removes(n)
  <2>1. len \in Nat
    BY <1>0
  <2>2. buf' = retrieve(buf, len) /\ result' = result
    BY <1>3 DEF Retrieve
  <2>3. QED BY <2>1, <2>2, RetrieveRemoves DEF Removes
<1>4. ASSUME NEW len \in 0..MaxReadable, RetrieveAsString(len)
      PROVE  \E n \in 0..Len(Readable(buf)) : Removes(n)
  <2>1. len \in Nat
    BY <1>0
  <2>2. /\ buf' = retrieve(buf, len) /\ result' = SubSeq(Readable(buf), 1, len)
        /\ len <= readableBytes(buf)
    BY <1>4 DEF RetrieveAsString
  <2>3. Len(Readable(buf)) = readableBytes(buf) /\ readableBytes(buf) \in Nat
    BY <1>0, Fields DEF readableBytes
  <2>4. PICK n \in 0..Len(Readable(buf)) :
           /\ n = len \/ Len(Readable(buf)) < len
           /\ IsBuffer(buf')
           /\ Readable(buf') = SubSeq(Readable(buf), n + 1, Len(Readable(buf)))
           /\ Len(buf'.mem) = Len(buf.mem)
    BY <2>1, <2>2, RetrieveRemoves
  <2>5. n = len
    BY <2>1, <2>2, <2>3, <2>4
  <2>6. QED BY <2>2, <2>4, <2>5 DEF Removes
<1>5. QED BY <1>1, <1>2, <1>3, <1>4 DEF Next

(* Whatever is appended, the reader index stays or returns to the start. *)
LEMMA AddKeepsReader ==
  ASSUME NEW b, NEW data
  PROVE  /\ Appended(b, data).r \in {b.r, kCheapPrepend}
         /\ ReadInto(b, data).r \in {b.r, kCheapPrepend}
<1>1. \A c, d : Filled(c, d).r = c.r
  BY DEF Filled
<1>2. \A c, len : ensureWritableBytes(c, len).r \in {c.r, kCheapPrepend}
  BY DEF ensureWritableBytes, makeSpace, MoveDown
<1>3. \A c, d : Appended(c, d).r \in {c.r, kCheapPrepend}
  BY <1>1, <1>2 DEF Appended
<1>4. QED BY <1>1, <1>3 DEF ReadInto

(* TypeOK is inductive. *)
LEMMA TypeStep ==
  ASSUME TypeOK, [Next]_vars
  PROVE  TypeOK'
<1>1. CASE UNCHANGED vars
  BY <1>1 DEF vars, TypeOK, IsBuffer
<1>2. CASE Next
  <2>1. /\ IsBuffer(buf) /\ result \in Seq(Byte)
        /\ Readable(buf) \in Seq(Byte) /\ Len(Readable(buf)) \in Nat
    BY Fields, LenProperties DEF TypeOK
  <2>2. ASSUME NEW data \in Chunks, Adds(data) PROVE TypeOK'
    BY <2>1, <2>2 DEF Adds, TypeOK
  <2>3. ASSUME NEW n \in 0..Len(Readable(buf)), Removes(n) PROVE TypeOK'
    <3> DEFINE s == Readable(buf)
    <3>1. s \in Seq(Byte) /\ n \in Nat /\ n <= Len(s)
      BY <2>1
    <3> HIDE DEF s
    <3>2. SubSeq(s, 0 + 1, n) \in Seq(Byte)
      BY <3>1, Piece
    <3>3. SubSeq(s, 1, n) \in Seq(Byte)
      BY <3>2
    <3>4. result' \in Seq(Byte) /\ IsBuffer(buf')
      BY <2>1, <2>3, <3>3 DEF Removes, s
    <3>5. QED BY <3>4 DEF TypeOK
  <2>4. QED BY <1>2, <2>2, <2>3, StepResult
<1>3. QED BY <1>1, <1>2

(* EmptyIsReset is preserved: bytes are only added where the indices are, and
   the last byte leaves through retrieveAll. *)
LEMMA EmptyStep ==
  ASSUME TypeOK, EmptyIsReset, [Next]_vars
  PROVE  EmptyIsReset'
<1>0. /\ IsBuffer(buf) /\ buf.r \in Nat /\ buf.w \in Nat /\ kCheapPrepend \in Nat
      /\ Readable(buf) \in Seq(Byte) /\ Len(Readable(buf)) = buf.w - buf.r
      /\ Chunks \subseteq Seq(Byte)
  BY Fields, BufferAssumption DEF TypeOK
<1>1. CASE UNCHANGED vars
  BY <1>1 DEF vars, EmptyIsReset, readableBytes
<1>2. ASSUME NEW data \in Chunks, Append_(data) \/ ReadFd(data)
      PROVE  EmptyIsReset'
  <2>1. buf' = Appended(buf, data) \/ buf' = ReadInto(buf, data)
    BY <1>2 DEF Append_, ReadFd
  <2>2. buf'.r \in {buf.r, kCheapPrepend}
    BY <2>1, AddKeepsReader
  <2>3. data \in Seq(Byte) /\ Len(data) \in Nat
    BY <1>0, LenProperties
  <2>4. IsBuffer(buf') /\ Readable(buf') = Readable(buf) \o data
    BY <1>0, <2>1, <2>3, AppendedResult, ReadIntoResult
  <2>5. Len(Readable(buf) \o data) = Len(Readable(buf)) + Len(data)
    BY <1>0, <2>3, Concat
  <2>6. Len(Readable(buf')) = buf'.w - buf'.r
    BY <2>4, Fields
  <2>7. buf'.w - buf'.r = (buf.w - buf.r) + Len(data)
    BY <1>0, <2>4, <2>5, <2>6
  <2>8. QED BY <1>0, <2>2, <2>3, <2>7 DEF EmptyIsReset, readableBytes
<1>3. ASSUME NEW len \in 0..MaxReadable, Retrieve(len) \/ RetrieveAsString(len)
      PROVE  EmptyIsReset'
  <2>1. buf' = retrieve(buf, len)
    BY <1>3 DEF Retrieve, RetrieveAsString
  <2>2. len \in Nat
    BY BufferAssumption
  <2>3. CASE len < buf.w - buf.r
    <3>1. buf'.w = buf.w /\ buf'.r = buf.r + len
      BY <2>1, <2>3 DEF retrieve, readableBytes
    <3>2. ~(buf'.w - buf'.r = 0)
      BY <1>0, <2>2, <2>3, <3>1
    <3>3. QED BY <3>2 DEF EmptyIsReset, readableBytes
  <2>4. CASE ~(len < buf.w - buf.r)
    <3>1. buf'.r = kCheapPrepend
      BY <2>1, <2>4 DEF retrieve, readableBytes, retrieveAll
    <3>2. QED BY <3>1 DEF EmptyIsReset
  <2>5. QED BY <2>3, <2>4
<1>4. QED BY <1>1, <1>2, <1>3 DEF Next

-----------------------------------------------------------------------------
(* Every state is well formed: the indices are ordered and inside the vector,
   so no copy of readFd, append or makeSpace leaves it. *)
THEOREM TypeCorrect == Spec => []TypeOK
<1>1. Init => TypeOK
  BY InitResult
<1>2. TypeOK /\ [Next]_vars => TypeOK'
  BY TypeStep
<1>3. QED BY <1>1, <1>2, PTL DEF Spec

(* A buffer whose bytes have all been retrieved has its indices back at the
   start, whichever operations emptied it. *)
THEOREM EmptiedIsReset == Spec => []EmptyIsReset
<1>1. Init => TypeOK /\ EmptyIsReset
  BY InitResult DEF Init, EmptyIsReset
<1>2. TypeOK /\ EmptyIsReset /\ [Next]_vars => TypeOK' /\ EmptyIsReset'
  BY TypeStep, EmptyStep
<1>3. QED BY <1>1, <1>2, PTL DEF Spec

(* The buffer implements the queue of bytes: makeSpace's move and resize, and
   the two targets of readv, are invisible to its users. *)
THEOREM Refinement == Spec => ImplementsByteQueue
<1>1. Init => Queue!Init
  BY InitResult DEF Queue!Init, Init
<1>2. ASSUME TypeOK, [Next]_vars PROVE [Queue!Next]_<<Readable(buf), result>>
  <2>1. CASE UNCHANGED vars
    BY <2>1 DEF vars, Readable
  <2>2. CASE Next
    <3>1. ASSUME NEW data \in Chunks, Adds(data) PROVE Queue!Next
      <4>1. Queue!Put(data)
        BY <3>1 DEF Adds, Queue!Put, Readable
      <4>2. QED BY <4>1 DEF Queue!Next
    <3>2. ASSUME NEW n \in 0..Len(Readable(buf)), Removes(n) PROVE Queue!Next
      <4>1. Queue!Drop(n) \/ Queue!Take(n)
        BY <3>2 DEF Removes, Queue!Drop, Queue!Take, Readable
      <4>2. QED BY <4>1 DEF Queue!Next
    <3>3. QED BY <1>2, <2>2, <3>1, <3>2, StepResult
  <2>3. QED BY <1>2, <2>1, <2>2
<1>3. QED BY <1>1, <1>2, TypeCorrect, PTL DEF Spec, ImplementsByteQueue, Queue!Spec

(* The vector grows only when its readable bytes and the new ones do not fit
   even after they are moved down. *)
THEOREM Growth == Spec => GrowsOnlyWhenFull
<1>1. ASSUME TypeOK, [Next]_vars
      PROVE  [Len(buf'.mem) > Len(buf.mem) =>
                kCheapPrepend + readableBytes(buf') > Len(buf.mem)]_vars
  <2>1. CASE UNCHANGED vars
    BY <2>1
  <2>2. CASE Next
    <3>0. IsBuffer(buf) /\ Chunks \subseteq Seq(Byte)
      BY <1>1, BufferAssumption DEF TypeOK
    <3>1. /\ buf.r \in Nat /\ buf.w \in Nat /\ kCheapPrepend \in Nat
          /\ Len(buf.mem) \in Nat
          /\ Readable(buf) \in Seq(Byte) /\ Len(Readable(buf)) = buf.w - buf.r
      BY <3>0, Fields
    <3>2. ASSUME NEW data \in Chunks, Adds(data), Len(buf'.mem) > Len(buf.mem)
          PROVE  kCheapPrepend + readableBytes(buf') > Len(buf.mem)
      <4>1. data \in Seq(Byte) /\ Len(data) \in Nat
        BY <3>0, LenProperties
      <4>2. /\ IsBuffer(buf') /\ Readable(buf') = Readable(buf) \o data
            /\ Len(buf.mem) < kCheapPrepend + readableBytes(buf) + Len(data)
        BY <3>2 DEF Adds
      <4>3. Len(Readable(buf) \o data) = Len(Readable(buf)) + Len(data)
        BY <3>1, <4>1, Concat
      <4>4. Len(Readable(buf')) = buf'.w - buf'.r
        BY <4>2, Fields
      <4>5. buf'.w - buf'.r = (buf.w - buf.r) + Len(data)
        BY <3>1, <4>2, <4>3, <4>4
      <4>6. QED BY <3>1, <4>1, <4>2, <4>5 DEF readableBytes
    <3>3. ASSUME NEW n \in 0..Len(Readable(buf)), Removes(n)
          PROVE  ~(Len(buf'.mem) > Len(buf.mem))
      BY <3>1, <3>3 DEF Removes
    <3>4. QED BY <1>1, <2>2, <3>2, <3>3, StepResult
  <2>3. QED BY <1>1, <2>1, <2>2
<1>2. QED BY <1>1, TypeCorrect, PTL DEF Spec, GrowsOnlyWhenFull

=============================================================================

------------------------------- MODULE Buffer -------------------------------
(***************************************************************************)
(* Buffer: a vector of bytes with a reader and a writer index,               *)
(*                                                                           *)
(*    0 .. readerIndex .. writerIndex .. size                                *)
(*      prependable   readable      writable                                 *)
(*                                                                           *)
(* that moves its bytes down or grows when an append does not fit.           *)
(***************************************************************************)
EXTENDS Integers, Sequences

CONSTANTS Byte,             \* values of a char
          Zero,             \* the char a vector's new elements hold
          kCheapPrepend,    \* bytes kept free in front
          kInitialSize,     \* writable bytes of a new buffer
          ExtraSize,        \* size of readFd's buffer on the stack
          Chunks,           \* byte strings that are appended or arrive at once
          MaxReadable       \* bound: appends stop above it

ASSUME BufferAssumption ==
  /\ Zero \in Byte
  /\ kCheapPrepend \in Nat /\ kInitialSize \in Nat /\ ExtraSize \in Nat
  /\ Chunks \subseteq Seq(Byte)
  /\ MaxReadable \in Nat

VARIABLES buf,              \* [mem |-> buffer_, r |-> readerIndex_, w |-> writerIndex_]
          result            \* the last string retrieveAsString returned

vars == <<buf, result>>

IsBuffer(b) ==
  /\ b \in [mem : Seq(Byte), r : Nat, w : Nat]
  /\ kCheapPrepend <= b.r /\ b.r <= b.w /\ b.w <= Len(b.mem)

(* The indices are ordered and inside the vector: every copy stays in bounds. *)
TypeOK == IsBuffer(buf) /\ result \in Seq(Byte)

readableBytes(b) == b.w - b.r
writableBytes(b) == Len(b.mem) - b.w
prependableBytes(b) == b.r

(* The bytes from peek() to beginWrite(). *)
Readable(b) == SubSeq(b.mem, b.r + 1, b.w)

Init ==
  /\ buf = [mem |-> [i \in 1..(kCheapPrepend + kInitialSize) |-> Zero],
            r |-> kCheapPrepend, w |-> kCheapPrepend]
  /\ result = <<>>

-----------------------------------------------------------------------------
(* std::copy to offset at, and vector::resize *)

CopyTo(mem, at, data) ==
  [i \in 1..Len(mem) |-> IF at < i /\ i <= at + Len(data) THEN data[i - at]
                         ELSE mem[i]]

Resize(mem, size) ==
  [i \in 1..size |-> IF i <= Len(mem) THEN mem[i] ELSE Zero]

(* makeSpace: grow if moving the readable bytes down would not make room. *)
FitsAfterMove(b, len) ==
  writableBytes(b) + prependableBytes(b) >= len + kCheapPrepend

MoveIndicesOnly(b) ==                                             \* mutant
  [mem |-> b.mem, r |-> kCheapPrepend, w |-> kCheapPrepend + readableBytes(b)]
MoveDown(b) ==
  [mem |-> CopyTo(b.mem, kCheapPrepend, Readable(b)),
   r |-> kCheapPrepend, w |-> kCheapPrepend + readableBytes(b)]

makeSpaceGrows(b, len) ==                                         \* mutant
  [mem |-> Resize(b.mem, b.w + len), r |-> b.r, w |-> b.w]
makeSpace(b, len) ==
  IF FitsAfterMove(b, len) THEN MoveDown(b)
  ELSE [mem |-> Resize(b.mem, b.w + len), r |-> b.r, w |-> b.w]

ensureWritableBytes(b, len) ==
  IF writableBytes(b) < len THEN makeSpace(b, len) ELSE b

(* Write data at writerIndex_ and advance it. *)
Filled(b, data) ==
  [mem |-> CopyTo(b.mem, b.w, data), r |-> b.r, w |-> b.w + Len(data)]

Appended(b, data) == Filled(ensureWritableBytes(b, Len(data)), data)

(* readFd: readv fills the writable bytes, then the buffer on the stack, which
   is appended. *)
ReadInto(b, data) ==
  LET writable == writableBytes(b)
  IN  IF Len(data) <= writable
      THEN Filled(b, data)
      ELSE Appended(Filled(b, SubSeq(data, 1, writable)),
                    SubSeq(data, writable + 1, Len(data)))

ReadCapacity(b) ==
  writableBytes(b) + (IF writableBytes(b) < ExtraSize THEN ExtraSize ELSE 0)

retrieveAll(b) == [mem |-> b.mem, r |-> kCheapPrepend, w |-> kCheapPrepend]

retrieve(b, len) ==
  IF len < readableBytes(b) THEN [mem |-> b.mem, r |-> b.r + len, w |-> b.w]
  ELSE retrieveAll(b)

-----------------------------------------------------------------------------
Bounded(data) == readableBytes(buf) + Len(data) <= MaxReadable

Append_(data) ==
  /\ Bounded(data)
  /\ buf' = Appended(buf, data)
  /\ UNCHANGED result

ReadFd(data) ==
  /\ Bounded(data)
  /\ Len(data) <= ReadCapacity(buf)
  /\ buf' = ReadInto(buf, data)
  /\ UNCHANGED result

(* writeFd and retrieve of what was written, retrieveUntil, retrieveAll. *)
Retrieve(len) ==
  /\ buf' = retrieve(buf, len)
  /\ UNCHANGED result

RetrieveAsString(len) ==
  /\ len <= readableBytes(buf)
  /\ result' = SubSeq(Readable(buf), 1, len)
  /\ buf' = retrieve(buf, len)

Next ==
  \/ \E data \in Chunks : Append_(data) \/ ReadFd(data)
  \/ \E len \in 0..MaxReadable : Retrieve(len) \/ RetrieveAsString(len)

Spec == Init /\ [][Next]_vars

-----------------------------------------------------------------------------
(* The buffer is a queue of bytes: no operation that moves, grows or resets it
   loses, repeats or reorders what is readable. *)
Queue == INSTANCE ByteQueue WITH content <- Readable(buf)
ImplementsByteQueue == Queue!Spec

(* An emptied buffer has all its space back: the indices are at the start
   whenever nothing is readable. *)
EmptyIsReset == readableBytes(buf) = 0 => buf.r = kCheapPrepend

(* The vector grows only when the bytes would not fit into it even after they
   are moved down, so a connection that keeps up never grows its buffer. *)
GrowsOnlyWhenFull ==
  [][Len(buf'.mem) > Len(buf.mem) =>
       kCheapPrepend + readableBytes(buf') > Len(buf.mem)]_vars
=============================================================================

---------------------------- MODULE AsyncLogging ----------------------------
(***************************************************************************)
(* AsyncLogging: threads append log lines to a buffer under a mutex; a       *)
(* backend thread takes the filled buffers, writes them to the file and      *)
(* keeps two of them as spares.  Lines are numbered in the order in which    *)
(* append takes the mutex.                                                   *)
(***************************************************************************)
EXTENDS Integers, Sequences, SequencesExt

CONSTANTS LargeBufferSize,  \* bytes of a FixedBuffer
          Lengths,          \* lengths of log lines
          MaxLines,         \* bound: append is called at most so often
          Null              \* an empty unique_ptr

FixedBuffer == [data : Seq(1..MaxLines), size : 0..(LargeBufferSize - 1)]

(* A line is made in a 4 KB LogStream buffer, so it fits an empty 4 MB one. *)
ASSUME LoggingAssumption ==
  /\ LargeBufferSize \in Nat \ {0}
  /\ Lengths \subseteq 1..(LargeBufferSize - 1)
  /\ MaxLines \in Nat
  /\ Null \notin FixedBuffer

VARIABLES running,          \* running_
          currentBuffer,    \* *currentBuffer_
          nextBuffer,       \* *nextBuffer_, or Null
          buffers,          \* buffers_, the filled buffers
          appended,         \* number of lines appended so far
          pc,               \* what threadFunc does next; "off" before start()
          newbuffer1, newbuffer2, toWrite,      \* locals of threadFunc
          i,                \* index of the next buffer of toWrite to be written
          file,             \* lines given to the LogFile
          flushed,          \* how many of them are flushed
          due               \* history: lines appended when threadFunc last found
                            \* running_ set

front == <<currentBuffer, nextBuffer, buffers, appended>>
back == <<newbuffer1, newbuffer2, toWrite, i>>
vars == <<running, front, pc, back, file, flushed, due>>

(* An unused buffer; FixedBuffer::reset leaves the same. *)
Empty == [data |-> <<>>, size |-> 0]

TypeOK ==
  /\ running \in BOOLEAN
  /\ currentBuffer \in FixedBuffer
  /\ nextBuffer \in FixedBuffer \cup {Null}
  /\ buffers \in Seq(FixedBuffer)
  /\ appended \in 0..MaxLines
  /\ pc \in {"off", "test", "lock", "wait", "write", "recycle", "done"}
  /\ newbuffer1 \in FixedBuffer \cup {Null}
  /\ newbuffer2 \in FixedBuffer \cup {Null}
  /\ toWrite \in Seq(FixedBuffer)
  /\ i \in 1..(Len(toWrite) + 1)
  /\ file \in Seq(1..MaxLines)
  /\ flushed \in 0..Len(file)
  /\ due \in 0..MaxLines

Init ==
  /\ running = FALSE
  /\ currentBuffer = Empty /\ nextBuffer = Empty /\ buffers = <<>>
  /\ appended = 0
  /\ pc = "off"
  /\ newbuffer1 = Null /\ newbuffer2 = Null /\ toWrite = <<>> /\ i = 1
  /\ file = <<>> /\ flushed = 0 /\ due = 0

-----------------------------------------------------------------------------
(* The threads that log *)

avail(b) == LargeBufferSize - b.size

(* FixedBuffer::append copies nothing when the line does not fit. *)
Put(b, line, len) ==
  IF avail(b) > len THEN [data |-> Append(b.data, line), size |-> b.size + len]
  ELSE b

Fits(len) == avail(currentBuffer) > len

(* The spare, or a buffer just allocated. *)
FreshBuffer == IF nextBuffer # Null THEN nextBuffer ELSE Empty

append(len) ==
  /\ appended < MaxLines
  /\ appended' = appended + 1
  /\ \/ /\ Fits(len)
        /\ currentBuffer' = Put(currentBuffer, appended + 1, len)
        /\ UNCHANGED <<nextBuffer, buffers>>
     \/ /\ ~Fits(len)
        /\ buffers' = Append(buffers, currentBuffer)
        /\ currentBuffer' = Put(FreshBuffer, appended + 1, len)
        /\ nextBuffer' = Null
  /\ UNCHANGED <<running, pc, back, file, flushed, due>>

start ==
  /\ pc = "off"
  /\ running' = TRUE
  /\ newbuffer1' = Empty /\ newbuffer2' = Empty
  /\ pc' = "test"
  /\ UNCHANGED <<front, toWrite, i, file, flushed, due>>

(* notify_one only ends a wait that may end at any time: see WaitEnds. *)
stop ==
  /\ running
  /\ running' = FALSE
  /\ UNCHANGED <<front, pc, back, file, flushed, due>>

-----------------------------------------------------------------------------
(* threadFunc *)

TestRunning ==
  /\ pc = "test"
  /\ \/ /\ running
        /\ pc' = "lock"
        /\ due' = appended
        /\ UNCHANGED flushed
     \/ /\ ~running
        /\ pc' = "done"
        /\ flushed' = Len(file)
        /\ UNCHANGED due
  /\ UNCHANGED <<running, front, back, file>>

(* What the backend takes and leaves in one critical section. *)
TakeCurrentFirst == <<currentBuffer>> \o buffers                  \* mutant
Taken == Append(buffers, currentBuffer)

RefillAlways ==                                                   \* mutant
  nextBuffer' = newbuffer2 /\ newbuffer2' = Null
RefillNext ==
  \/ nextBuffer = Null /\ nextBuffer' = newbuffer2 /\ newbuffer2' = Null
  \/ nextBuffer # Null /\ UNCHANGED <<nextBuffer, newbuffer2>>

SwapBuffers ==
  /\ toWrite' = Taken
  /\ currentBuffer' = newbuffer1 /\ newbuffer1' = Null
  /\ RefillNext
  /\ buffers' = <<>>

LockAndWait ==
  /\ pc = "lock" /\ buffers = <<>>
  /\ pc' = "wait"
  /\ UNCHANGED <<running, front, back, file, flushed, due>>

(* wait_for ends on notify_one, spuriously or after 3 seconds, and no predicate
   is tested. *)
WaitEnds == TRUE

SwapUnlessStopped ==                                              \* mutant
  \/ /\ pc = "wait" /\ ~running
     /\ pc' = "done"
     /\ flushed' = Len(file)
     /\ UNCHANGED <<running, front, back, file, due>>
  \/ /\ pc = "lock" \/ running
     /\ pc = "lock" => buffers # <<>>
     /\ pc \in {"lock", "wait"}
     /\ SwapBuffers
     /\ pc' = "write" /\ i' = 1
     /\ UNCHANGED <<running, appended, file, flushed, due>>
Swap ==
  /\ \/ pc = "lock" /\ buffers # <<>>
     \/ pc = "wait" /\ WaitEnds
  /\ SwapBuffers
  /\ pc' = "write" /\ i' = 1
  /\ UNCHANGED <<running, appended, file, flushed, due>>

Write ==
  /\ pc = "write" /\ i <= Len(toWrite)
  /\ file' = file \o toWrite[i].data
  /\ i' = i + 1
  /\ UNCHANGED <<running, front, pc, newbuffer1, newbuffer2, toWrite, flushed, due>>

EndWrite ==
  /\ pc = "write" /\ i > Len(toWrite)
  /\ pc' = "recycle"
  /\ UNCHANGED <<running, front, back, file, flushed, due>>

(* At most two written buffers are kept; spares are taken from the end.  back()
   of an empty vector is undefined: no buffer is a possible outcome. *)
Kept == IF Len(toWrite) > 2 THEN SubSeq(toWrite, 1, 2) ELSE toWrite

FlushNothing == UNCHANGED flushed                                 \* mutant
Flush == flushed' = Len(file)

Recycled(bs) == IF bs = <<>> THEN Null ELSE Empty

Recycle ==
  /\ pc = "recycle"
  /\ LET rest == IF newbuffer1 = Null /\ Kept # <<>>
                 THEN SubSeq(Kept, 1, Len(Kept) - 1) ELSE Kept
     IN  /\ newbuffer1' = IF newbuffer1 = Null THEN Recycled(Kept) ELSE newbuffer1
         /\ newbuffer2' = IF newbuffer2 = Null THEN Recycled(rest) ELSE newbuffer2
  /\ toWrite' = <<>> /\ i' = 1
  /\ Flush
  /\ pc' = "test"
  /\ UNCHANGED <<running, front, file, due>>

-----------------------------------------------------------------------------
threadFunc == TestRunning \/ LockAndWait \/ Swap \/ Write \/ EndWrite \/ Recycle

Next == (\E len \in Lengths : append(len)) \/ start \/ stop \/ threadFunc

Spec == Init /\ [][Next]_vars

(* The backend thread is scheduled, and a wait of 3 seconds ends. *)
FairSpec == Spec /\ WF_vars(threadFunc)

-----------------------------------------------------------------------------
Lines(bs) == FlattenSeq([k \in DOMAIN bs |-> bs[k].data])

Unwritten == SubSeq(toWrite, i, Len(toWrite))

(* No line is lost, repeated or overtaken on its way through the buffers: what
   is in the file, then the buffers being written, the filled ones and the
   current one are all lines in the order of append. *)
InOrder ==
  file \o Lines(Unwritten) \o Lines(buffers) \o currentBuffer.data
    = [k \in 1..appended |-> k]

(* threadFunc never calls back() on an empty buffersToWrite: whenever a spare is
   missing when buffers are recycled, a written buffer is there to replace it.
   The front end took nextBuffer_ only while it filled another buffer. *)
SparesSuffice ==
  pc = "recycle" =>
    /\ newbuffer1 = Null => Len(toWrite) >= 1
    /\ newbuffer1 = Null /\ newbuffer2 = Null => Len(toWrite) >= 2

(* stop() loses nothing that was appended before threadFunc last found running_
   set: whatever was in a buffer by then is on the disk when the thread has ended,
   although the loop takes the current buffer only once a round.  Lines appended
   later may be left in a buffer for ever. *)
StopKeepsDue == pc = "done" => flushed >= due

(* While the logger runs every line reaches the disk, also those in a buffer
   that never fills: the wait has a time limit.  After stop() the backend leaves
   its loop without taking the current buffer, so lines may stay behind. *)
AppendedIsFlushed ==
  \A n \in 1..MaxLines : (running /\ appended >= n) ~> (flushed >= n \/ ~running)
=============================================================================

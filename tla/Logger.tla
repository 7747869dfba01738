------------------------------- MODULE Logger -------------------------------
(***************************************************************************)
(* LOG_* statements of several threads.  A Logger object formats its line in *)
(* a LogStream of its own: the time and the level when it is made, what the  *)
(* statement streams, and the place in the source when it is destructed,     *)
(* which then gives the line to g_output and, if it is FATAL, flushes and    *)
(* aborts.  Threads share localtime's static struct tm and the output.       *)
(*                                                                           *)
(* A line is the sequence of the pieces that were written, each with its     *)
(* length; the bytes of a number are modelled, those of a text are not.      *)
(***************************************************************************)
EXTENDS Integers, Sequences, SequencesExt

CONSTANTS Threads,
          Statements,       \* LOG_* statements, see Statement
          MaxMinutes,       \* bound: minutes that pass
          MaxStatements,    \* bound: statements executed
          NoField

kSmallBufferSize == 4096
kMaxNumberSize == 32

Levels == {"TRACE", "DEBUG", "INFO", "WARN", "ERROR", "FATAL"}

(* Division in C cuts towards zero. *)
Quotient(num) == IF num < 0 /\ num % 10 # 0 THEN num \div 10 + 1 ELSE num \div 10

(* What dividing by 10 again and again leaves of a number. *)
Divided(num) ==
  LET rest[n \in 0..kMaxNumberSize] == IF n = 0 THEN num ELSE Quotient(rest[n - 1])
  IN  rest

(* A number of at most 64 bits has at most 20 digits. *)
CInteger == {num \in Int : Divided(num)[20] = 0}

(* What << is given: a text of some length, or a number. *)
Text(len) == [kind |-> "text", len |-> len]
Number(n) == [kind |-> "number", value |-> n]
Statement == [level : Levels,
              pieces : Seq([kind : {"text"}, len : Nat]
                             \cup [kind : {"number"}, value : CInteger]),
              file : Seq(Nat),      \* __FILE__ as the lengths of its components
              line : CInteger]

ASSUME LoggerAssumption ==
  /\ Statements \subseteq Statement /\ \A s \in Statements : s.file # <<>>
  /\ MaxMinutes \in Nat /\ MaxStatements \in Nat

VARIABLES minute,           \* the clock, in minutes
          tm,               \* localtime's static result
          log_pc, seconds,  \* per thread, the time formatTime took
          timer,            \* per thread, the fields printed to t_timer
          lines,            \* lines given to g_output
          reached,          \* how many of them have left the process
          g_output, g_flush,
          aborted

config == <<g_output, g_flush>>
loggerVars ==
  <<minute, tm, log_pc, seconds, timer, lines, reached, config, aborted>>

(* The fields of a struct tm that reach the line: the text printed is 19 characters
   long and formatTime streams 17 of them, so the seconds are cut off.  An hour has
   two minutes here. *)
Fields == {"hour", "min"}
BrokenDown(t) == [hour |-> t \div 2, min |-> t % 2]

NoFields == [f \in Fields |-> NoField]

LoggerInit ==
  /\ minute = 0 /\ tm = BrokenDown(0)
  /\ log_pc = [t \in Threads |-> "idle"]
  /\ seconds = [t \in Threads |-> 0]
  /\ timer = [t \in Threads |-> NoFields]
  /\ lines = <<>> /\ reached = 0
  /\ g_output = "default" /\ g_flush = "default"
  /\ aborted = FALSE

-----------------------------------------------------------------------------
(* FixedBuffer and LogStream *)

EmptyBuffer == [data |-> <<>>, size |-> 0]
smallAvail(b) == kSmallBufferSize - b.size
add(b, what, len) == [data |-> Append(b.data, what), size |-> b.size + len]

smallAppendWhenEqual(b, what, len) ==                             \* mutant
  IF smallAvail(b) >= len THEN add(b, what, len) ELSE b
smallAppend(b, what, len) == IF smallAvail(b) > len THEN add(b, what, len) ELSE b

(* Remainders have the sign of the number; the table is read from its middle. *)
digits == <<9, 8, 7, 6, 5, 4, 3, 2, 1, 0, 1, 2, 3, 4, 5, 6, 7, 8, 9>>
zero(remainder) == digits[remainder + 10]
Remainder(num) == num - 10 * Quotient(num)

(* The loop divides until nothing is left, and at least once. *)
LowDigitsFirst(num) ==
  LET rest == Divided(num)
      count == Min({n \in 1..kMaxNumberSize : rest[n] = 0})
  IN  [n \in 1..count |-> zero(Remainder(rest[n - 1]))]

formatInteger(b, num) ==
  LET written == [kind |-> "digits", negative |-> num < 0,
                  digits |-> Reverse(LowDigitsFirst(num))]
  IN  IF smallAvail(b) >= kMaxNumberSize
      THEN add(b, written, Len(written.digits) + (IF num < 0 THEN 1 ELSE 0)) ELSE b

(* op applied to each element in turn. *)
Fold(op(_, _), base, s) ==
  LET acc[n \in 0..Len(s)] == IF n = 0 THEN base ELSE op(acc[n - 1], s[n])
  IN  acc[Len(s)]

(* The operators <<: numbers are formatted in place, all else is a text. *)
Stream(b, piece) ==
  IF piece.kind = "number" THEN formatInteger(b, piece.value)
  ELSE smallAppend(b, piece, piece.len)

-----------------------------------------------------------------------------
(* Logger::Impl *)

(* The time, the microseconds and the level. *)
Prefix == <<Text(17), Text(7), Text(6)>>

(* SourceFile: what follows the last slash. *)
basename(s) == s.file[Len(s.file)]

Newline == [kind |-> "newline", len |-> 1]
finish(s) == <<Text(3), Text(basename(s)), Text(1), Number(s.line), Newline>>

Pieces(s) == Prefix \o s.pieces \o finish(s)
Formatted(s) == Fold(Stream, EmptyBuffer, Pieces(s))

-----------------------------------------------------------------------------
At(t, from, to) == ~aborted /\ log_pc[t] = from /\ log_pc' = [log_pc EXCEPT ![t] = to]

LoggerTick ==
  /\ ~aborted /\ minute < MaxMinutes
  /\ minute' = minute + 1
  /\ UNCHANGED <<tm, log_pc, seconds, timer, lines, reached, config, aborted>>

(* The program sets both before it logs, if at all. *)
setOutput ==
  /\ lines = <<>> /\ \A t \in Threads : log_pc[t] = "idle"
  /\ g_output' = "custom"
  /\ UNCHANGED <<minute, tm, log_pc, seconds, timer, lines, reached, g_flush, aborted>>

setFlush ==
  /\ lines = <<>> /\ \A t \in Threads : log_pc[t] = "idle"
  /\ g_flush' = "custom"
  /\ UNCHANGED <<minute, tm, log_pc, seconds, timer, lines, reached, g_output, aborted>>

(* The constructor takes the time ... *)
Construct(t) ==
  /\ At(t, "idle", "localtime")
  /\ Len(lines) < MaxStatements
  /\ seconds' = [seconds EXCEPT ![t] = minute]
  /\ UNCHANGED <<minute, tm, timer, lines, reached, config, aborted>>

(* ... breaks it down in the one static tm of the process ... *)
localtime(t) ==
  /\ At(t, "localtime", "print")
  /\ tm' = BrokenDown(seconds[t])
  /\ timer' = [timer EXCEPT ![t] = NoFields]
  /\ UNCHANGED <<minute, seconds, lines, reached, config, aborted>>

(* ... and prints its fields, which are read one by one in any order. *)
PrintField(t, f) ==
  /\ At(t, "print", "print")
  /\ timer[t][f] = NoField
  /\ timer' = [timer EXCEPT ![t][f] = tm[f]]
  /\ UNCHANGED <<minute, tm, seconds, lines, reached, config, aborted>>

Printed(t) == \A f \in Fields : timer[t][f] # NoField

(* The rest of the constructor, the statement's << and the destructor's finish()
   work on the object's own buffer; then the line is output in one call. *)
Output(t, s) ==
  /\ At(t, "print", IF s.level = "FATAL" THEN "flush" ELSE "idle")
  /\ Printed(t)
  /\ Len(lines) < MaxStatements
  /\ lines' = Append(lines, [statement |-> s, buffer |-> Formatted(s)])
  /\ timer' = [timer EXCEPT ![t] = NoFields]
  /\ seconds' = [seconds EXCEPT ![t] = 0]
  /\ UNCHANGED <<minute, tm, reached, config, aborted>>

(* stdio, or the custom sink, writes what it holds when it sees fit. *)
SinkWrites ==
  /\ ~aborted /\ reached < Len(lines)
  /\ reached' = Len(lines)
  /\ UNCHANGED <<minute, tm, log_pc, seconds, timer, lines, config, aborted>>

(* A flush of the sink that output did not go to writes nothing. *)
callFlushNothing(t) ==                                            \* mutant
  /\ At(t, "flush", "abort")
  /\ UNCHANGED <<minute, tm, seconds, timer, lines, reached, config, aborted>>
callFlush(t) ==
  /\ At(t, "flush", "abort")
  /\ reached' = IF g_flush = g_output THEN Len(lines) ELSE reached
  /\ UNCHANGED <<minute, tm, seconds, timer, lines, config, aborted>>

(* abort() ends every thread and writes nothing more. *)
Abort(t) ==
  /\ At(t, "abort", "abort")
  /\ aborted' = TRUE
  /\ UNCHANGED <<minute, tm, seconds, timer, lines, reached, config>>

ThreadStep(t) ==
  \/ Construct(t) \/ localtime(t) \/ callFlush(t) \/ Abort(t)
  \/ \E f \in Fields : PrintField(t, f)
  \/ \E s \in Statements : Output(t, s)

LoggerNext ==
  \/ LoggerTick \/ setOutput \/ setFlush \/ SinkWrites
  \/ \E t \in Threads : ThreadStep(t)

LoggerSpec == LoggerInit /\ [][LoggerNext]_loggerVars

-----------------------------------------------------------------------------
LoggerTypeOK ==
  /\ minute \in 0..MaxMinutes
  /\ tm \in [Fields -> Nat]
  /\ log_pc \in [Threads -> {"idle", "localtime", "print", "flush", "abort"}]
  /\ seconds \in [Threads -> 0..MaxMinutes]
  /\ timer \in [Threads -> [Fields -> Nat \cup {NoField}]]
  /\ Len(lines) <= MaxStatements /\ reached \in 0..Len(lines)
  /\ g_output \in {"default", "custom"} /\ g_flush \in {"default", "custom"}
  /\ aborted \in BOOLEAN

LengthOf(piece) ==
  IF piece.kind = "digits" THEN Len(piece.digits) + (IF piece.negative THEN 1 ELSE 0)
  ELSE piece.len

RoomFor(piece) == IF piece.kind = "number" THEN kMaxNumberSize ELSE piece.len

(* The number that digits denote, read as decimals are. *)
ReadBack(piece) ==
  LET sign == IF piece.negative THEN -1 ELSE 1
  IN  Number(Fold(LAMBDA n, d : 10 * n + sign * d, 0, piece.digits))
AsStreamed(piece) == IF piece.kind = "digits" THEN ReadBack(piece) ELSE piece

AsRead(b) == [k \in DOMAIN b.data |-> AsStreamed(b.data[k])]

Bytes(data) == Fold(LAMBDA n, p : n + LengthOf(p), 0, data)
Room(all) == Fold(LAMBDA n, p : n + RoomFor(p), 0, all)

(* Matching each piece as early as it can be. *)
IsSubsequence(s, all) ==
  Fold(LAMBDA n, p : IF n < Len(s) /\ s[n + 1] = p THEN n + 1 ELSE n, 0, all) = Len(s)

IsWhole(b, all) ==
  /\ b.size = Bytes(b.data) /\ b.size < kSmallBufferSize
  /\ Last(b.data) = Newline \/ b.size = kSmallBufferSize - 1
  /\ IsSubsequence(AsRead(b), all)
  /\ Room(all) < kSmallBufferSize => AsRead(b) = all

(* Whatever is streamed, a line stays inside its buffer, holds pieces of the
   statement in their order, its numbers read as what was given to <<, the least
   int included, and it ends with the newline unless the buffer is full to its last
   byte but one.  What does not fit is left out piece by piece, so a line may have a
   hole; none is there when the texts and 32 bytes for each number fit together. *)
LinesWhole ==
  LoggerTypeOK /\ \A i \in DOMAIN lines :
                   IsWhole(lines[i].buffer, Pieces(lines[i].statement))

(* The time at the head of a line is that of its own statement, to the minute, as the
   comment of formatTime says.  The code does not keep it: between its localtime and
   its last read of the one struct tm another thread may call localtime. *)
TimeIsOwn ==
  \A t \in Threads : Printed(t) => timer[t] = BrokenDown(seconds[t])

(* When the process has aborted, a FATAL line has left it, with all lines before
   it, provided that output and flush are of the same sink.  A FATAL line of
   another thread may be lost. *)
FatalReaches ==
  aborted /\ g_output = g_flush =>
    \E i \in 1..reached : lines[i].statement.level = "FATAL"
=============================================================================

------------------------------- MODULE LogFile -------------------------------
(***************************************************************************)
(* LogFile over FileUtil: lines are appended to a file through a stdio       *)
(* buffer; the file is rolled when it is too large or the day has changed,   *)
(* which is looked at after every checkEveryN_ lines, and flushed when the   *)
(* last flush is too long ago.  append holds mutex_ and is one step, but the *)
(* clock may advance between the two times it is read.  flush takes no lock: *)
(* AsyncLogging's backend thread, whose local the LogFile is, is the only    *)
(* caller of both.                                                           *)
(***************************************************************************)
EXTENDS Integers

CONSTANTS RollSize,         \* rollsize_
          FlushInterval,    \* flushInterval_
          CheckEveryN,      \* checkEveryN_
          Day,              \* kRollPerSeconds_
          Zone,             \* seconds by which local time is ahead of UTC
          CountAtStart,     \* what count_, never initialised, may hold
          FileLengths,      \* lengths of lines
          MaxTime, MaxWritten, MaxCount     \* bounds on now, written and count

ASSUME LogFileAssumption ==
  /\ RollSize \in Nat /\ FlushInterval \in Nat /\ CheckEveryN \in Nat \ {0}
  /\ Day \in Nat \ {0} /\ Zone \in Nat /\ CountAtStart \subseteq Int
  /\ FileLengths \subseteq Nat /\ MaxTime \in Nat \ {0}

VARIABLES now,              \* what time() returns
          count, startOfPeriod, lastRoll, lastFlush,
          written,          \* writtenBytes_: bytes since the file was opened
          size,             \* bytes in the open file, counted up to RollSize + 1
          oldest,           \* time of the oldest line in the stdio buffer, -1 if none
          lastAppend,       \* time of the last append
          late              \* lines since the day changed that went to the old file

logFileVars == <<now, count, startOfPeriod, lastRoll, lastFlush, written, size,
                 oldest, lastAppend, late>>

None == -1

Period(time) == (time \div Day) * Day

(* getLogFileName: the date is all that tells the names of the files apart. *)
LocalDate(time) == (time + Zone) \div Day

Counted(bytes) == IF bytes > RollSize THEN RollSize + 1 ELSE bytes

LogFileInit ==
  /\ now = 1 /\ count \in CountAtStart
  /\ lastRoll = now /\ lastFlush = now /\ startOfPeriod = Period(now)
  /\ written = 0 /\ size = 0 /\ oldest = None /\ lastAppend = now /\ late = 0

LogFileTick ==
  /\ now < MaxTime /\ now' = now + 1
  /\ UNCHANGED <<count, startOfPeriod, lastRoll, lastFlush, written, size, oldest,
                 lastAppend, late>>

flush ==
  /\ oldest' = None
  /\ UNCHANGED <<now, count, startOfPeriod, lastRoll, lastFlush, written, size,
                 lastAppend, late>>

-----------------------------------------------------------------------------
(* The state of the file during an append, and what rollFile does to it *)
Current ==
  [count |-> count, startOfPeriod |-> startOfPeriod, lastRoll |-> lastRoll,
   lastFlush |-> lastFlush, written |-> written, size |-> size, oldest |-> oldest]

(* FileUtil::append counts the line, or after an error of fwrite none of it. *)
FileAppend(f, counted) ==
  [f EXCEPT !.written = @ + counted, !.size = Counted(@ + counted), !.count = @ + 1,
            !.oldest = IF @ = None THEN now ELSE @]

(* The file is opened under the date of the last roll, to append to it: on the same
   date it is the file that was open, with all its bytes. *)
Reopened(f, time) == IF LocalDate(time) = LocalDate(f.lastRoll) THEN f.size ELSE 0

(* The time is the one getLogFileName reads.  ~FileUtil flushes and closes the old
   file. *)
rollFileOncePerPeriod(f, time) ==                                 \* mutant
  IF Period(time) <= f.startOfPeriod THEN f
  ELSE [f EXCEPT !.lastFlush = time, !.lastRoll = time,
                 !.startOfPeriod = Period(time),
                 !.written = 0, !.size = Reopened(f, time), !.oldest = None]
rollFile(f, time) ==
  IF time <= f.lastRoll THEN f
  ELSE [f EXCEPT !.lastFlush = time, !.lastRoll = time,
                 !.startOfPeriod = Period(time),
                 !.written = 0, !.size = Reopened(f, time), !.oldest = None]

CheckDueLate(f) == f.count > CheckEveryN                          \* mutant
CheckDue(f) == f.count >= CheckEveryN

Rolled(f, time) ==
  IF f.written > RollSize THEN rollFile(f, time)
  ELSE IF CheckDue(f)
       THEN LET g == [f EXCEPT !.count = 0]
            IN  IF Period(now) # f.startOfPeriod THEN rollFile(g, time) ELSE g
       ELSE f

FlushAtCheck(f) ==                                                \* mutant
  IF f.count = 0 /\ now - f.lastFlush > FlushInterval
  THEN [f EXCEPT !.lastFlush = now, !.oldest = None] ELSE f
Flushed(f) ==
  IF now - f.lastFlush > FlushInterval
  THEN [f EXCEPT !.lastFlush = now, !.oldest = None] ELSE f

appendInlock(counted, time) ==
  /\ count < MaxCount /\ written <= MaxWritten
  /\ LET f == Flushed(Rolled(FileAppend(Current, counted), time))
     IN  /\ count' = f.count /\ startOfPeriod' = f.startOfPeriod
         /\ lastRoll' = f.lastRoll /\ lastFlush' = f.lastFlush
         /\ written' = f.written /\ size' = f.size /\ oldest' = f.oldest
         /\ late' = IF f.lastRoll # lastRoll \/ Period(now) = startOfPeriod
                    THEN 0 ELSE late + 1
  /\ lastAppend' = now
  /\ now' = time

LogFileNext ==
  \/ LogFileTick \/ flush
  \/ \E counted \in FileLengths \cup {0}, time \in {now, now + 1} \cap 0..MaxTime :
       appendInlock(counted, time)

LogFileSpec == LogFileInit /\ [][LogFileNext]_logFileVars

-----------------------------------------------------------------------------
LogFileTypeOK ==
  /\ now \in 1..MaxTime /\ lastAppend \in 1..now /\ count \in Int
  /\ startOfPeriod \in Nat /\ lastRoll \in 1..now /\ lastFlush \in 1..now
  /\ startOfPeriod <= lastRoll /\ lastRoll < startOfPeriod + Day
  /\ lastRoll <= lastFlush
  /\ written \in Nat /\ size \in 0..(RollSize + 1) /\ late \in Nat
  /\ oldest \in {None} \cup 1..MaxTime

(* Once append has returned, no line older than flushInterval_ is left in the
   buffer, whether it was flushed, rolled or both, with the clock read twice. *)
FlushLag == oldest # None => lastAppend - oldest <= FlushInterval

(* The bytes counted since the file was opened exceed rollsize_ only in the second of
   the last append: rollFile refuses to roll twice in a second, and the next append
   after it rolls.  This bounds the counter and not the file. *)
CounterBounded == LogFileTypeOK /\ (written > RollSize => lastAppend = lastRoll)

(* "When the file is larger than rollsize_ or a day has passed, a new log file is
   created" (LogFile.h): a file above rollsize_ gets no line after the second in
   which it was opened.  A roll on the same date opens the same file again. *)
SizeBounded == size > RollSize => lastAppend <= lastRoll

(* Fewer than checkEveryN_ lines go to the old file after the day has changed,
   although rolls by size do not reset count_; an uninitialised count_ that is
   negative can put the first check off by as much as that. *)
DayNoticed ==
  late < CheckEveryN \/ \E c \in CountAtStart : late < CheckEveryN - c
=============================================================================

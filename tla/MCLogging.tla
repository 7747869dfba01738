----------------------------- MODULE MCLogging -----------------------------
(* The logging subsystem: AsyncLogging, LogFile and the LOG_* statements.  Nothing in
   the repository connects the statements to AsyncLogging, and what AsyncLogging asks of
   a LogFile is in its own model, so they share no state and are not interleaved: in
   each behaviour one of the three takes steps. *)
EXTENDS AsyncLogging, MCLogFile, MCLogger

VARIABLE part

allVars == <<vars, logFileVars, loggerVars, part>>

LoggingInit ==
  /\ Init /\ LogFileInit /\ LoggerInit
  /\ part \in {"AsyncLogging", "LogFile", "Logger"}
  /\ part # "LogFile" => count = 0

InAsyncLogging(A) == part = "AsyncLogging" /\ A /\ UNCHANGED <<logFileVars, loggerVars, part>>
InLogFile(A) == part = "LogFile" /\ A /\ UNCHANGED <<vars, loggerVars, part>>
InLogger(A) == part = "Logger" /\ A /\ UNCHANGED <<vars, logFileVars, part>>

LoggingNext == InAsyncLogging(Next) \/ InLogFile(LogFileNext) \/ InLogger(LoggerNext)

LoggingSpec ==
  LoggingInit /\ [][LoggingNext]_allVars /\ WF_allVars(InAsyncLogging(threadFunc))
=============================================================================

SPECIFICATION FairSpec
CONSTANTS
  Users = {u1}
  NumMsgs = 2
  MsgLen = 2
  SndBuf = 1
  HighWaterMark = 2
INVARIANTS StreamIntact WritingIffBuffered FinAfterData HighWaterOnce BareThisOnly
PROPERTIES AcceptedIsWritten ShutdownSendsFin
CHECK_DEADLOCK FALSE

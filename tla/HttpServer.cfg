SPECIFICATION FairSpec
CONSTANTS
  NumRequests = 2
  Requests <- MCRequests
INVARIANTS AnswersInOrder ClosesAsTold
PROPERTY ReadAnswersNext
CHECK_DEADLOCK FALSE

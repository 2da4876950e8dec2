\* A scan that has ended stays so.
CHECK_DEADLOCK FALSE
SPECIFICATION Spec
CONSTANTS
  MaxMail = 5
  PageSize = 2
  MaxMessages = 3
  Concurrency = 3
  MaxCalls = 1
INVARIANTS AnswerIsWhole CutIsTold
PROPERTY ScanSettles

CONSTANTS
  N = 4
  WS = 2
  WR = 2
  FileLen = 5
  ChanCap = 3
  MaxAttempt = 1
  NULL = NULL
SPECIFICATION Spec
INVARIANT ReplyNeverCrashesClient

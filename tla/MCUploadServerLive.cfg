CONSTANTS
  N = 5
  WS = 2
  WR = 2
  FileLen = 3
  ChanCap = 2
  MaxAttempt = 1
  NULL = NULL
SPECIFICATION PatientSpec
PROPERTY ServerFinishes

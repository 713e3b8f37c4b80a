CONSTANTS
  N = 4
  WS = 2
  WR = 2
  FileLen = 1
  ChanCap = 2
  MaxAttempt = 1
  NULL = NULL
SPECIFICATION PatientSpec
PROPERTY ClientFinishes

CONSTANTS
  N = 6
  WS = 2
  WR = 2
  FileLen = 4
  ChanCap = 2
  MaxAttempt = 1
  NULL = NULL
SPECIFICATION PatientSpec
PROPERTY DownloadFinishes

CONSTANTS
  MaxCmds = 3
  ChanCap = 3
SPECIFICATION FairSpec
INVARIANTS TypeOK   ReportsAreTrue NoParseExit
PROPERTIES EveryCommandEnds
CHECK_DEADLOCK FALSE

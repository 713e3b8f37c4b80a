CONSTANTS
  Threads = {t1, t2}
  Spell <- MCSpell
  FileLen = 2
  MaxRequests = 3
  MaxStale = 2
SPECIFICATION FairSpec
INVARIANTS TypeOK ListedOnce FileIsListed AnswerIsRight CrashIsExplained FilesNotMixed
PROPERTIES LookupEnds
CHECK_DEADLOCK FALSE

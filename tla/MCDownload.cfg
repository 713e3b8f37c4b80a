CONSTANTS
  N = 6
  WS = 3
  WR = 3
  FileLen = 7
  ChanCap = 2
  MaxAttempt = 1
  NULL = NULL
SPECIFICATION Spec
INVARIANTS TypeOK WrittenInOrder CompleteWhenDone NoPacketMistaken NoAckMistaken AckedIsStored TimersMatchWindow IInv
PROPERTY ImplementsTransfer

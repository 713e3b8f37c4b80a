CONSTANTS
  Clients = {c1, c2, c3}
  PORT = 7
  NoPort = NoPort
  SndTimeout = 3
  RcvTimeout = 10
  Linger = 10
SPECIFICATION FairSpec
INVARIANTS TypeOK BoundInTime CrashHasCause
PROPERTIES ImplementsConnection SndMsgReturns RcvMsgReturns

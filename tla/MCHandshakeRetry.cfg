CONSTANTS
  Clients = {c1, c2}
  PORT = 7
  NoPort = NoPort
  SndTimeout = 3
  RcvTimeout = 10
  Linger = 10
SPECIFICATION Spec
INVARIANTS GivesUpAfterThreeLosses

CONSTANTS
  N = 4
  WS = 2
  Packets = 5
  InitialTimeout = 6
  MinRtt = 4
  Delays = {1, 5}
  MaxTime = 16
  Long = 4096
  Int32 = 64
SPECIFICATION Spec
INVARIANTS TypeOK HeadIsOldest TimeoutIsBounded TimeoutIsPositive T2IsSet SampleIsRoundTrip
CHECK_DEADLOCK FALSE

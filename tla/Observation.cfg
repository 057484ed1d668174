\* A crossover session over a channel that may be late, with failed writes and interrupts.
SPECIFICATION FairSpec
CONSTANTS
  StreamCount = 1
  MaxTicks = 5
  MaxRequests = 5
  Paths <- MCPaths
  Epochless = {4}
  ClockOffsets = {0, 1}
  Strategy = "ema_cross"
  Fast = 1
  Slow = 2
  Warmup = 1
  BufferMax = 3
  MaxSignals = 2
  MaxPolls = 5
INVARIANTS
  TypeOK
  TimestampsIncrease
  SignalsAlternate
  FileMatchesCount
  StoppedForReason
PROPERTY
  SessionEnds
CHECK_DEADLOCK FALSE

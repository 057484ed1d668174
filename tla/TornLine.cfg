\* A write that fails half way takes the next signal with it.
SPECIFICATION Spec
CONSTANTS
  StreamCount = 1
  MaxTicks = 5
  MaxRequests = 5
  Paths <- MCPaths
  Epochless = {}
  ClockOffsets = {0}
  Strategy = "reference_ma"
  Fast = 1
  Slow = 2
  Warmup = 1
  BufferMax = 3
  MaxSignals = 2
  MaxPolls = 4
INVARIANT
  CountedIsLine
CHECK_DEADLOCK FALSE

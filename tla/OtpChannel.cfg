\* Calls of every kind over one socket, with late answers, errors, drops and close().
SPECIFICATION ChannelFairSpec
CONSTANTS
  StreamCount = 2
  MaxTicks = 3
  MaxRequests = 3
INVARIANTS
  ChannelTypeOK
  AnswersMatchCalls
PROPERTIES
  ImplementsReader
  CallsEnd
CHECK_DEADLOCK FALSE

\* Orders on a real account.
SPECIFICATION Spec
CONSTANTS
  Main = Main
  Other = Other
  Placed <- MCPlaced
  MaxOrders = 2
  MaxOrdersBeside = 1
  MaxFaults = 1
  MaxReconnectAttempts = 2
  Stake = 2
  Partial = 1
INVARIANT
  RealNeverTraded
CHECK_DEADLOCK FALSE

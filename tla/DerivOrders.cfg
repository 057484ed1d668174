\* The Deriv adapter over either transport, with two orders, or with one and the
\* monitor in a thread beside it.
SPECIFICATION Spec
CONSTANTS
  Main = Main
  Other = Other
  Placed <- MCPlaced
  MaxOrders = 2
  MaxOrdersBeside = 1
  MaxFaults = 1
  MaxReconnectAttempts = 2
  Stake = 2
  Partial = 1
INVARIANTS
  TypeOK
  PositionIsOpenContracts
  OpenContractsKept
PROPERTIES
  ImplementsOrders
CHECK_DEADLOCK FALSE

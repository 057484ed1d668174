\* The generic broker, the gate, and a small Deriv adapter under fairness.
SPECIFICATION BrokersSpec
CONSTANTS
  MaxDemoOrders = 3
  Qty = 2
  PartQty = 1
  Logins = {"VRTC1", "VRTC2", "CR1"}
  VirtualLogins = {"VRTC1", "VRTC2"}
  AccountLists <- MCAccountLists
  Answers <- MCAnswers
  EnvSpecs <- MCEnvSpecs
  Preferred = {0, 50, 100}
  Main = Main
  Other = Other
  Placed <- MCPlaced
  MaxOrders = 1
  MaxOrdersBeside = 0
  MaxFaults = 1
  MaxReconnectAttempts = 2
  Stake = 2
  Partial = 1
INVARIANTS
  BrokersTypeOK
  PositionIsFills
  OnlyVirtualPasses
  SelectionVerifies
PROPERTIES
  
  OperationsEnd
CHECK_DEADLOCK FALSE

\* A complete record of a screen.
SPECIFICATION ScreeningSpec
CONSTANTS
  Listings <- MCListings
  Limits = {0, 2}
  MaxFailures = 3
  AuthRetries = 2
  OffsetTables <- MCOffsetTables
  Independences = {5, 20}
  Ceiling = 30
  IdentifyBest = 90
  IdentifyRunnerUp = 60
INVARIANT
  CompleteIsScreened
CHECK_DEADLOCK FALSE

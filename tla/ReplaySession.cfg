\* A replayed journal, resumed or not, with crashes and failed saves.
SPECIFICATION Spec
CONSTANTS
  buy = buy
  sell = sell
  named = named
  rebuy = rebuy
  broken = broken
  Contents = {buy, rebuy, sell, named, broken}
  Malformed = {broken}
  Traced = {named}
  KeyFields <- MCKeyFields
  NotFloat = {sell}
  NotFloatPrice = {buy}
  MaxDay = 1
  Replaying = TRUE
  Journals <- MCJournals
  QueueSize = 1
  MaxEmitted = 4
  MinOpportunities = 2
  MinDays = 1
  PersistEvery = 2
  SaveOutcomes = {TRUE, FALSE}
  MaxLaunches = 3
  NoDay = NoDay
  NoRecord = NoRecord
INVARIANTS
  TypeOK
  NoSignalDropped
  IntegrityAccounted
  CrashLosesLessThanABatch
PROPERTIES
  DurableProgressKept
  ImplementsLedger
CHECK_DEADLOCK FALSE

\* A live session is resumed and the bridge numbers its signals from 1 again.
SPECIFICATION Spec
CONSTANTS
  buy = buy
  sell = sell
  named = named
  rebuy = rebuy
  broken = broken
  Contents = {buy, sell}
  Malformed = {}
  Traced = {}
  KeyFields <- MCKeyFields
  NotFloat = {sell}
  NotFloatPrice = {buy}
  MaxDay = 1
  Replaying = FALSE
  Journals = {}
  QueueSize = 2
  MaxEmitted = 3
  MinOpportunities = 2
  MinDays = 1
  PersistEvery = 2
  SaveOutcomes = {TRUE, FALSE}
  MaxLaunches = 2
  NoDay = NoDay
  NoRecord = NoRecord
INVARIANT NoSignalDropped
CHECK_DEADLOCK FALSE

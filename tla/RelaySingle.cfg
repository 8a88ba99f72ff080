CONSTANTS
  Messages = {reminder1, reminder2, reminder3}
  Sms = {reminder1, reminder2, reminder3}
  Critical = {}
  LongKey = {}
  Relays = {w1}
  BatchSize = 2
  MaxAttempts = 2
  Cap = 1
  LastMonth = 1
  MaxCrashes = 1
  MaxRefused = 0
  None = None
SPECIFICATION FairSpec
CHECK_DEADLOCK FALSE
INVARIANTS
  OneCapAlertPerMonth
  BudgetIsBounded
PROPERTIES
  EveryMessageSettles

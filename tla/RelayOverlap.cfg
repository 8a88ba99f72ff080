CONSTANTS
  Messages = {alarm, reminder1, reminder2, mail}
  Sms = {alarm, reminder1, reminder2}
  Critical = {alarm}
  LongKey = {mail}
  Relays = {w1, w2}
  BatchSize = 2
  MaxAttempts = 2
  Cap = 0
  LastMonth = 0
  MaxCrashes = 2
  MaxRefused = 1
  None = None
SPECIFICATION Spec
SYMMETRY RelaySymmetry
CHECK_DEADLOCK FALSE
INVARIANTS
  TypeOK
  DuplicatesAreExplained
  DropsAreAnnounced
  CapAlertsBounded
PROPERTIES
  KeepsPromise

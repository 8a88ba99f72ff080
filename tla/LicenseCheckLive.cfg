CONSTANTS
  Drivers = {d1, l1}
  Legacy = {l1}
  Requests = {r1, r2}
  Kinds = {"FAILED", "PASSED", "ANONYMIZE"}
  Dates = {1, 2}
  Addresses = {mail}
  WindowDays = 0
  MaxDay = 2
  None = None
SPECIFICATION FairSpec
PROPERTIES
  EveryRequestEnds
  LateCaseCloses
  KeepsContract
  KeepsChain

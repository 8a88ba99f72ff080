CONSTANTS
  Vehicles = {v1}
  Requests = {r1, r2, r3}
  Forms = {1, 2}
  r1 = r1
  r2 = r2
  r3 = r3
  None = None
SPECIFICATION MCSpec
INVARIANTS
  TypeOK
  BothKindsAreWatched
  ChecksAreFollowedUp
  OnlyEvidenceEndsIt
  ForksNeedOverlap
  WaitsGoForward
PROPERTIES
  EveryCheckEnds
  KeepsChain

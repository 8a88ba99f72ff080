CONSTANTS
  Drivers = {d1, l1}
  Legacy = {l1}
  Requests = {r1, r2, r3}
  Kinds = {"FAILED", "PASSED", "ANONYMIZE"}
  Dates = {y1, y2}
  Addresses = {mail}
  WindowDays = 0
  MaxDay = 1
  None = None
SPECIFICATION Spec
SYMMETRY RequestAndDateSymmetry
INVARIANTS
  TypeOK
  OpenCaseMeansLocked
  FoundIsCurrent
  DeadlineNeverLapses
  ForksNeedOverlap
  OnlyE6Deadlocks
PROPERTIES
  FailedEvidenceLocks
  ResolvedIsFinal
  NoticeOnlyWhileOpen

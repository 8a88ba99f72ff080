CONSTANTS
  Drivers = {d1}
  Legacy = {}
  Requests = {r1, r2, r3}
  Kinds = {"PASSED"}
  Dates = {1, 2}
  Addresses = {mail}
  WindowDays = 0
  MaxDay = 0
  None = None
SPECIFICATION Spec
SYMMETRY RequestSymmetry
INVARIANTS
  ChainNeverForks

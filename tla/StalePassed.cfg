CONSTANTS
  Drivers = {d1}
  Legacy = {}
  Requests = {r1, r2}
  Kinds = {"FAILED", "PASSED"}
  Dates = {1}
  Addresses = {mail}
  WindowDays = 0
  MaxDay = 0
  None = None
SPECIFICATION Spec
SYMMETRY RequestSymmetry
PROPERTIES
  PassedClears

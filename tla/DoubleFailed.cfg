CONSTANTS
  Drivers = {d1}
  Legacy = {}
  Requests = {r1, r2}
  Kinds = {"FAILED"}
  Dates = {1, 2}
  Addresses = {mail}
  WindowDays = 0
  MaxDay = 0
  None = None
SPECIFICATION Spec
SYMMETRY RequestSymmetry
INVARIANTS
  NoExceptionEscapes

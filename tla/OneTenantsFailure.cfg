CONSTANTS
  Firms = {f1, f2}
  Guests = {}
  Requests = {r1}
  MaxFails = 2
  EarlierFails = 1
  Lasting = {f1, f2, r1}
  MaxCrashes = 0
  None = None
SPECIFICATION Spec
PROPERTY
  ErasureIsKept

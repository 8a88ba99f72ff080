CONSTANTS
  Firms = {f}
  Guests = {g}
  Requests = {r1}
  MaxFails = 2
  EarlierFails = 1
  Lasting = {r1}
  MaxCrashes = 0
  None = None
SPECIFICATION Spec
INVARIANT
  AcceptedIsLoggedIn

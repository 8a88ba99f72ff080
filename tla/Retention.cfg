CONSTANTS
  Firms = {f}
  Guests = {g}
  Requests = {r1, r2}
  MaxFails = 2
  EarlierFails = 1
  Lasting = {f, r1, r2}
  MaxCrashes = 1
  None = None
SPECIFICATION FairSpec
INVARIANTS
  TypeOK
  OneAccountPerInvitation
  LockIsEarned
  DeletionIsThorough
PROPERTIES
  RevokedStaysRevoked
  ActsForActiveAccount
  DeletionCompletes

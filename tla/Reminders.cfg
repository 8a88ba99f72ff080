CONSTANTS
  hu = hu
  uvv = uvv
  fsk = fsk
  Subjects = {hu, uvv, fsk}
  Kind <- KindOf
  HuInterval = 24
  Anchor <- AnchorOf
  Performed <- Checked
  Addresses = {owner}
  FirstDay <- Christmas
  Horizon = 11
  MaxMissed = 1
  MaxChecks = 2
SPECIFICATION Spec
CHECK_DEADLOCK FALSE
INVARIANTS
  TypeOK
  OneReminderPerNotch
  UrgencyGrows
  RemindedWhenSwept

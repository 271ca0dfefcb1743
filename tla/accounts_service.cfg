SPECIFICATION FairSpec
CONSTANTS
  Holders = {alice}
  AccountIds = {a1, a2}
  LedgerIds = {l1, l2, l3}
  HouseIds = {h1, h2}
  HouseKinds = {house_usd}
  MaxQueue = 2
  MaxFaults = 1
INVARIANT
  HouseAccountsOwnLedgers
PROPERTY
  ApprovalHappens

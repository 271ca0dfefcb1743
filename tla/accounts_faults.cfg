SPECIFICATION Spec
CONSTANTS
  Holders = {alice, bob}
  AccountIds = {a1, a2, a3}
  LedgerIds = {l1, l2, l3}
  HouseIds = {}
  HouseKinds = {}
  MaxQueue = 2
  MaxFaults = 2
SYMMETRY AccountUuids
INVARIANTS
  TypeOK
  ApprovedLedgerExists
  ViewIsPast
  OneViewPerHolder
  DuplicatesNeedFaults

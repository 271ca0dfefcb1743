SPECIFICATION ServiceSpec
CONSTANTS
  TenantIds = {1, 2}
  Issuers = {i1, i2}
  Requests = {q1}
  Secrets = {s1, s2}
  MaxFaults = 1
  One = 100000
  Amounts <- DepositAmounts
  AccountCurrency = "TWD"
  Limit = 1
  MaxTransactions = 2
SYMMETRY Runs
INVARIANTS
  ServiceTypeOK
  IssuedTokensAreKnown
  ActiveTenantsHoldTheirToken
  HandedOutTokensStay
  NothingIsSkipped
  AmountsAgree

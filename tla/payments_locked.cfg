SPECIFICATION Spec
CONSTANTS
  acct = acct
  other = other
  waiting = waiting
  r1 = r1
  r2 = r2
  usd = usd
  twd = twd
  Ledgers = {acct}
  TxId = {1, 2}
  Processor = processor
  Runs = {r1, r2}
  Currencies = {usd}
  HouseCurrencies = {usd}
  AccountView <- OneAccount
  Amounts <- SignedAmounts
  BatchLimit = 100
  MaxQueue = 1
  MaxFaults = 1
  RunsOutliveLock = FALSE
SYMMETRY TwoRuns
PROPERTIES
  PromiseKept
INVARIANTS
  LockExclusion
  ValidatedFundsRemain

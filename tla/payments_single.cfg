SPECIFICATION Spec
CONSTANTS
  acct = acct
  other = other
  waiting = waiting
  r1 = r1
  r2 = r2
  usd = usd
  twd = twd
  Ledgers = {acct, other, waiting}
  TxId = {1, 2}
  Processor = processor
  Runs = {r1}
  Currencies = {usd, twd}
  HouseCurrencies = {usd}
  AccountView <- ThreeAccounts
  Amounts <- SignedAmounts
  BatchLimit = 100
  MaxQueue = 2
  MaxFaults = 2
  RunsOutliveLock = FALSE
INVARIANTS
  MovementIsRecorded
  LedgerMatchesJournal
PROPERTY
  NoLateSettlement

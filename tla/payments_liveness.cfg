SPECIFICATION FairSpec
CONSTANTS
  acct = acct
  other = other
  waiting = waiting
  r1 = r1
  r2 = r2
  usd = usd
  twd = twd
  Ledgers = {acct}
  TxId = {1, 2}
  Processor = processor
  Runs = {r1, r2}
  Currencies = {usd}
  HouseCurrencies = {usd}
  AccountView <- OneAccount
  Amounts = {1}
  BatchLimit = 1
  MaxQueue = 1
  MaxFaults = 1
  RunsOutliveLock = FALSE
PROPERTIES
  EveryTransactionCompletes

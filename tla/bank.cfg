SPECIFICATION BankSpec
CONSTANTS
  usd = usd
  twd = twd
  alice = alice
  bob = bob
  house_usd = house_usd
  house_twd = house_twd
  Holders = {alice, bob}
  AccountIds = {a1, a2}
  LedgerIds = {l1, l2, l3}
  HouseIds = {h1}
  HouseKinds = {house_usd, house_twd}
  MaxQueue = 1
  MaxFaults = 1
  Currencies = {usd, twd}
  CurrencyOf <- HolderCurrency
  HouseKindOf <- HouseKindFor
  TxId = {1, 2}
SYMMETRY BankUuids
INVARIANTS
  BankTypeOK
  RecordedOnOwnLedgers
  OneLedgerPerTransaction
  CurrenciesNeverMix
  CheckedLedgerIsDebited
  NoPaymentTwice
  ApprovedLedgerIsFound
  ListedBalanceIsOwn
PROPERTIES
  AccountsKept
  BankKeepsPromise

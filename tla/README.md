# Bankie in TLA+

TLA+ specifications of Bankie, a double-entry ledger over event sourcing
(Rust, `cqrs-es` on Postgres, Redis, tokio), with the TLC configurations that
check them and TLAPS proofs of the theorems that hold for every instance.

| File | What it is |
| --- | --- |
| `LedgerAggregate.tla` | the ledger as a pure function: command to events, events to balance |
| `LedgerStore.tla` | how a ledger command is executed: load, commit, dispatch to the view, with other callers in between |
| `Payments.tla` | deposits and withdrawals: channel, processor, transactions, outbox, job runs, Redis lock |
| `PaymentPromise.tla` | what `Payments` promises, with no queue, lock or job in it |
| `PaymentsProofs.tla` | the inductive invariant of `Payments`, the theorems from it, and that `Payments` implements `PaymentPromise` |
| `PaymentsRaces.tla` | what concurrent writers of a ledger cannot do to each other: three more theorems about `Payments` |
| `PaymentsBalance.tla` | what can be counted: how often a transaction is settled, and what a ledger's events add up to |
| `FoldLemmas.tla` | lemmas about folds over a log and sums over a set |
| `Accounts.tla` | opening and approving accounts, house accounts |
| `AccountsProofs.tla` | the inductive invariant of `Accounts` and the theorems from it |
| `Bank.tla` | accounts and payments behind one processor: who is paid, in which currency; what readers of accounts find |
| `BankProofs.tla` | `Bank` implements `Accounts` and `PaymentPromise`; its inductive invariant and the theorems from it |
| `Money.tla` | amounts: precision, addition, and what columns and display keep of them |
| `Statement.tla`, `StatementProofs.tla` | the list of transactions, page by page, and the amounts in it; proofs |
| `Tenants.tla` | issue of tokens and `authorize` |
| `Service.tla`, `ServiceProofs.tla` | the list behind `authorize`; proofs about `Tenants` and `Service` |
| `*MC.tla`, `*.cfg` | the instances TLC checks |
| `PROJECT.json` | components, hazards, runs, mutants, theorems, and the source lines of each definition |

## 1. The system

One process, started in server mode, holds everything that moves:

```
HTTP handlers --unbounded mpsc--> processor task --> bank_account_events / _views
     |                              |         \---> transactions + journal + outbox
     | house accounts               | Init, DebitHold
     v                              v
  ledger_events / ledger_views <---- outbox job runs (cron, every 10 s) ---> Redis outbox_lock
```

| Component | State it keeps | Operations | What makes it correct |
| --- | --- | --- | --- |
| Ledger aggregate (`event_sourcing/aggregate/ledger.rs`, `query.rs`) | balance, from events | `Init`, `DebitHold`, `DebitRelease`, `Credit`; `apply`; `LedgerView::update` | events and balance agree |
| Event store and view (`configs.rs`, cqrs-es, postgres-es) | `ledger_events`, `ledger_views` | `execute` | no two calls decide on the same state; the view follows the events |
| Channel and processor (`main.rs`, `route.rs`) | commands in memory, the command at work | submit, receive, one at a time | in order, one at a time |
| Deposits and withdrawals (`bank_account.rs`, `helper.rs`, `service.rs`, `postgres.rs`) | `transactions`, `journal_entries`, `journal_lines`, `outbox` | validate, record, hold | no movement without a record; no hold twice; funds seen at the check are still there at the hold |
| Outbox job (`job.rs`) | rows read, row at work | fetch, process, complete | each transaction settled, once; completed only when settled |
| Redis lock (`repository/redis.rs`) | `outbox_lock` and its expiry | SETNX, EXPIRE, GET, DEL | one run at work; the lock comes free |
| Account lifecycle (`bank_account.rs`) | `bank_account_events`, `bank_account_views` | open, approve | an approved account has its ledger; one account per holder |
| House accounts (`route.rs`, `postgres.rs`) | `house_accounts` | create, get | one per kind, with a ledger of its own |
| Money (`common/money.rs`, column scales) | none | arithmetic, rounding by columns | the same amount everywhere; never two currencies in one sum |
| Tenants, authorization (`auth/`, `domain/tenant.rs`) | `tenants` | issue a token, authorize | an active tenant has its token; a token that decodes is known |
| Queries (`route.rs`, `postgres.rs`) | none of their own | account, ledger, user's accounts, transactions, house accounts | no balance of another's; no transaction skipped |
| Settings, migrations, identifiers | none of their own | wiring | |

How the parts interact decides what is hard here:

- **The answer comes first.** The handler answers when the command is on the
  channel. The channel is in memory; a crash loses it.
- **Two writers of one ledger.** The processor (holds) and the job runs
  (credits, releases) execute commands on the same ledger in tasks of their
  own. The primary key of `ledger_events` refuses the second of two commits
  that loaded the same sequence; the view has no such protection, it is loaded,
  changed in memory and written back whole.
- **Several database transactions per payment.** Record; hold; settlement;
  completion. A crash, failed call or another run can come between any two.
- **Overlapping job runs.** Cron starts a run every ten seconds whether or not
  the last has ended. The rows are read before the lock is asked for, and the
  lock is four Redis commands, not two atomic operations.
- **Reads that decide.** Funds, status and uniqueness are checked on views,
  which may lag behind the events or miss some for good.
- **Two places that name a ledger.** The row of an account and its events each
  have one: `validate` looks at the row, the booking is on that of the events.
  A second approval or a lost row lets them differ.

`PROJECT.json` lists each of these as a hazard, at its line, with the
properties that are about it.

## 2. The models and the code

### LedgerAggregate and LedgerStore

`Handle` is `Ledger::handle` for the commands on an existing ledger; a `Credit`
produces two events that are committed together. `Update` is
`LedgerView::update`; `Ledger::apply` does the same to the two balances, so
`Replay` (the fold of `Update`) is what loading the aggregate gives: the true
balance, of which the view is a copy.

`LedgerStore` is `CqrsFramework::execute` as the code uses it, a few steps for
each caller: `Execute` (load, and remember the sequence), `Commit` or
`OptimisticLockError`, `LoadView`, `UpdateView`; `StoreFails` and
`DispatchFails` are a database that refuses. cqrs-es and postgres-es are not
in the repository: their steps are modelled from how the code relies on them
and are marked external in `PROJECT.json`.

### Payments

| Variable | Code |
| --- | --- |
| `command_queue` | the `mpsc` channel |
| `processor` | where `process_commands` is: `validate`, `record`, `hold`, `holding` |
| `transactions` | table `transactions`, with the journal that is written with each row |
| `outbox` | the row of each transaction: none, pending, processed |
| `runs` | each run of `create_ledger_job`: rows read, row at work, how far |
| `lock`, `lock_expires` | the key `outbox_lock`, its value and whether EXPIRE has been done |
| `ledger_events`, `ledger_views`, `exec` | from `LedgerStore` |

`ReceiveCommand` includes the lookup of the house account, whose failure ends
the command. `RecordTransaction` is the one database transaction that writes
transaction, journal and outbox row. `CallDebitHold` comes after it and is
another; whatever it returns, `process_commands` logs it and goes on. A run
does `Fetch`, then `SetLock` and `SetExpiry` (or `LockHeld`, where `None` is
unwrapped and the run is over), then `ProcessEvent` and `CompleteTransaction`
for each row in order of creation, then `CheckLock` and `DeleteLock`.
`LockExpires` is Redis. `RecordFails`, `StoreFails`, `DispatchFails`,
`CompleteFails`, `RedisFails` and `Crash` are the faults; `Crash` loses what is
in memory and keeps the tables and the key.

An account and its ledger share a name, and ids are numbers in order of
creation, which stand for the uuid and for `created_at`.

### Accounts

The same processor with `OpenAccount` and `ApproveAccount`, and the HTTP
handlers that create house accounts. Each database transaction is a step:
`CommitOpened`, `Dispatch`; `FindAccount`, `InitLedger`, `CreateLedgerView`,
`CommitApproved`, `Dispatch`; `InitHouseLedger`, `CreateHouseLedgerView`,
`CreateHouseAccount`. The processor alone writes an account's events and row,
which is why loading them is not a step of its own here. A payment to an id
without events ends the processor (`PaymentPanics`: the `unwrap` in
`helper.rs:66`), and from then on `SubmitRefused` is the answer to everything.

### Bank

`Payments` fixes the accounts and looks at balances. `Bank` EXTENDS `Accounts`
and replaces its payments, which end without effect there, by their steps:
`TakePayment`, `FindHouseAccount`, `ValidatePayment` (or `UnknownAccount`, the
panic), `RecordTransaction`, `HoldMoney`, and `PaymentFails` at any of them; the
job is `Settle` and `Complete`. Balances, the lock and races on one ledger are
left to `Payments`: the funds check may go either way and a run may take any
unprocessed row at any time, as often as it likes.

| Variable | Code |
| --- | --- |
| `ledger_currency` | the currency of the amount in each `LedgerInitiated` |
| `payment` | what the processor has found out: house ledger, ledger whose funds were checked, transaction |
| `transactions` | transaction, journal lines and outbox payload, with the ledgers moved for it |
| `accepted` | how many payments the channel accepted for each account (counted to the number of transaction ids) |

`AggregateLedger` is the ledger of `BankAccount::apply`, that of the last
approval; `checked` is the ledger of the row. `Referenced` is the foreign key of
`journal_lines`, and it matters: `validate` lets a payment pass, in any
currency, when the account has no row. `ReadAccount`, `ReadLedger` and
`UserAccounts` are the queries, the last a left join on the ledger's row.

### Money and Statement

A `Decimal` is an integer in units of 1/`One`. `TransactionColumn` and
`JournalColumn` round like `decimal(19,2)` and `decimal(19,4)`; `CutOff` and
`Rounded` are the two ways a `Decimal` is shown at a currency's precision, and
the list may use either. (`Money::new` says "with precision", but changes no
digit: amounts keep all they have.) In `Statement` a deposit is recorded with
what each table keeps of its amount, the job credits the ledger by the payload,
and a client reads the list page by page, by OFFSET and LIMIT in descending
order of `created_at`, while rows are added and completed.

### Tenants and Service

An issuer is a run of the program in mode `jwt`: `CreateTenantProfile` inserts
an inactive tenant, `UpdateTenantProfile` stores the token and activates it,
`PrintToken` is the return to `main`. A request is `authorize`: `DecodeToken`,
`LookUpTenant` or `LookUpFails`, then `HandlerReturns`, the router behind it.
Signatures are the library's: a token decodes if it was signed with the key the
server has now and is younger than a year. `Restart` may bring another key. The
two panics on a header that is no bearer token are one answer, "malformed".

`Service` composes the two: a page is read only by a request that was admitted,
any request may be refused, and a restart drops the ones under way.

### PaymentPromise

Four sets: recorded, held, settled, completed. A transaction enters them in the
order recorded, settled, completed, `held` at any time after recorded; no set
ever shrinks and a step changes one. `PromiseKept` is its specification with
the sets computed from the tables and ledger events of `Payments`,
`BankKeepsPromise` with those of `Bank`.

## 3. The runs

Each property of a passing run also has a mutant in `PROJECT.json`: a plausible
bug, put into one definition, that makes TLC find the property violated under
the same configuration.

| Run | Instance | Properties | States |
| --- | --- | --- | --- |
| `payments_faults` | 1 account, 2 transactions, 2 runs that may outlive the lock, 1 fault | `TypeOK`, `CompletedWasApplied`, `MovementIsRecorded`, `HoldAtMostOnce`, `ReplayBound`, `LedgerAddsUp`, `DecidedOnLatest` | 1.95 M |
| `payments_locked` | 1 account, 2 transactions of amounts -1 and 1, 2 runs that do not outlive the lock, 1 fault | `LockExclusion`, `ValidatedFundsRemain`, `PromiseKept` | 1.16 M |
| `payments_single` | 3 accounts (one pending, one of another currency), 2 currencies of which one has a house account, 2 transactions of amounts -1 and 1, 1 run, 2 faults | `MovementIsRecorded`, `LedgerMatchesJournal`, `NoLateSettlement` | 432 k |
| `payments_liveness` | 2 transactions, 2 runs, a batch of one, 1 fault, fairness | `EveryTransactionCompletes` | 82 k |
| `accounts_faults` | 3 accounts, 2 holders, 3 ledgers, 2 faults | `TypeOK`, `ApprovedLedgerExists`, `ViewIsPast`, `OneViewPerHolder`, `DuplicatesNeedFaults` | 245 k |
| `accounts_service` | 2 accounts, 2 house requests of one kind, 3 ledgers, 1 fault, fairness | `HouseAccountsOwnLedgers`, `ApprovalHappens` | 580 k |
| `bank` | 2 accounts and holders, 2 currencies, 3 ledgers, 1 house request, 2 transactions, 1 fault | `BankTypeOK`, `RecordedOnOwnLedgers`, `OneLedgerPerTransaction`, `CurrenciesNeverMix`, `CheckedLedgerIsDebited`, `NoPaymentTwice`, `ApprovedLedgerIsFound`, `ListedBalanceIsOwn`, `AccountsKept`, `BankKeepsPromise` | 1.55 M |
| `service` | 2 tenants, 2 issuers, 2 keys, 1 request at a time, 1 fault; 2 transactions of 1, 0.505 and -0.505, pages of one | `ServiceTypeOK`, `IssuedTokensAreKnown`, `ActiveTenantsHoldTheirToken`, `HandedOutTokensStay`, `NothingIsSkipped`, `AmountsAgree` | 1.49 M |

Why these bounds are enough. What goes wrong between concurrent writers needs
two of them on one ledger: a processor and a run, or two runs; two transactions
let one be at work while the other is validated, recorded or completed. One
fault falls at every step there is; the second, in `accounts_faults` and
`payments_single`, falls on the recovery from the first. Amounts of either sign
in `payments_locked` and `payments_single` are there because no code checks the
sign. They matter to `ValidatedFundsRemain`: without its premise on the ledger's
amounts the invariant is violated in the same run, by a negative deposit that the
job credits between a withdrawal's check and its hold, and by a copy of the view
from before a negative hold that the job writes back. Nothing in the repository
says that an amount is positive, so this is a premise here and no finding. A
batch of one in `payments_liveness` makes the limit matter, which in the code
is 100. Three accounts of two holders give a holder
with a lost row, a second try and a bystander. Three ledgers in `bank` are one
for the house and two for approvals, so that an account can be approved twice,
or each of two accounts once, and two currencies of which one has a house
account. In `service` a second issuer may overtake the first or follow one that
died, and two transactions on pages of one let a row arrive or change between
two pages. `MaxQueue` is small as the order of commands is free anyway: what is
submitted, and when, is any choice. Names are symmetric where a configuration
says `SYMMETRY`; no run with fairness uses it.

No run switches deadlock checking off: a handler can always submit, cron can
always start a run, and a dead processor still answers.

### Runs that find a violation

These state what a comment or a constant of the source says of the program, and
TLC shows a behaviour of the code without it.

- `unheld_withdrawal`: the rows of a withdrawal are committed, its hold loses
  to a commit of the job on the same ledger, the error is logged, and the job
  releases and completes the withdrawal. The money was never held.
- `stale_view`: processor and job load the same row of `ledger_views`; the later
  write undoes the earlier, and nothing repairs the view.
- `settled_twice`: a second run reads the outbox while the first is at work,
  asks for the lock only then, gets it when the first is
  done, and executes the same rows.
- `stuck_lock`: a run dies between SETNX and EXPIRE. The key has no expiry, and
  no run gets the lock again.

The properties that pass say how far this goes: even then no withdrawal is
held twice (`HoldAtMostOnce`), a transaction is settled at most once for each
run and fault (`ReplayBound`), never after completion when runs do not overlap
(`NoLateSettlement`), none is completed that was not settled
(`CompletedWasApplied`), and but for what was settled again every ledger adds up,
lost holds and stale views notwithstanding (`LedgerAddsUp`).

### Fairness

`Payments`: weak fairness of the processor, of each run's start and of each
run's steps, as tokio polls every task that can go on, the database answers or
fails, and cron keeps ticking; weak fairness of the expiry of a key whose run
is gone, as Redis does so at LOCK_TIMEOUT. No client has to submit anything,
and nothing is assumed about who wins a race. `Accounts`: weak fairness of the
processor. Faults are never fair: any number up to the bound happens, or none.

## 4. The theorems

The assumptions are the named `ASSUME`s next to the constants: transaction ids
are positive numbers (in `Bank` finitely many, where `accepted` counts up to
their number), the processor is not a run, house currencies are
currencies, accounts and house accounts have different ids, each holder has a
currency and each currency a kind of house account, a decimal has at least four
digits behind the point, and nothing has the name that stands for its absence.

| Theorem | Says |
| --- | --- |
| `Invariant` | `Spec => []IInv` |
| `TypeCorrect` | `[]TypeOK` |
| `CompletedWasAppliedAlways` | `[]CompletedWasApplied` |
| `MovementIsRecordedAlways` | `[]MovementIsRecorded` |
| `HoldAtMostOnceAlways` | `[]HoldAtMostOnce` |
| `LockExclusionAlways` | `[]LockExclusion`, if no run outlives LOCK_TIMEOUT |
| `DecidedOnLatestAlways` | `[]DecidedOnLatest` |
| `ValidatedFundsRemainAlways` | `[]ValidatedFundsRemain`, if no run outlives LOCK_TIMEOUT; for amounts of either sign |
| `NoLateSettlementAlways` | `NoLateSettlement`, if there is one run at a time |
| `PromiseKeptAlways` | `Payments` implements `PaymentPromise` |
| `SettledInvariant`, `ReplayBoundAlways` | `[](IInv /\ SettledInv)` and `[]ReplayBound`, if the runs are finite in number |
| `LedgerAddsUpAlways` | `[]LedgerAddsUp` |
| `LedgerMatchesJournalAlways` | `[]LedgerMatchesJournal`, if there is one run at a time |
| `AccountsInvariant`, `AccountsTypeCorrect` | `[]AInv` and `[]TypeOK` of `Accounts` |
| `ApprovedLedgerExistsAlways` | `[]ApprovedLedgerExists` |
| `OneViewPerHolderAlways` | `[]OneViewPerHolder` |
| `HouseAccountsOwnLedgersAlways` | `[]HouseAccountsOwnLedgers` |
| `AccountsHistoryInvariant` | `[]HistoryInv` |
| `ViewIsPastAlways` | `[]ViewIsPast` |
| `DuplicatesNeedFaultsAlways` | `[]DuplicatesNeedFaults` |
| `AccountsKeptAlways`, `BankKeepsPromiseAlways` | `Bank` implements `Accounts` and `PaymentPromise` |
| `BankInvariant`, `BankTypeCorrect` | `[]BInv` and `[]BankTypeOK` |
| `RecordedOnOwnLedgersAlways` | `[]RecordedOnOwnLedgers` |
| `OneLedgerPerTransactionAlways` | `[]OneLedgerPerTransaction` |
| `CurrenciesNeverMixAlways` | `[]CurrenciesNeverMix` |
| `CheckedLedgerIsDebitedAlways` | `[]CheckedLedgerIsDebited` |
| `ApprovedLedgerIsFoundAlways` | `[]ApprovedLedgerIsFound` |
| `ListedBalanceIsOwnAlways` | `[]ListedBalanceIsOwn` |
| `NoPaymentTwiceAlways` | `[]NoPaymentTwice` |
| `TenantsInvariant`, `TenantsTypeCorrect` | `[]TInv` and `[]TypeOK` of `Tenants` |
| `IssuedTokensAreKnownAlways`, `ActiveTenantsHoldTheirTokenAlways`, `HandedOutTokensStayAlways` | the three invariants of `Tenants` |
| `StatementInvariant`, `NothingIsSkippedAlways` | `[]NInv` and `[]NothingIsSkipped` |
| `AmountsAgreeAlways` | `[]AmountsAgree`, for any amounts and any scale |
| `ServiceImplementsTenants`, `ServiceImplementsStatement` | `Service` implements both |
| `ServiceTypeCorrect`, `ServiceKnowsItsTokens`, `ServiceSkipsNothing` | the type invariant and two of the others, of `Service` |

Those up to `LedgerMatchesJournalAlways` are about `Payments`, for
every set of ledgers, transactions and runs, any integer amounts, any batch
limit, queue bound and number of faults, and both values of `RunsOutliveLock`
unless said otherwise. The others are just as general: any holders, accounts,
currencies, ledgers, house accounts, tenants, runs, keys and page size.

**The inductive invariants.** In `Payments`, none of the properties is inductive
by itself. `CompletedWasApplied` is kept by `CompleteTransaction` only because a call that
returned Ok has its settlement on the ledger; `HoldAtMostOnce` is kept by a
commit only because the processor's call finds no hold for its transaction and
no run ever holds; `MovementIsRecorded` is kept only because each call under
way is for a recorded transaction. `IInv` says so:

- `Books`: outbox row and transaction agree, recorded transactions are of
  approved accounts in their currency, processed ones are settled, and each
  movement has its record. The last must be there because an id that is handed
  out anew must have no movements yet.
- `ProcessorInv`: how far the processor is and what its withdrawal has on the
  ledger: no hold before the call has committed one, and the call is the hold
  of that transaction.
- `RunInv(r)`: rows read are recorded; a run is in a call exactly while it
  executes its event; past the commit, that event is settled.

The proof has one lemma per action, and under each one step per part of `IInv`
it can disturb. `CommitMovements` is where ledgers change: what a commit adds to
the holds and settlements of each transaction. `LockExclusion` has an invariant
of its own, `LockInv`: while no run outlives the lock, a run past SETNX and not
yet past DEL has the key under its name. The refinement has a lemma for each of
the four kinds of step the promise knows; everything else is a stutter because
it changes neither events nor transactions.

`PaymentsRaces` rests on one case split, `NextOnStore`: a step is a commit, a load
or a write of a view by one caller, or log and views stay and no call past its
commit moves. `StoredInv` puts each call's events behind the version it loaded
and inside the log, where an append by another call leaves them. `CopiesInv`
is why the check of a withdrawal outlives the views' lost updates: the
processor's copy of a row is never above the row, the working run's never below
it. A run that writes an old copy back undoes the processor's hold, which raises
`available`; the processor undoes a run's credit, which it can only do while
its own call is under way and nothing is checked. `CopiesInv` speaks of the
ledgers in `WithoutNegatives`, those that no negative amount was recorded for.
That set only shrinks (`NegativesStay`), so what holds of a ledger in it has held
all along, and the constants need no assumption on the amounts. One assumption
is left, that one run at a time is in a call, which the code does not see to:
the lock expires after a fixed time, and a run that outlives it may write back a
copy from before another run's credit. `FreshInv`, for one
run at a time, keeps the rows in the run's hand unprocessed.

`PaymentsBalance` counts. `ReplayBound` says nothing of the settlements still to
come, so `SettledInv` counts those too: `MaySettle(t)` is the runs that can yet
settle `t`, because the row is unprocessed or in their batch, without those
whose settlement is on the ledger and that have only its completion before them.
A settlement takes its run out of that set (`CommitSettles`,
`SettlingCommit`); no step but a fault puts one in (`MaySettleShrinks`); and a
fault adds at most all runs, as much as it adds to the bound.
`BalanceInv` is `LedgerAddsUp` with the sums over finite sets. A commit appends
the events of one command to one ledger; `ReplayCommand` is what they do to the
replay, `CommitSets` which sum the transaction adds to, and the two are the same
amount: a withdrawal enters the held, where it was not before, as the
processor's call finds no hold; a settlement is one more of its transaction
(`MovedMore`, `SumChange`). A transaction is recorded before anything of it is
on a ledger (`NewlyRecorded`), so it adds nothing when it enters a sum, and it
keeps its amount (`AmountsStay`), so every step without a commit leaves the sums
alone. `LedgerMatchesJournal` is the two together: one run and no fault make
`ReplayBound` say once, and at rest everything recorded is settled.

`FoldLemmas` is where induction over data happens. The provers cannot instantiate
an induction theorem that has an operator as parameter, but a set of numbers that
has 0 and with each number the next has every number, and that is one fact about
sets. From it: the function that a fold of the community modules chooses exists
(`FoldingExists`), and what any such function gives is what the
steps, taken one by one, give (`FoldingPrefix`). `SumAdd`, `SumAgree` and
`SumChange` say of a sum over a set that it grows by what is added and depends
on its elements only; `ReplayAppend` and the lemmas behind `ViewIsPast` say that
one more event is one more update.

In `Accounts`, `AInv` adds to the properties what makes them last.
`ProcessorInv`: from the check of a holder until the row is written there is no
row of that holder, as the processor is the only one to write rows; from the
lookup of an approval on, the account's row is there; and the ledger in the
processor's hand is free until `InitLedger` and the account's from then on.
`RequestInv`: a request that has initiated a ledger still has it. Ledgers that
are taken stay taken, and ids in someone's hand are not handed out again:
`LedgerTaken` and `TakenStay` say so once for both.
`HistoryInv` adds the past. An account's log begins with its opening and has no
second one; an id that waits in the channel to be opened has none yet. A row is
the view of a beginning of its log, since the processor, which alone writes it,
updates the row it has just found with the event it has just appended. `Lost(h)`
is the accounts of a holder that are opened and have no row and no dispatch
under way: each took a fault, and as `OneViewPerHolder` leaves at most one
account besides them, `DuplicatesNeedFaults` follows.

`Bank` takes `AInv` over whole, since it implements `Accounts`, and adds six
parts. `RowInv` relates rows, events and ledgers: an approved account has a row
and its ledgers the currency of that row; a row names an approved ledger or
none. `OpeningInv` and `PaymentInv` are what the processor has found out: an
account that is opened has no row yet; the ledger about to be approved has the
account's currency; a payment past its house lookup has a house ledger of its
currency, past `validate` a row that allows it, past the record a transaction on
the aggregate's ledger. `BookedInv` is what the properties say of a transaction,
and `FaultlessInv` how far a row may lag as long as nothing failed: behind its
events only while the processor is about to dispatch the approval.
`RecordTransaction` is where these meet, in `RecordTransactionBooks`. Nothing a
booking rests on goes away again, which is the action `Accrues`: every step is
one (`RowStep`), and so bookings stay (`BookingStays`). `PaymentsCounted` is for
`NoPaymentTwice`: the transactions of an account, its payments in the channel
and the one in the processor's hand are together no more than were accepted;
each step moves a payment from one place to the next or loses it.

In `Tenants`, `TInv` says of each issuer which row is its own: no two issuers
have the same, the row is inactive until the update and has the issuer's token
from then on. In `Statement` the reader's invariant is one about positions:
whatever has been added since, the transactions known at the start that are not
shown yet lie behind the offset, as a row only moves back in descending order of
creation. `AmountsAgree` rests on lemmas about `Rounded` and `CutOff`: how far
they go, and that they leave multiples of the unit alone.

**Only model-checked.** Liveness (`EveryTransactionCompletes`,
`ApprovalHappens`) is out of the prover's reach, as it rests on fairness. Every
other property of a passing run is a theorem.

## 5. Not modelled, and why

- Balances in `Bank`, and several ledgers per account in `Payments`: each leaves
  out what the other has. That the balance of an account's first ledger stays
  there after a second approval is visible in `Bank`, but no doc says whether it
  should.
- The same amount through every table is `Statement`; `Payments` has integers.
- The list of house accounts: one SELECT, with nothing joined or paged.
- Parsing and naming of currencies and account types, and formats, except for
  the precision of the list: an unknown name is refused before any state changes.
- Snapshots of aggregates: a snapshot and the events behind it replay to the
  same state.
- `fail_transaction`: nothing calls it. The panic on an unknown event type in
  the outbox: only two types are written.
- Freezing and closing accounts: there is a status, and no command.
- Signatures and hashes: a library's. `scope` and `audience` of a token: every
  token has the same, and only the tenant is looked up.
- Settings, migrations, wiring, delegation of `repository/adapter.rs`: no
  behaviour of their own. Uuids, snowflake numbers and references are taken to
  be new.

## 6. Plan

Done: the ledger, its store, payments with job and lock, accounts and house
accounts, both behind one channel, the promise and its two refinements, tenants,
the list of transactions and amounts, and the theorems above.

Left: **balances in `Bank`**, that is the ledgers of one account over several
approvals, with what `LedgerAddsUp` says of each.

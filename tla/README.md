# VeilLend: a TLA+ verification project

VeilLend is a lending protocol on Stellar/Soroban: one Rust contract
(`veilend-soroban`), a NestJS backend that mirrors and drives it
(`veilend-backend`), a web client and a mobile client. This directory models the
contract, the backend's services and the state of both clients in TLA+,
model-checks them with TLC on small instances, and proves the safety properties
that matter most with TLAPS for every instance.

Line numbers refer to `veilend-soroban/src/lib.rs` unless another file is named.

## 1. The system

### 1.1 Contract (`veilend-soroban/src`)

Every entrypoint is one transaction: it either applies as a whole or panics and
leaves storage as it was. There is no concurrency inside the contract; what is
hard is the *order* of calls by different parties, calls that read state another
party changed since, and integer arithmetic.

| Part | State | Operations | What makes it correct |
| --- | --- | --- | --- |
| Governance | admin set, timelock delay, pending actions by id, pause flag, versions | `add_admin`, `remove_admin`, `set_timelock_ledgers`, ten kinds of `propose_*`/`execute_*`/`cancel_*`, `set_paused(false)`, `migrate` | no action runs early or twice, no downgrade, somebody can always administer |
| Oracle | price, previous price and timestamp per asset, bounds, change limit, maximum age | `set_oracle_price`, `execute_set_oracle_price`, the three setters, `read_oracle_price` | a stored price respects bounds and limit whatever the order of calls |
| Lending pool | totals, reserve and interest state per asset, positions, caps, risk parameters | `deposit`, `borrow`, `repay`, `withdraw`, `liquidate`, `writeoff_bad_debt`, `accrue_interest`, admin setters | books balance, totals equal the sums of positions, nobody is trapped, caps and pause hold, a fresh borrow is not liquidatable |
| Interest (`interest.rs`) | none (pure functions) | utilization, rates, accrual, settling a position | indexes only grow; settling once more on the way never adds to a balance and takes less than a bounded rounding from it, which a supplier loses and a borrower saves |
| Batches | none of their own | `deposit_batch`, `withdraw_batch`, `borrow_batch`, `repay_batch` | a batch allows what its operations in sequence allow |
| Permits (`permit.rs`, `permit_helpers.rs`) | nonce and epoch per user | `*_for`, `revoke_permits` | a permit is consumed at most once and never after revocation |
| Flash loans (`flash_loan.rs`) | configuration, reentrancy guard | `flash_loan`, `configure_flash_loan` | the reserve is whole again after the callback |
| Rewards (`rewards.rs`) | reward indexes, unclaimed amounts, vesting grants, funded pool | speeds, claims, vesting, recovery | nobody earns for time before joining; the pool is never overdrawn |
| Storage lifetime | TTL of each entry | `bump_*` | keys read together do not expire apart |

Governance calls into the pool and the oracle when an action is executed; the
pool reads oracle prices and calls the interest functions; pool entrypoints also
settle rewards, which none of their own conditions read.

### 1.2 Backend (`veilend-backend/src`)

| Part | State | Hard behaviour |
| --- | --- | --- |
| Indexer | checkpoint, deduplication rows, read models, `isProcessing` | polling overlapping with replay, pages that fail, replays of old ranges, events without a durable deduplication key |
| Authentication | nonces, sessions, refresh tokens, jti registry | concurrent redemption, reuse handling in statements that a running rotation overlaps, revocation between two checks |
| Withdrawals | request status, nonce, idempotency key, `Position` | status read, solvency awaited, status written without a predicate; the watcher writes at the same time, a late handler over what it wrote; a forced replay deletes the position; a hash that Horizon refuses |
| Deposits | deposit status, `Position` | confirmation checked outside its transaction, transient "not found", credit by two writers |
| Admin actions | PENDING, SENT, CONFIRMED, FAILED | submissions in parallel, transactions that are never found |
| RPC fallback | a circuit state per provider | late results of old calls, probes by every caller |
| Notifications | cooldown time, push tokens | cooldown read before and written after the push |
| Read APIs, infrastructure | caches only | none |

### 1.3 Clients (`veilend-web/src`, `veilend-mobile/src`)

| Part | State | Hard behaviour |
| --- | --- | --- |
| Web sign-in (`useStellarWallet.ts`, the API routes and proxy) | the hook's state, cookies shared by tabs, Freighter's account | sign-in across four awaits while the account is switched or locked; a heartbeat that reads what another tab wrote |
| Web dashboard (`useDashboardData`, the action tray) | figures on the screen, the poll, the optimistic store | answers for a wallet that is no longer connected; an abort in the middle of an answer; rollbacks to a JSON copy |
| Mobile session and lending (`store.ts`, `api.ts`, `useAppLock.ts`) | stored and remembered session, lock, calls in flight | sign-out, a 401 and a relaunch overtaking each other, imports that overlap; optimistic balances rolled back over a refresh, calls that are never answered |
| Mobile key custody (`useWalletSecurity.ts`, the wallet screens and modals) | the secret key, its lock policy, the clipboard and its timers | requests for the secret that outlive the screen that made them; a policy changed while the key is read |

JavaScript runs one callback at a time, so a client's step is what happens
between two awaits; everything that can happen at an await is an interleaving.
The clients reach the backend, and the backend the contract, only by calls whose
answers may be late, lost or about something that has changed since; where there is
no time limit, as in the mobile client's RPC calls, they may also never come. `legacy/` is
an archived StarkNet version and not part of the system.

The full list of components with their status, and of the hazards with their
lines and the properties that cover them, is in `PROJECT.json`.

## 2. Modules

| Module | Models | Builds on |
| --- | --- | --- |
| `Governance` | admin set, timelock queue, pause, upgrade and migration | |
| `Permits` | signed permits, nonces, epochs, revocation | |
| `Interest` | `interest.rs`: division as in Rust (toward zero), the `u32` cast | |
| `Oracle` | prices, bounds, limits, staleness | `Interest` |
| `LendingPool` | the pool with its admin operations | `Oracle` |
| `PoolBatches` | the four batch entrypoints | `LendingPool` |
| `Rewards` | indexes and claims wired into every pool entrypoint, vesting, the funded pool | `PoolBatches` |
| `FlashLoans` | configuration, limits, premium | `LendingPool` |
| `Indexer` | poll, replay and forced replay over pages and chunks | |
| `AuthSessions` | challenges, sessions, token pairs, revocation | refines `RefreshChain` |
| `RefreshChain` | abstract: a chain of tokens is opened, rotated, closed | |
| `Withdrawals` | requests, watcher, positions | |
| `Deposits` | reports, watcher, credits | |
| `AdminActions` | admin transactions, their watcher, the configuration cache | |
| `RpcBreaker` | circuit breakers under the two RPC services | |
| `Notifications` | cooldown, devices, chunked delivery, purge | |
| `WalletSession` | the browser's sign-in | |
| `WebDashboard` | the dashboard's hook; the action tray and its store | |
| `MobileApp` | mobile session, lock, lending | |
| `KeyCustody` | the mobile secret key | |
| `MobileDevice` | the last two side by side | `MobileApp`, `KeyCustody` |

`MC*` modules are the instances for TLC: `MCGovernance`, `MCLendingPool` with
`MCPoolAccounting`, `MCPoolControls` and `MCFlashLoan`, `MCInterest`, `MCAuth`,
`MCIndexer`, `MCWithdrawals`, `MCServices`, `MCClients`. `*Proofs` modules and
`LendingPoolTotals` hold the theorems (section 4), `SumTheorems` the laws of sums
they share.

### Correspondence: contract

* A panic is a false guard: an action's conjuncts are the entrypoint's checks and
  its primed variables the entrypoint's writes, the accrual every entrypoint
  begins with included. `Accrued(a)` is the book of an asset after
  `accrue_and_persist_interest`, `CurrentPosition(u, a)` is
  `read_accrued_position`, and `Stored(p)` the removal of an empty position by
  `write_position`.
* `book[a]` joins `TotalDeposited`, `TotalBorrowed`, `AssetReserve`,
  `LifetimeReserveEarned` and `InterestState` of one asset. An interest state that
  was never stored is `last_accrual = -1`.
* `LiquidatedPositions` keeps the three position writes of `liquidate` in order,
  the second one from the copy read before the first.
* Payloads that the timelock delays are the `Apply*` and `ExecuteSetOraclePrice`
  actions of the pool, enabled at any time; `Governance` treats the payload as
  opaque apart from pause and upgrade. Both leave out conditions of the other
  module, which only adds behaviours to each.
* A batch is one step: assets are settled once, in order, caps are weighed against
  the sums, and one health check ends it. Rewards are settled by every entrypoint
  that moves a position, except `writeoff_bad_debt`, which does not.
* A permit is a member of a set once its owner signed it. `Permits` checks what
  precedes the operation; the operation itself is the plain one of `LendingPool`.
* Authorization is not modelled in the pool: a user acts for themselves, and an
  admin call is enabled whenever its other checks pass.
* Integers are unbounded where the code uses checked `i128`, whose overflow is a
  panic; the only unchecked narrowing, `as u32` in `utilization_ratio`, is modelled
  modulo `U32`.

### Correspondence: backend

* A step is one database call, one awaited call to another service, or one
  serializable transaction; what a handler read before an await is in its record
  (`post`, `submit`, `request`, `cycle`, `build`) and is used afterwards as the
  code uses it, however stale. `Crash` and restarts drop what was in memory and
  keep the rows.
* Transactions are one step, with one exception. Rotation of a refresh token claims
  the presented row (`ClaimRefreshToken`) and commits later (`RotateRefreshToken`);
  until then its writes are seen by nobody, and a statement that writes the claimed
  row waits. The reuse response's `updateMany` (`auth.service.ts:483-486`) is a plain
  READ COMMITTED statement: it takes the rows it sees when it begins (`BeginRevoke`)
  and does not find a successor committed while it waits (`RevokeFamily`).
  `overtaken` names the families to which that happened.
* The handlers of a withdrawal read the row, check solvency and write in separate
  steps, the last by id alone. A forced replay's `resetDatabase('full')`
  (`indexer.repository.ts:730`) deletes every position (`ResetDatabase`), and a
  confirmation that then finds no row fails as a whole (`ConfirmFails`). The hash of a
  submission is whatever the request held: for a `Malformed` one every lookup fails.
* A watcher is one process that runs its rounds one row after another; two rounds
  do not overlap because the timer is re-armed at the end of a round.
* The chain is what the service can see of it: ledgers that close, transactions
  that land or not, answers of Horizon and the RPC that may fail or lag.
* In `Indexer` events are numbered in chain order; a page may fail, a chunk is one
  transaction, and `getEvents`' `endLedger` is taken as the code takes it
  (inclusive). The topic filter of the request is left out.

### Correspondence: clients

* A step is what runs between two awaits or timers. Requests and calls in flight
  are records of their own that outlive the screen or hook that started them.
* In `WalletSession` the browser's cookies are shared by tabs; `granted` lists the
  sessions the backend opened. In `MobileApp` the token and the address, which the
  code stores side by side, are one `session`.
* Two imports may overlap: the field's `onSubmitEditing`
  (`ConnectWalletScreen.tsx:221`) stays enabled while one is under way, and
  `importWallet` has no guard. `connect` and `joining` are therefore sets. The buttons
  do wait, so a generated wallet starts only while nothing is under way on the screen.
* The balance the mobile application is given is the wallet's holding of the native
  coin, as Horizon had it at some moment (`portfolios.service.ts:113`). Nothing ties
  it to what was lent, so an answer may be any of `Holdings`, whenever it comes. A call moves the
  balance shown up for a deposit or a loan and down otherwise (`store.ts:948-953`).
* A request of the mobile client to Horizon or the RPC has no time limit
  (`rpc.ts:74`, `transactions.ts:46`), and the poll looks at its deadline between two of
  them only (`rpc.ts:189-190`): `LendingHangs` leaves a call under way for good.
* On the web a snapshot is `JSON.parse(JSON.stringify(portfolio))`
  (`useDashboardStore.ts:87,93`), so `JsonCopy` turns an infinite health factor into
  null, and a rollback restores that. An abort while the body is read ends in
  a `ValidationError` or `HttpError` (`validated-fetch.ts:48-53,91-92`), which
  `fetchData` reports like any error (`BodyCut`).
* `KeyCustody` gives each mounted screen its own copy of what `useWalletSecurity`
  read at mount. `MobileDevice` states what both halves together
  promise. They are two views of one secure storage, each with its own variables:
  `MobileApp` keeps whose key is stored, `KeyCustody` how it is protected and shown,
  and neither reads what the other keeps.

### Auxiliary variables and conventions

* `history` (governance), `lost` and `booked` (pool), `emitted`, `granted` and
  `paid` (rewards), `exposed` (indexer), `compromised`, `shutDown` and `overtaken`
  (authentication), `debits`, `taken` and `reopened` (withdrawals), `pushed`
  (notifications), `settled`, `ghost` and `past` (clients) record what
  happened; no action of the code is guarded by them.
  Budgets, quotas and tallies (`budget`, `quota`, `tally`, `Max*`) bound what users
  and the environment do, each in the guards that use it up.
* Definitions whose comment begins with "Mutant" are faulty variants of the
  definition below them, used to confirm that the properties notice the fault.

## 3. Runs

A run that joins parts without shared state starts with a variable `focus` (or
`profile`) that says whose steps a behaviour takes: the state spaces add up
instead of multiplying, and every part is explored in full. Steps of different
parts are then never enabled in one behaviour, so weak fairness of a disjunction
of such steps is weak fairness of each of them.

| Run | Checks | Instance |
| --- | --- | --- |
| `governance` | `AdminSetNeverEmpty`, `TimelockHonoured`, `OutcomeIsFinal`, `NoDowngrade`, `EveryActionMatures`; `PermitsAreSpent` | two accounts, four payloads, two proposals, ledgers up to 4; or two owners with two terms each, nonces up to 2, three permits, one revocation |
| `pool_accounting` | `BalanceSheet`, `TotalsMatchPositions`, `NoTrappedPosition`, `LiquidationReducesShortfall`; `RewardsWithinEmission` | two users, two assets, amounts 1 and 3, balances up to 3, a batch of two assets and one of the same asset twice, cross-asset liquidations, listing and delisting, a price that doubles; or four timestamps in which rewards are earned, vested and paid |
| `pool_controls` | `OutstandingWithinCaps`, `PauseStopsNewRisk`, `BorrowIsNotLiquidatable`, `PriceDiscipline`, `InterestMovesForward`, `RatesAreSound`, `ExtraSettlementBounded` | one asset under every setting and the pause switch; or the listing and both price paths of another; or interest under a kinked rate over three timestamps; or every market of up to 24 units under 72 parameter sets and indexes up to 7 |
| `auth` | `ChallengesOpenOneSession`, `RevocationHolds`, `ImplementsRefreshChain` | two wallets, two requests in flight, two nonces, three sessions (one from before rotation), three pairs |
| `indexer` | `NoSilentGap`, `PositionMatchesHistory`, `CatchesUp` | four events in three ledgers, chunks of two ledgers, pages of three, one replay, one crash, retention of two ledgers |
| `withdrawals` | `PositionIsSumOfWrites`, `DebitIsEarned`, `OneWithdrawalPerKey`, `WithdrawalsSettle` | two withdrawals of one position under one key, the second submitted with a malformed hash, two requests, one indexed event, one wipe, one failing call |
| `services` | `CreditIsEarned`, `ServedConfigIsRecent`, `NobodyElseReads`, `WatchersSettle`, `PreferredRecovers` | two deposits reported at once or over outages and restarts; one admin action with two transactions or with readers of the configuration; two calls over two Soroban providers and Horizon; two devices |
| `clients` | `SecretsAreGuarded`, `OneLendingAtATime`, `FailedCallsLeaveNoTrace`, `ForeignDataIsFlagged`, `StoreMatchesOutcomes`, `ShownWalletIsProven`, `ClientsSettle` | the mobile application in six scenarios of use, with two sign-ins at once in three, key custody in three, the dashboard's hook, the tray over two contexts, the browser's sign-in |

Four further runs refute what the repository says of itself; see section 7. Each
module's type invariant is a theorem where the module has proofs (section 4) and
was checked by TLC while those proofs were found.

**Scales.** Basis points are scaled to `BPS = 20`, so that every default of the
code is a whole number (500 bps is 1, 15 000 bps is 30), and `RATE_SCALE` to 20, or
to 100 where rates are compared. The proofs use no particular scale.

**Why the bounds suffice.** In `governance` the ledger bound stands for `u32::MAX`:
with an upgrade floor of 3, delays expire, are shortened and lengthened while
actions wait, and saturate; two proposals are enough for two actions to race or
to run in reverse order; three permits and one revocation are enough for a
double submission, a reordered one and one from before the revocation. In the
pool, three units admit a partial and a full repayment, one within and one above
the close factor, dust, and a seizure clipped to the deposit; two users make every
liquidation that of another's position, two assets are what cross-asset
collateral needs, and a price that doubles takes a borrow at the limit below its
threshold. Two requests in flight are what every check-then-write of the backend
needs to go wrong, and one failure or crash strikes between any two of its steps.
In the clients two wallets (or keys, or addresses) are what it takes to show one's
data under the other.

Two users of the pool are interchangeable and so are two requests of `auth`; they
are symmetry sets in these runs, none of which checks liveness.

**Where a property is claimed.** `OutstandingWithinCaps`, `TotalsMatchPositions` and
`LiquidationReducesShortfall` are checked while no interest accrues: with interest,
aggregates and positions are rounded separately and agree only approximately, and
accrual pays no regard to caps. `BorrowIsNotLiquidatable` is checked on one asset and
proved for any number of them. `PauseStopsNewRisk` says that while paused a total grows by its
interest at most; rounding may make totals of an interest-bearing asset negative,
and the property allows for it. `CreditIsEarned` speaks of the watcher; what the
indexer adds for the same transfer is a hazard on record.

`RevocationHolds` leaves out a family whose reuse response a rotation has overtaken,
`DebitIsEarned` counts debits of withdrawals whose confirmation no handler has
overwritten, and `FailedCallsLeaveNoTrace` is silent from the failure of a call under
which a refresh arrived until the next refresh. The models reach each exception, and section 7
says what the code does there. `PositionIsSumOfWrites` speaks of
the raw amount of the position withdrawn from and begins anew at each wipe.
`ExtraSettlementBounded` holds of deposits and of debts alike: both are rounded down at
each settlement, so a supplier loses by settling often and a borrower does save, but less than
a unit each time and what the index makes of that unit later.

**Deadlock** is checked where the model can always go on (`pool_accounting`); the
other models end when their bounds or their users' quotas are used up.

**Fairness.** Nobody is obliged to call anything; what is assumed is what the
code's own scheduling provides.

| Property | Assumed | Because |
| --- | --- | --- |
| `EveryActionMatures` | ledgers close | the network does |
| `CatchesUp` | the poll starts, workers that have started go on, and a poll that keeps being started is not refused by the RPC for ever (strong fairness) | `setInterval` and the `finally` that clears `isProcessing`; the last is the claim's own premise |
| `WithdrawalsSettle`, `WatchersSettle` | watchers' rounds run, ledgers close | each watcher re-arms its timer after every round, failed or not; nothing is claimed of a hash Horizon refuses for ever, or of a withdrawal whose position row is gone |
| `PreferredRecovers` | calls end, reads keep being made (strong fairness), cool-downs pass | every call has a timeout; probes are made by callers |
| `ClientsSettle` | a lending call goes on to its end unless a request of it hangs, page and heartbeat timers fire, the web client's requests are answered or time out | timers are re-armed while the hook is mounted; `fetchValidated` has a time limit; the mobile RPC calls have none, so `LendingEnds` allows `hung` |

## 4. Proofs

Every theorem holds for all values of the constants that meet the named
assumptions of its modules (`AddressAssumption`, `PoolAssumption`,
`AuthAssumption`, ...). These state types, that scales and bounds are natural
numbers and scales positive, the order of the timelock limits and of token
lifetimes, that the assets listed at the start and what a sum ranges over (deposits,
withdrawals, events; users and assets where rewards are claimed) are finitely many, and that values standing for "none" are not
real values; TLC evaluates them in
the passing runs. Bounds such as `MaxActions`, `MaxPermits`, `Quotas` or `Budgets`
are arbitrary in the proofs: nothing is proved only for short behaviours.

The proof of each invariant has the same shape: an inductive invariant, checked by
TLC before it was proved, one lemma per entrypoint or handler saying that its step
keeps it (and, for an action property, what the step changes), and a theorem that
puts them together.

| Module | Theorems | Property stated |
| --- | --- | --- |
| `GovernanceProofs` | `TypeCorrect`, `AdminsRemain`, `TimelockIsHonoured`, `OutcomesAreFinal`, `NeverDowngrades` | `AdminSetNeverEmpty`, `TimelockHonoured`, `OutcomeIsFinal`, `NoDowngrade` |
| | `NoncesAndEpochsGuard`, `PermitsAreSpentOnce` | `PermitsAreSpent` |
| `LendingPoolProofs` | `AccrualNeverShrinks`, `SettlingNeverLoses` | lemmas about `interest.rs` |
| | `RatesSound`, `SettlingMoreOften` | `RatesAreSound`, `ExtraSettlementBounded` |
| | `TypeCorrect`, `SnapshotsStayBehind`, `IndexesOnlyGrow`, `BooksBalance`, `PricesStayWithinBounds`, `PricesMoveWithinLimit`, `PauseHolds` | `InterestMovesForward`, `BalanceSheet`, `PriceDiscipline`, `PauseStopsNewRisk` |
| `LendingPoolTotals` | `CapsHold`, `TotalsMatch`, `NobodyIsTrapped` | `OutstandingWithinCaps`, `TotalsMatchPositions`, `NoTrappedPosition` |
| | `BorrowsAreCovered`, `LiquidationsHelp` | `BorrowIsNotLiquidatable`, `LiquidationReducesShortfall` |
| | `EmissionCoversRewards` | `RewardsWithinEmission` |
| | `RewardsKeepBooks`, `RewardsKeepTotals`, `RewardedLiquidationsHelp` | the pool's, with rewards: `BalanceSheet`, `TotalsMatchPositions`, `NoTrappedPosition`, `LiquidationReducesShortfall` |
| `AuthProofs` | `TypeCorrect`, `ChallengesHold`, `RevocationIsFinal`, `RotationImplementsChain` | `ChallengesOpenOneSession`, `RevocationHolds`, `ImplementsRefreshChain` |
| `WithdrawalsProofs` | `TypeCorrect`, `DebitsAreEarned`, `KeysAreUsedOnce`, `NoWriteIsLost` | `DebitIsEarned`, `OneWithdrawalPerKey`, `PositionIsSumOfWrites` |
| `ServicesProofs` | `GapsAreNeverSilent`, `PositionsMatchHistory` | `NoSilentGap`, `PositionMatchesHistory` |
| | `CreditsAreEarned`, `DepositsAreCreditedOnce`, `ServedConfigStaysRecent`, `SensitivePushesStaySealed` | `CreditIsEarned`, `ServedConfigIsRecent`, `NobodyElseReads` |
| `ClientsProofs` | `ShownWalletsAreProven`, `ForeignDataStaysFlagged`, `OneCallAtATime`, `FailuresLeaveNoTrace`, `SessionsKeepTheirKey`, `KeysAreKept`, `GateStaysShut`, `DevicesGuardSecrets`, `StoresShowOutcomes` | `ShownWalletIsProven`, `ForeignDataIsFlagged`, `OneLendingAtATime`, `FailedCallsLeaveNoTrace`, `SecretsAreGuarded`, `StoreMatchesOutcomes` |
| `SumTheorems` | laws of `SumFunctionOnSet` and of folds in ascending order | used by the pool's, the withdrawals', the services' and the clients' proofs |

### The inductive invariants

* **Sums.** The library defines a sum over a set by a recursion that takes elements
  out by `CHOOSE`, and its induction theorems take an operator as a parameter, which
  the provers cannot instantiate. `SumTheorems` argues by a smallest counterexample
  instead (strict inclusion among the subsets of a finite set is well founded, which
  is a fact without a parameter): the recursion has exactly one solution
  (`TableExists`, `TablesAgree`), any element may be taken out first
  (`SumTakesOut`), and from that monotonicity, additivity and the effect of changing
  one summand (`SumMonotone`, `SumAdds`, `SumMoves`). A fold over a set of numbers in
  ascending order, which clamps or combines on the way so that no law of sums gives
  it, is treated alike: it exists (`FoldExists`), is unique (`FoldsAgree`), and is
  extended by an element above all others.
* **Governance.** `TimelockHonoured` speaks of finished actions and is not inductive;
  `QueueAgrees` adds that what is stored under an id is undecided, carries the payload
  recorded for it, and has the `executable_at_ledger` fixed at its proposal.
  `OutcomesAreFinal` follows because a finished id is no longer stored and ids are
  handed out once.
* **Permits.** That a permit is not executed twice is a matter of order:
  `SpentBelowNonce` (executed permits lie below their owner's nonce),
  `RevokedBelowEpoch`, and `SignedUpToEpoch` (none is signed for an epoch to come).
* **Interest.** Indexes never fall, also for negative totals and a wrapped
  utilization; a balance settled at an index not behind its snapshot does not
  shrink. `RatesSound` bounds each truncation on its own (`BorrowRateExact`,
  `SupplyRateBounds`), and `SettlingMoreOften` characterises a settled balance as the
  largest number that fits (`RealizedIs`), which makes nested divisions comparable in both
  directions.
* **Pool.** `TypeOK /\ SnapshotsBehindIndexes /\ AccrualNotAhead`: that a settled
  position is a natural number needs snapshots behind the indexes, and that needs
  an accrual clock never ahead of the ledger's. Each entrypoint's lemma
  (`DepositSound`, `BorrowSound`, ...) also says how far it moves the balance sheet,
  namely by the loss it records, and that it moves no index back; `BooksBalance` and
  `IndexesOnlyGrow` sum these up. `PauseHolds` uses what every step may do while the
  switch is on. All of them speak of `BatchSpec`, the pool with its batches: that a
  batch of repayments, checked operation by operation, repays no more than is owed
  in total follows from the last operation on each asset (`RepayableTotals`).
* **Calls.** `LendingPoolTotals` describes every user's call, single or batched, and a
  write-off by one formula: `Call(u, T, dep, bor)` changes the deposits and debts of one
  user in the assets `T`, and the totals of these assets by as much. What the checks
  of the code leave of it is `CapsChecked` and `Weighed` (`UserCalls`).
* **Totals.** A sum over users is the number of the units they hold, a set of pairs
  `<<user, k>>` (`UnitsHeld`); a call moves one user's units, so
  the library's facts about cardinalities replace induction over users. That these
  sets stay finite is part of the invariant, so nothing is assumed of the number
  of users. The theorems assume `NoInterest` (every interest model that may be
  set charges nothing, as the contract's default does), and `TotalsMatch` and
  `NobodyIsTrapped` assume `CrossLiquidation` (no liquidation names one asset as both
  collateral and debt). Neither can be dropped: with interest the two sides are
  rounded separately, and a liquidation within one asset breaks them, as the run
  `self_liquidation` shows.
* **Collateral.** `CollateralInv`: finitely many assets are supported, and no stored
  collateral factor is above its threshold. With it `BorrowsAreCovered` compares two
  weighted sums term by term (`CoverOrdered`); that a call leaves the other positions
  worth what they were needs that a position which was just settled does not move
  when it is settled again (`StoredAgain`, `CallBalances`). `LiquidationsHelp` follows the
  three writes of `liquidate` in order, also when the liquidator is the borrower
  (`LiquidationWrites`), shows that the only debt whose stored amount falls is the one
  repaid across two assets (`LoweredDebt`), and that what is seized weighs no more than
  what is repaid (`SeizedWorthLess`). Both hold at any interest rates.
* **Rewards.** `EarnedInv` bounds more than the property: what every user was granted,
  may claim, *and would earn by settling now* (`Due`) is, summed over users and scaled by
  `RATE_SCALE`, at most what was emitted. This is inductive where the
  property is not, because a settlement only turns part of what is due into a claim
  (`SettledFacts`), and an index adds to all balances together no more than its
  speed emitted (`AdvancedFacts`, `SharesOfTotals`), since the balances add up to the
  totals it was divided by. `EmissionShared` is the argument for one step, whoever's positions
  it touches: each is settled before it grows (`Credited`). It rests on the
  totals, hence on `NoInterest` and `CrossLiquidation`; the double sum needs users and
  assets to be finitely many. `PaidInv`: a grant never vests beyond its amount
  (`VestedPart`), so what is paid and what is left of the grants always is what was granted,
  also when paid grants are dropped (`UnpaidFacts`).
* **Rewards and the pool.** `RewardedSpec` takes the pool's steps, with the rewards they
  settle, and claims, which settle books and move no position (`RewardedMoves`,
  `ClaimSound`). `RewardsKeepBooks`, `RewardsKeepTotals` and `RewardedLiquidationsHelp`
  carry the pool's theorems over to it.
* **Authentication.** `NonceInv` (a used challenge has its session, only the latest is
  open) and `TokenInv`, whose `RequestsSound` closes the windows of the reuse
  handling: the snapshot of a family's revocation holds every live token of it, a request
  that is about to revoke its access tokens acts on a family already marked, and its
  list contains every token of it that still passes; all of it unless a rotation
  overtook the response. `ClaimsHeld`: a running rotation holds its row alone and live,
  since every other writer of the row waits for it.
  `RotationImplementsChain` maps each step of the service to a step of
  `RefreshChain` or to a stutter.
* **Indexer.** `NothingLost`: everything up to the checkpoint is in the history; a
  deduplication row of a transaction comes with its history row; and for each
  worker, what lies before its position is in the history and what it fetched of
  its chunk is there or in its batch. `exposed` names the causes of loss the code
  has (a page failed, the checkpoint moved to the RPC's oldest ledger, a replay
  from beyond the checkpoint or past the head, a wipe under a poll); the theorem is that
  there are no others. `HistoryInv`: a position is the net of its indexed events; the
  history has none above what a worker is committing, so each commit extends the fold at
  its end. `PositionsMatchHistory` assumes `NeverOverdrawn`: no prefix of the chain's events
  takes out more than was put in. The contract refuses such a withdrawal, except for what
  interest has added, which the indexer does not realize and where its clamp at zero loses.
* **Withdrawals.** `WritesInv`: the position is the sum of what was written to it since
  the last wipe. `ReadyInv` (whoever acts on a row past its timelock read it so),
  `DebitInv` (no row the watcher has yet to deal with is confirmed, so a confirmation is
  the first one unless a handler overwrote another), `LandedInv` (the watcher's
  ledger is one that closed), `KeyInv` (a key belongs to the first row created with it,
  and its row is never deleted).
* **Services.** `CreditIsSum`: the credited amount is the sum over the confirmed deposits.
  `DepositInv`: rows a cycle holds are PENDING and only the watcher moves
  them out of it; `ConfigInv`: entries and builds under way hold nothing replaced
  longer ago than they may be served; `PushInv`: what was decided about a message
  travels with it.
* **Browser.** `SessionInv`: sessions are only added, and what a cookie or the
  start-up check remembers was opened. `HookInv`: requests under way are for the
  wallet shown, since a change of wallet aborts the others, and figures come with `hasData`, so
  that every error marks them stale, the one of an aborted body too. `TrayInv`: one submission is under
  way at a time, its snapshot is what was reported successful or the JSON copy of it, and the store is
  that snapshot with the action under way, which computes the health factor anew
  and so forgets the copy; `OneMoreDone` extends the fold of the outcomes.
* **Mobile.** `GateInv`: a gate knows the lock it stands for and closes over a store that
  nothing under way will fill. `OneCall`: a call holds `lendingLoading` and no sign-out
  is waiting. `Optimism`: the balance shown is the last answer with what was confirmed
  since, plus the calls under way that raised it, minus those that lowered it, where
  a call under which a refresh arrived no longer counts. `KeyInv`: a stored session
  that is not in memory is on its way there, so no sign-in can start beside it, and
  unless operations overlapped there is one sign-in and the key is its own. `FollowInv`: a
  lone job knows the lock it set.

Some properties hold only outside a situation that the code does allow; it is
named in the property and recorded by a history variable: `exposed` (indexer);
`late` and `proved` (an answer under way when the gate closed, a prompt passed since),
`overlapped` (sign-in, sign-out or restoring at the same time, or two imports), `abandoned` (a
lending call that met a sign-out), `suspect` (from the failure of a call under which a
refresh arrived until the next refresh); `overtaken` (a rotation that committed under
a reuse response), `reopened` (a confirmation overwritten by a handler);
`raced`, `refused`, `untimed`, `loose` (two jobs on the lock at once,
a write the device refused, a key that arrived behind a closed modal, a copy
whose screen is gone). The models include these situations, and section 7 says where the
code disagrees with its own comments because of one.

## 5. What is only model-checked

* **Liveness** (`EveryActionMatures`, `CatchesUp`, `WithdrawalsSettle`,
  `WatchersSettle`, `PreferredRecovers`, `ClientsSettle`): temporal reasoning under fairness
  and ENABLED is outside the prover's reach.
* **Composition.** Rewards and the pool are proved about together. Permits and the
  timelock are proved about next to the pool: a permit precedes the plain operation, and
  a timelocked payload is enabled at any time in the pool. `FlashLoans` is a step of the
  pool that only the run `flash_premium` takes.

Every safety invariant and action property of the passing runs is stated by a theorem.

## 6. What is not modelled

* Contract storage lifetime: an entry that is not bumped is archived, and calls
  that need it are refused until it is restored; none reads it as absent.
* Token transfers, events and views of the contract, and signatures
  (cryptography). The contract moves tokens only for rewards and flash loans,
  modelled as amounts.
* Backend read APIs, configuration, logging, validators, metadata caches: no
  state that a property is about.
* `usePositionSync` of the web client: no component mounts it, and its loader ends in
  `cookies()` of `next/headers` (`dashboard.ts:1,42`, `backendFetch.ts:1,11`), which a
  browser cannot run.
* Web pages and mobile screens other than those in section 1.3: rendering.
* `legacy/`: archived.

## 7. Where comments and code disagree

Four are the property of a run that TLC refutes.

1. `self_liquidation`: `liquidate` accepts one asset as collateral and debt. The
   borrower's collateral is then written from a copy read before the repayment
   (line 2261), which restores the debt, while `TotalBorrowed` has fallen.
2. `withdraw_other_debt`: `assert_collateralized` (4352) is documented to weigh the
   total debt and weighs the debt in the named asset only.
3. `flash_premium`: the premium is added both to the fees and to `TotalDeposited`
   (`flash_loan.rs:266-273`), so an asset everybody has left cannot be delisted; it
   also moves the balance sheet and may exceed the deposit cap.
4. `indexer_stops_at_interest`: the indexer reads `interest_accrued` as an array with
   the asset in a later topic (`indexer.service.ts:551`); the contract publishes a
   map. The chunk's transaction fails at every poll, until the RPC no longer keeps
   the event.

Seen while reading and modelled as the code has it, without a run:

* *Contract.* `liquidate` documents a clipped repayment (2152-2159) and panics
  (`LiquidationTooLarge`, 2232). A negative utilization, which rounding can produce,
  wraps in its cast (`interest.rs:47`). Truncating the two growth factors separately
  can give suppliers more than borrowers pay (`interest.rs:183`, 4090-4092).
  `liquidation_bonus_bps` is stored and never read (372). A price above its maximum
  panics with `LiquidationTooLarge` (3677). `README.md:231` asks both price paths to be
  validation-identical; the timelocked one does not require a supported asset.
  `writeoff_bad_debt` settles no rewards. `apply_recover_rewards` may take what is
  still owed. A permit signed ahead for a later epoch would outlive a revocation,
  and the second asset of `withdraw_for` and `borrow_for` is not signed.
* *Indexer.* `interest_params_updated` stores zeros, `asset_reserve_updated` goes to
  an asset that does not exist, and `asset_configured` is dropped, for the same
  reason as in 4. `applyPositionDelta` re-anchors snapshots without realizing interest.
* *Sessions.* `handleRefreshReuse` is to revoke "every refresh token in the same rotation
  chain" (`auth.service.ts:468-470`); a rotation that commits while its plain update (483-486)
  waits for a row leaves a successor the update did not see, which stays redeemable. Without
  the exception `overtaken` TLC refutes `RevocationHolds`. On reuse "every session for the
  user is torn down" (338-342); the code revokes the tokens of one family and deletes no
  session, not even the one concerned.
* *Withdrawals.* "If the same signed payload is replayed, the backend rejects"
  (`schema.prisma:554-556`); only `signWithdrawal` looks at the nonce. Of two submissions that
  both read SIGNED the later one writes SENT over CONFIRMED, and the watcher debits again
  (`withdrawals.service.ts:459,490,519-554`). Without the exception `reopened` TLC refutes
  `DebitIsEarned`.
* *Backend.* `ProtocolChainReader` calls `close_factor_bps` (`protocol-chain-reader.ts:38`),
  which the contract does not export, so the configuration served is always the
  fallback. A deposit confirmed by its watcher and indexed as an event is counted
  twice. A withdrawal sent back to DRAFT cannot be signed again
  (`withdrawals.service.ts:644`). A lagging Horizon orphans a deposit for good.
  The hash of a submission is not validated (`withdrawals.controller.ts:115-121`): one
  that Horizon answers with 400 is looked up again in every cycle
  (`horizon.service.ts:148-153`), and the row stays SENT. A forced replay deletes every
  position (`indexer.repository.ts:730`) and brings back only what the events say: seeds
  and debits of withdrawals are gone.
* *Web.* No client sends `x-csrf-token`, so signing in and out through the proxy fails
  (against `useStellarWallet.ts:118`); a backend 401 becomes a redirect to a missing page
  (against 265-266); the heartbeat never compares the session's address.
  After a rollback a health factor that was infinite is null (`useDashboardStore.ts:87,225`)
  until the next action.
* *Mobile.* A failed lending call is to "roll back the optimistic delta" (`store.ts:248`); after
  a refresh under the call the balance no longer contains the delta, and the rollback (407)
  takes it away all the same. Without the exception `suspect` TLC refutes
  `FailedCallsLeaveNoTrace`. A 401 deletes the stored secret key (`store.ts:481`), which
  `SettingsScreen.tsx:102` announces only for a sign-out by hand. A reveal answered behind a
  closed modal is shown without its timer (against `WalletBackupModal.tsx:123`). Leaving
  the screen cancels the clipboard timer and its wipe (189); the copy of the export sheet is
  never wiped. The lock wizard says both methods can be enabled and then only
  disables. `applySecretKeyLockPolicy` may write an old key over a new one. Of two imports the key
  of one may be stored while the session of the other is opened. A Horizon or RPC
  request that is never answered leaves `lendingLoading` set, and with it the guard of
  the 401 interceptor, until the process dies (against `store.ts:246`).

## 8. Plan

1. *Done:* every part of section 1 that keeps protocol state is modelled, the core of
   each is checked, and every safety property the passing runs check is a theorem.
2. *Next:* the breaker's bookkeeping, which only a liveness property covers so far; the
   pool's theorems with flash loans; the totals under interest, as a bound on how far
   rounding lets them drift from the positions.

---------------------------- MODULE LendingPool -----------------------------
(***************************************************************************)
(* The lending pool of veilend-soroban/src/lib.rs: deposits, borrows,      *)
(* repayments, withdrawals, liquidations, bad-debt write-off, interest     *)
(* accrual, caps, risk parameters and protocol reserves.                   *)
(*                                                                         *)
(* Every entrypoint is one transaction: it applies completely or panics    *)
(* and changes nothing, so each is one action whose conjuncts are the      *)
(* checks that panic.  The contract moves no tokens; the balances below    *)
(* are its own books.  The caller's authorization is not modelled: anyone  *)
(* may act for themselves, and an admin may make any admin call; payloads  *)
(* that Governance delays are applied here at any time (the Apply actions).*)
(* Reward bookkeeping, which the entrypoints also touch, is separate state *)
(* that none of these guards read.                                         *)
(***************************************************************************)
EXTENDS Oracle, FiniteSets, Functions

CONSTANTS
    User,
    Amounts,             \* amounts callers may submit
    LiquidationPairs,    \* <<collateral_asset, debt_asset>> of liquidate calls
    InitMinRatio,        \* min_collateral_ratio_bps given to __constructor
    InitMaxAge,          \* 86_400 until set_max_oracle_age is called
    DUST_THRESHOLD,      \* 100: a debt this small is forgiven on repay
    RateChoices,         \* interest parameters an admin may set
    CapChoices,          \* values an admin may submit as a cap
    RiskChoices,         \* <<factor, threshold, bonus>> an admin may propose
    RatioChoices,        \* global collateral ratios an admin may propose
    LiquidationChoices,  \* <<close factor, discount>> an admin may set
    FeeLimits,           \* protocol-fee limits an admin may set
    FeeAmounts,          \* fees an admin may record or withdraw
    Pausing,             \* {TRUE} when the pause switch is exercised, else {}
    Configuring,         \* BOOLEANs apply_configure_asset may be given
    InitiallySupported,  \* assets already configured in the initial state
    InitPrice,           \* [Asset -> Nat]: prices already set, 0 for none
    MaxBalance,          \* bound: no deposit takes a total above this
    MaxTime              \* bound: the last timestamp

RatesType ==
    [base_rate_bps : Nat, kink_util_bps : Nat, slope1_bps : Nat,
     slope2_bps : Nat, reserve_factor_bps : Nat]

ASSUME PoolAssumption ==
    /\ Amounts \subseteq Int
    /\ LiquidationPairs \subseteq Asset \X Asset
    /\ InitMinRatio \in Nat /\ InitMinRatio >= BPS
    /\ InitMaxAge \in Nat
    /\ DUST_THRESHOLD \in Nat
    /\ RateChoices \subseteq RatesType
    /\ CapChoices \subseteq Int
    /\ RiskChoices \subseteq Nat \X Nat \X Nat
    /\ RatioChoices \subseteq Nat
    /\ LiquidationChoices \subseteq Nat \X Nat
    /\ FeeLimits \subseteq Nat
    /\ FeeAmounts \subseteq Int
    /\ Pausing \subseteq {TRUE}
    /\ Configuring \subseteq BOOLEAN
    /\ InitiallySupported \subseteq Asset /\ IsFiniteSet(InitiallySupported)
    /\ InitPrice \in [Asset -> Nat]
    /\ MaxBalance \in Nat
    /\ MaxTime \in Nat

VARIABLES
    book,                \* per asset: totals, reserve and interest state
    position,            \* DataKey::Position(user, asset)
    caps,                \* the four cap keys of each asset
    risk,                \* DataKey::AssetRiskParams
    rates,               \* DataKey::InterestParams
    config,              \* MinCollateralRatioBps, liquidation and fee limits
    lost,                \* auxiliary: debt forgiven as dust or written off
    booked               \* auxiliary: interest added to the books, see Accrued

adminVars == <<caps, risk, rates, config>>
poolVars == <<book, position, lost, booked>>
vars == <<now, paused, supported, oracle, maxAge, book, position, caps, risk,
          rates, config, lost, booked>>

-----------------------------------------------------------------------------
(* Absent storage entries and their defaults.                              *)

NoEntry == -1            \* no InterestState has been persisted yet
Unlimited == -1          \* DepositCap and BorrowCap; the other two use 0

EmptyBook ==
    [total_deposited |-> 0, total_borrowed |-> 0,
     total_balance |-> 0, protocol_fees |-> 0, lifetime_reserve_earned |-> 0,
     supply_index |-> RATE_SCALE, borrow_index |-> RATE_SCALE,
     last_accrual |-> NoEntry]

EmptyPosition ==
    [deposited |-> 0, borrowed |-> 0,
     supply_index_snapshot |-> RATE_SCALE, borrow_index_snapshot |-> RATE_SCALE]

\* interest::DEFAULT_PARAMS
DefaultRates ==
    [base_rate_bps |-> 0, kink_util_bps |-> (8 * BPS) \div 10,
     slope1_bps |-> 0, slope2_bps |-> 0, reserve_factor_bps |-> BPS \div 10]

NoCaps == [deposit |-> Unlimited, borrow |-> Unlimited,
           supply |-> 0, aggregate_borrow |-> 0]

NoRisk == [stored |-> FALSE, collateral_factor_bps |-> 0,
           liquidation_threshold_bps |-> 0, liquidation_bonus_bps |-> 0]

DefaultConfig ==
    [min_collateral_ratio_bps |-> InitMinRatio,
     close_factor_bps |-> BPS \div 2, discount_bps |-> BPS \div 20,
     max_protocol_fee_bps |-> 0]

Init ==
    /\ now = 0
    /\ paused = FALSE
    /\ supported = InitiallySupported
    /\ oracle = [a \in Asset |-> [NoOracle EXCEPT !.price = InitPrice[a]]]
    /\ maxAge = InitMaxAge
    /\ book = [a \in Asset |->
                  [EmptyBook EXCEPT !.last_accrual =
                      IF a \in InitiallySupported THEN 0 ELSE NoEntry]]
    /\ position = [u \in User |-> [a \in Asset |-> EmptyPosition]]
    /\ caps = [a \in Asset |-> NoCaps]
    /\ risk = [a \in Asset |-> NoRisk]
    /\ rates = [a \in Asset |-> DefaultRates]
    /\ config = DefaultConfig
    /\ lost = [a \in Asset |-> 0]
    /\ booked = [a \in Asset |-> 0]

-----------------------------------------------------------------------------
(* Interest accrual.                                                       *)

\* compute_accrual for asset a at the current timestamp.  A state that is not
\* stored is anchored at the current time, so nothing has elapsed for it.
Accrual(a) ==
    LET b == book[a]
        elapsed == IF b.last_accrual = NoEntry \/ now <= b.last_accrual
                     THEN 0 ELSE now - b.last_accrual
    IN  IF elapsed = 0
          THEN [supply_index |-> b.supply_index, borrow_index |-> b.borrow_index,
                interest_to_suppliers |-> 0, interest_to_borrowers |-> 0,
                dust_to_reserves |-> 0]
          ELSE ComputeAccrual(b.supply_index, b.borrow_index, rates[a],
                              b.total_deposited, b.total_borrowed, elapsed)

\* Only a positive difference is credited to the reserve.
Skim(r) == IF r.dust_to_reserves > 0 THEN r.dust_to_reserves ELSE 0

\* Mutant: the new indexes are not written back.
WithAccrualKeepsIndexes(b, r, fee) ==
    [b EXCEPT !.last_accrual = now,
              !.total_deposited = @ + r.interest_to_suppliers,
              !.total_borrowed = @ + r.interest_to_borrowers,
              !.total_balance = @ + r.interest_to_suppliers + Skim(r),
              !.protocol_fees = @ + fee,
              !.lifetime_reserve_earned = @ + fee]

\* The book b after the accrual r, of which `fee` is skimmed for the protocol.
WithAccrual(b, r, fee) ==
    [b EXCEPT !.supply_index = r.supply_index,
              !.borrow_index = r.borrow_index,
              !.last_accrual = now,
              !.total_deposited = @ + r.interest_to_suppliers,
              !.total_borrowed = @ + r.interest_to_borrowers,
              !.total_balance = @ + r.interest_to_suppliers + Skim(r),
              !.protocol_fees = @ + fee,
              !.lifetime_reserve_earned = @ + fee]

Fee(a, r) == IF rates[a].reserve_factor_bps > 0 THEN Skim(r) ELSE 0

SettledBook(a, r) == WithAccrual(book[a], r, Fee(a, r))

\* The book of asset a after accrue_and_persist_interest.
Accrued(a) == SettledBook(a, Accrual(a))

\* Auxiliary: what an accrual adds to balance and debt beyond what it adds to
\* deposits and fees.
Excess(a, r) == r.interest_to_borrowers + Skim(r) - Fee(a, r)
AccrualExcess(a) == Excess(a, Accrual(a))

BookAccruals(assets) ==
    booked' = [a \in Asset |-> IF a \in assets THEN booked[a] + AccrualExcess(a)
                                              ELSE booked[a]]

\* A stored position carried to the current time (read_accrued_position).
CarriedTo(p, r) == ComputeAccruedPosition(p, r.supply_index, r.borrow_index)
AtCurrentIndex(p, a) == CarriedTo(p, Accrual(a))

CurrentPosition(u, a) == AtCurrentIndex(position[u][a], a)

\* write_position removes an entry whose two balances are zero.
Stored(p) == IF p.deposited = 0 /\ p.borrowed = 0 THEN EmptyPosition ELSE p

-----------------------------------------------------------------------------
(* Collateral.                                                             *)

\* ceil(BPS * BPS / ratio)
RatioToFactor(ratio) ==
    IF ratio = 0 THEN BPS ELSE (BPS * BPS + ratio - 1) \div ratio

CollateralFactor(a) ==
    IF risk[a].stored THEN risk[a].collateral_factor_bps
                      ELSE RatioToFactor(config.min_collateral_ratio_bps)

LiquidationThreshold(a) ==
    IF risk[a].stored THEN risk[a].liquidation_threshold_bps
                      ELSE RatioToFactor(config.min_collateral_ratio_bps)

Deposits(u) == [a \in Asset |-> CurrentPosition(u, a).deposited]

\* Value of deposits, each weighted by its asset's factor, in value * bps.
Weighted(deposits, factor) ==
    SumFunctionOnSet(
        [a \in Asset |-> IF deposits[a] > 0
                           THEN deposits[a] * Price(a) * factor[a] ELSE 0],
        supported)

PricesReadable(deposits, debt_asset) ==
    /\ PriceReadable(debt_asset)
    /\ \A a \in supported : deposits[a] > 0 => PriceReadable(a)

\* assert_collateralized: only the debt in debt_asset is weighed against the
\* deposits, and a user without debt there passes unseen.
Collateralized(deposits, debt_asset, debt) ==
    \/ debt = 0
    \/ /\ PricesReadable(deposits, debt_asset)
       /\ Weighted(deposits, [a \in Asset |-> CollateralFactor(a)])
             >= debt * Price(debt_asset) * BPS

-----------------------------------------------------------------------------
(* Caps: an operation on `amount` is checked against the accrued total.    *)

WithinDepositCaps(a, total, amount) ==
    /\ caps[a].deposit # Unlimited => total + amount <= caps[a].deposit
    /\ caps[a].supply # 0 => total + amount <= caps[a].supply

\* Mutant: the new debt itself is not counted.
WithinBorrowCapsBefore(a, total, amount) ==
    /\ caps[a].borrow # Unlimited => total <= caps[a].borrow
    /\ caps[a].aggregate_borrow # 0 => total <= caps[a].aggregate_borrow

WithinBorrowCaps(a, total, amount) ==
    /\ caps[a].borrow # Unlimited => total + amount <= caps[a].borrow
    /\ caps[a].aggregate_borrow # 0
          => total + amount <= caps[a].aggregate_borrow

-----------------------------------------------------------------------------
(* User entrypoints.                                                       *)

\* The book b with its deposits, debt, reserve balance and fees changed by
\* these amounts.
Posted(b, deposited, borrowed, balance, fees) ==
    [b EXCEPT !.total_deposited = @ + deposited,
              !.total_borrowed = @ + borrowed,
              !.total_balance = @ + balance,
              !.protocol_fees = @ + fees]

SetPosition(u, a, p) ==
    position' = [position EXCEPT ![u][a] = Stored(p)]

Deposit(user, asset, amount) ==
    LET b == Accrued(asset)
        p == CurrentPosition(user, asset)
    IN  /\ ~paused
        /\ asset \in supported
        /\ amount > 0
        /\ WithinDepositCaps(asset, b.total_deposited, amount)
        /\ b.total_deposited + amount <= MaxBalance
        /\ SetPosition(user, asset, [p EXCEPT !.deposited = @ + amount])
        /\ book' = [book EXCEPT ![asset] = Posted(b, amount, 0, amount, 0)]
        /\ BookAccruals({asset})
        /\ UNCHANGED <<now, paused, supported, oracleVars, adminVars, lost>>

Borrow(user, borrow_asset, collateral_asset, amount) ==
    LET b == Accrued(borrow_asset)
        p == CurrentPosition(user, borrow_asset)
    IN  /\ ~paused
        /\ {borrow_asset, collateral_asset} \subseteq supported
        /\ amount > 0
        /\ WithinBorrowCaps(borrow_asset, b.total_borrowed, amount)
        /\ amount <= b.total_balance
        /\ Collateralized(Deposits(user), borrow_asset, p.borrowed + amount)
        /\ SetPosition(user, borrow_asset, [p EXCEPT !.borrowed = @ + amount])
        /\ book' = [book EXCEPT ![borrow_asset] = Posted(b, 0, amount, -amount, 0)]
        /\ BookAccruals({borrow_asset})
        /\ UNCHANGED <<now, paused, supported, oracleVars, adminVars, lost>>

\* Mutant: forgiven dust stays in the total.
RepaidBookKeepsDust(b, amount, dust) ==
    Posted(b, 0, -amount, amount, 0)

\* The book b after a repayment that forgives `dust`.
RepaidBook(b, amount, dust) ==
    Posted(b, 0, -(amount + dust), amount, 0)

\* Repaying stays possible while paused.  A remainder of at most
\* DUST_THRESHOLD is forgiven.
Repay(user, asset, amount) ==
    LET b == Accrued(asset)
        p == CurrentPosition(user, asset)
        rest == p.borrowed - amount
        dust == IF rest > 0 /\ rest <= DUST_THRESHOLD THEN rest ELSE 0
    IN  /\ asset \in supported
        /\ amount > 0
        /\ amount <= p.borrowed
        /\ SetPosition(user, asset, [p EXCEPT !.borrowed = rest - dust])
        /\ book' = [book EXCEPT ![asset] = RepaidBook(b, amount, dust)]
        /\ lost' = [lost EXCEPT ![asset] = @ + dust]
        /\ BookAccruals({asset})
        /\ UNCHANGED <<now, paused, supported, oracleVars, adminVars>>

\* Withdrawing stays possible while paused.
Withdraw(user, withdrawn_asset, debt_asset, amount) ==
    LET b == Accrued(withdrawn_asset)
        p == CurrentPosition(user, withdrawn_asset)
    IN  /\ {withdrawn_asset, debt_asset} \subseteq supported
        /\ amount > 0
        /\ amount <= p.deposited
        /\ amount <= b.total_balance
        /\ Collateralized([Deposits(user) EXCEPT ![withdrawn_asset] = @ - amount],
                          debt_asset, CurrentPosition(user, debt_asset).borrowed)
        /\ SetPosition(user, withdrawn_asset, [p EXCEPT !.deposited = @ - amount])
        /\ book' = [book EXCEPT ![withdrawn_asset] =
                                   Posted(b, -amount, 0, -amount, 0)]
        /\ BookAccruals({withdrawn_asset})
        /\ UNCHANGED <<now, paused, supported, oracleVars, adminVars, lost>>

\* accrue_interest: anyone may settle an asset's interest.
AccrueInterest(asset) ==
    /\ ~paused
    /\ asset \in supported
    /\ book' = [book EXCEPT ![asset] = Accrued(asset)]
    /\ BookAccruals({asset})
    /\ UNCHANGED <<now, paused, supported, oracleVars, adminVars, position, lost>>

-----------------------------------------------------------------------------
(* Liquidation and bad debt.                                               *)

Smaller(m, n) == IF m <= n THEN m ELSE n

\* The health test of liquidate: one debt against all weighted deposits.
Liquidatable(user, debt_asset) ==
    LET debt == CurrentPosition(user, debt_asset).borrowed
    IN  /\ debt # 0
        /\ PricesReadable(Deposits(user), debt_asset)
        /\ Weighted(Deposits(user), [a \in Asset |-> LiquidationThreshold(a)])
              < debt * Price(debt_asset) * BPS

MaxRepay(user, debt_asset) ==
    (CurrentPosition(user, debt_asset).borrowed * config.close_factor_bps) \div BPS

\* A repayment above the close factor is refused, not clipped.
MayLiquidate(user, collateral_asset, debt_asset, repay_amount) ==
    LET repay == Smaller(repay_amount, CurrentPosition(user, debt_asset).borrowed)
    IN  /\ {collateral_asset, debt_asset} \subseteq supported
        /\ repay_amount > 0
        /\ Liquidatable(user, debt_asset)
        /\ repay <= MaxRepay(user, debt_asset)
        /\ repay > 0
        /\ PriceReadable(collateral_asset)

\* Mutant: the value is not divided by the collateral's price.
SeizeAmountUnpriced(user, collateral_asset, debt_asset, repay) ==
    Smaller((repay * Price(debt_asset) * (BPS + config.discount_bps)) \div BPS,
            CurrentPosition(user, collateral_asset).deposited)

SeizeAmount(user, collateral_asset, debt_asset, repay) ==
    LET value == (repay * Price(debt_asset) * (BPS + config.discount_bps)) \div BPS
    IN  Smaller(value \div Price(collateral_asset),
                CurrentPosition(user, collateral_asset).deposited)

\* Mutant: the liquidator's collateral is read before the borrower's writes.
LiquidatedPositionsStale(liquidator, user, collateral_asset, debt_asset, repay, seize) ==
    LET debt == CurrentPosition(user, debt_asset)
        collateral == CurrentPosition(user, collateral_asset)
        first == [position EXCEPT ![user][debt_asset] =
                     Stored([debt EXCEPT !.borrowed = @ - repay])]
        second == [first EXCEPT ![user][collateral_asset] =
                      Stored([collateral EXCEPT !.deposited = @ - seize])]
        gained == CurrentPosition(liquidator, collateral_asset)
    IN  [second EXCEPT ![liquidator][collateral_asset] =
            Stored([gained EXCEPT !.deposited = @ + seize])]

\* The three position writes, in the code's order: the borrower's debt, the
\* borrower's collateral (a copy read before the first write), the
\* liquidator's collateral (read after both).
LiquidatedPositions(liquidator, user, collateral_asset, debt_asset, repay, seize) ==
    LET debt == CurrentPosition(user, debt_asset)
        collateral == CurrentPosition(user, collateral_asset)
        first == [position EXCEPT ![user][debt_asset] =
                     Stored([debt EXCEPT !.borrowed = @ - repay])]
        second == [first EXCEPT ![user][collateral_asset] =
                      Stored([collateral EXCEPT !.deposited = @ - seize])]
        gained == AtCurrentIndex(second[liquidator][collateral_asset],
                                 collateral_asset)
    IN  [second EXCEPT ![liquidator][collateral_asset] =
            Stored([gained EXCEPT !.deposited = @ + seize])]

\* Liquidation stays possible while paused.
Liquidate(liquidator, user, collateral_asset, debt_asset, repay_amount) ==
    LET repay == Smaller(repay_amount, CurrentPosition(user, debt_asset).borrowed)
        seize == SeizeAmount(user, collateral_asset, debt_asset, repay)
        b == Accrued(debt_asset)
    IN  /\ MayLiquidate(user, collateral_asset, debt_asset, repay_amount)
        /\ position' = LiquidatedPositions(liquidator, user, collateral_asset,
                                           debt_asset, repay, seize)
        /\ book' = [book EXCEPT
               ![collateral_asset] = Accrued(collateral_asset),
               ![debt_asset] = Posted(b, 0, -repay, repay, 0)]
        /\ BookAccruals({collateral_asset, debt_asset})
        /\ UNCHANGED <<now, paused, supported, oracleVars, adminVars, lost>>

\* writeoff_bad_debt returns early, after accruing, when there is no debt.
WriteoffBadDebt(user, debt_asset) ==
    LET p == CurrentPosition(user, debt_asset)
        touched == supported \cup {debt_asset}
    IN  /\ ~paused
        /\ \/ /\ p.borrowed = 0
              /\ book' = [book EXCEPT ![debt_asset] = Accrued(debt_asset)]
              /\ BookAccruals({debt_asset})
              /\ UNCHANGED <<position, lost>>
           \/ /\ p.borrowed # 0
              /\ \A a \in supported : CurrentPosition(user, a).deposited <= 0
              /\ SetPosition(user, debt_asset, [p EXCEPT !.borrowed = 0])
              /\ book' = [a \in Asset |->
                     IF a = debt_asset
                       THEN Posted(Accrued(a), 0, -p.borrowed, 0, 0)
                       ELSE IF a \in touched THEN Accrued(a) ELSE book[a]]
              /\ lost' = [lost EXCEPT ![debt_asset] = @ + p.borrowed]
              /\ BookAccruals(touched)
        /\ UNCHANGED <<now, paused, supported, oracleVars, adminVars>>

-----------------------------------------------------------------------------
(* Admin entrypoints: direct setters and applied timelock payloads.        *)

\* Mutant: only outstanding debt keeps an asset listed.
VacantOfDebt(asset) == book[asset].total_borrowed = 0

Vacant(asset) ==
    /\ book[asset].total_deposited = 0
    /\ book[asset].total_borrowed = 0

\* Disabling an asset is refused while its totals are not both zero; enabling
\* seeds the interest state if there is none.
ApplyConfigureAsset(asset, enable) ==
    /\ ~paused
    /\ ~enable => Vacant(asset)
    /\ supported' = IF enable THEN supported \cup {asset} ELSE supported \ {asset}
    /\ book' = [book EXCEPT ![asset].last_accrual =
                   IF enable /\ @ = NoEntry THEN now ELSE @]
    /\ UNCHANGED <<now, paused, oracleVars, adminVars, position, lost, booked>>

ApplyUpdateAssetCaps(asset, deposit_cap, borrow_cap) ==
    /\ ~paused
    /\ asset \in supported
    /\ deposit_cap = Unlimited
         \/ (deposit_cap > 0 /\ deposit_cap >= book[asset].total_deposited)
    /\ borrow_cap = Unlimited
         \/ (borrow_cap > 0 /\ borrow_cap >= book[asset].total_borrowed)
    /\ caps' = [caps EXCEPT ![asset].deposit = deposit_cap,
                            ![asset].borrow = borrow_cap]
    /\ UNCHANGED <<now, paused, supported, oracleVars, poolVars, risk, rates,
                   config>>

\* Unlike the pair above, these two take no account of what is outstanding.
SetSupplyCap(asset, cap) ==
    /\ asset \in supported /\ ~paused /\ cap >= 0
    /\ caps' = [caps EXCEPT ![asset].supply = cap]
    /\ UNCHANGED <<now, paused, supported, oracleVars, poolVars, risk, rates,
                   config>>

SetBorrowCap(asset, cap) ==
    /\ asset \in supported /\ ~paused /\ cap >= 0
    /\ caps' = [caps EXCEPT ![asset].aggregate_borrow = cap]
    /\ UNCHANGED <<now, paused, supported, oracleVars, poolVars, risk, rates,
                   config>>

\* Mutant: the factor is not compared with the threshold.
ValidRiskParamsUnordered(factor, threshold, bonus) ==
    /\ threshold <= BPS
    /\ bonus <= BPS \div 5
    /\ threshold + bonus <= BPS

ValidRiskParams(factor, threshold, bonus) ==
    /\ factor <= threshold
    /\ threshold <= BPS
    /\ bonus <= BPS \div 5
    /\ threshold + bonus <= BPS

ApplySetAssetRiskParams(asset, factor, threshold, bonus) ==
    /\ ~paused
    /\ asset \in supported
    /\ ValidRiskParams(factor, threshold, bonus)
    /\ risk' = [risk EXCEPT ![asset] =
           [stored |-> TRUE, collateral_factor_bps |-> factor,
            liquidation_threshold_bps |-> threshold,
            liquidation_bonus_bps |-> bonus]]
    /\ UNCHANGED <<now, paused, supported, oracleVars, poolVars, caps, rates,
                   config>>

ApplySetMinCollateralRatio(bps) ==
    /\ ~paused
    /\ bps >= BPS
    /\ config' = [config EXCEPT !.min_collateral_ratio_bps = bps]
    /\ UNCHANGED <<now, paused, supported, oracleVars, poolVars, caps, risk,
                   rates>>

SetLiquidationParams(close_bps, discount_bps) ==
    /\ ~paused
    /\ close_bps <= BPS /\ discount_bps <= BPS
    /\ config' = [config EXCEPT !.close_factor_bps = close_bps,
                                !.discount_bps = discount_bps]
    /\ UNCHANGED <<now, paused, supported, oracleVars, poolVars, caps, risk,
                   rates>>

SetMaxProtocolFeeBps(bps) ==
    /\ ~paused
    /\ bps <= BPS \div 2
    /\ config' = [config EXCEPT !.max_protocol_fee_bps = bps]
    /\ UNCHANGED <<now, paused, supported, oracleVars, poolVars, caps, risk,
                   rates>>

\* Interest up to now is settled with the old parameters first.
SetInterestParams(asset, params) ==
    /\ ~paused
    /\ asset \in supported
    /\ params.kink_util_bps \in BPS \div 10 .. (95 * BPS) \div 100
    /\ params.base_rate_bps + params.slope1_bps + params.slope2_bps <= 10 * BPS
    /\ params.reserve_factor_bps <= BPS \div 2
    /\ book' = [book EXCEPT ![asset] = Accrued(asset)]
    /\ BookAccruals({asset})
    /\ rates' = [rates EXCEPT ![asset] = params]
    /\ UNCHANGED <<now, paused, supported, oracleVars, caps, risk, config,
                   position, lost>>

ApplyRecordProtocolFee(asset, amount) ==
    LET b == Accrued(asset)
        limit == TruncDiv((b.total_balance - b.protocol_fees)
                             * config.max_protocol_fee_bps, BPS)
    IN  /\ ~paused
        /\ asset \in supported
        /\ amount > 0
        /\ config.max_protocol_fee_bps # 0 => amount <= limit
        /\ b.protocol_fees + amount <= MaxBalance
        /\ book' = [book EXCEPT ![asset] = Posted(b, 0, 0, amount, amount)]
        /\ BookAccruals({asset})
        /\ UNCHANGED <<now, paused, supported, oracleVars, adminVars, position,
                       lost>>

\* Checked against the fees before accrual (validate_payload) and after it.
ApplyWithdrawReserves(asset, amount) ==
    LET b == Accrued(asset)
    IN  /\ ~paused
        /\ asset \in supported
        /\ amount > 0
        /\ amount <= book[asset].protocol_fees
        /\ amount <= b.protocol_fees
        /\ book' = [book EXCEPT ![asset] = Posted(b, 0, 0, -amount, -amount)]
        /\ BookAccruals({asset})
        /\ UNCHANGED <<now, paused, supported, oracleVars, adminVars, position,
                       lost>>

\* The pause executed by governance, and the immediate unpause.
ApplySetPaused(flag) ==
    /\ paused' = flag
    /\ UNCHANGED <<now, supported, oracleVars, adminVars, poolVars>>

\* Ledger time passes.
Tick ==
    /\ now < MaxTime
    /\ now' = now + 1
    /\ UNCHANGED <<paused, supported, oracleVars, adminVars, poolVars>>

-----------------------------------------------------------------------------
UserStep ==
    \E u \in User, a \in Asset, n \in Amounts :
        \/ Deposit(u, a, n)
        \/ Repay(u, a, n)
        \/ \E c \in Asset : \/ Borrow(u, a, c, n)
                            \/ Withdraw(u, a, c, n)

LiquidationStep ==
    \/ \E l, u \in User, pair \in LiquidationPairs, n \in Amounts :
          Liquidate(l, u, pair[1], pair[2], n)
    \/ \E u \in User, a \in Asset : WriteoffBadDebt(u, a)

AdminStep ==
    \/ \E a \in Asset :
          \/ \E enable \in Configuring : ApplyConfigureAsset(a, enable)
          \/ \E c, d \in CapChoices : ApplyUpdateAssetCaps(a, c, d)
          \/ \E c \in CapChoices : SetSupplyCap(a, c) \/ SetBorrowCap(a, c)
          \/ \E r \in RiskChoices : ApplySetAssetRiskParams(a, r[1], r[2], r[3])
          \/ \E r \in RateChoices : SetInterestParams(a, r)
    \/ \E r \in RatioChoices : ApplySetMinCollateralRatio(r)
    \/ \E l \in LiquidationChoices : SetLiquidationParams(l[1], l[2])
    \/ \E f \in Pausing : ApplySetPaused(f) \/ ApplySetPaused(~f)

FeeStep ==
    \/ \E f \in FeeLimits : SetMaxProtocolFeeBps(f)
    \/ \E a \in Asset, n \in FeeAmounts :
          ApplyRecordProtocolFee(a, n) \/ ApplyWithdrawReserves(a, n)

Next ==
    \/ UserStep
    \/ \E a \in Asset : AccrueInterest(a)
    \/ LiquidationStep
    \/ AdminStep
    \/ FeeStep
    \/ OracleStep /\ UNCHANGED <<now, paused, supported, adminVars, poolVars>>
    \/ Tick

Spec == Init /\ [][Next]_vars

-----------------------------------------------------------------------------
(* Properties.                                                             *)

BookType ==
    [total_deposited : Int, total_borrowed : Int, total_balance : Int,
     protocol_fees : Int, lifetime_reserve_earned : Int,
     supply_index : Nat, borrow_index : Nat, last_accrual : Nat \cup {NoEntry}]

PositionType ==
    [deposited : Nat, borrowed : Nat,
     supply_index_snapshot : Nat \ {0}, borrow_index_snapshot : Nat \ {0}]

CapsType == [deposit : Int, borrow : Int, supply : Nat, aggregate_borrow : Nat]

RiskType ==
    [stored : BOOLEAN, collateral_factor_bps : Nat,
     liquidation_threshold_bps : Nat, liquidation_bonus_bps : Nat]

ConfigType ==
    [min_collateral_ratio_bps : Nat, close_factor_bps : Nat,
     discount_bps : Nat, max_protocol_fee_bps : Nat]

\* Types; the balances of a position are natural numbers, so no sequence of
\* operations takes more from a position than it holds.
TypeOK ==
    /\ now \in 0 .. MaxTime
    /\ paused \in BOOLEAN
    /\ supported \subseteq Asset
    /\ oracle \in [Asset -> OracleType]
    /\ maxAge \in Nat
    /\ book \in [Asset -> BookType]
    /\ position \in [User -> [Asset -> PositionType]]
    /\ caps \in [Asset -> CapsType]
    /\ risk \in [Asset -> RiskType]
    /\ rates \in [Asset -> RatesType]
    /\ config \in ConfigType
    /\ lost \in [Asset -> Nat]
    /\ booked \in [Asset -> Int]

\* The books balance.  What the reserve is said to hold, what borrowers owe
\* and what was forgiven always equals what depositors and the protocol may
\* claim, plus the interest ever booked: no deposit, borrow, repayment,
\* withdrawal, liquidation, write-off, fee or accrual breaks the identity
\* (the paired updates of AssetReserve, TotalDeposited and TotalBorrowed).
BalanceSheet ==
    \A a \in Asset :
        book[a].total_balance + book[a].total_borrowed + lost[a]
            = book[a].total_deposited + book[a].protocol_fees + booked[a]

\* A sum of balances, as the number of units that users hold.
UnitsHeld(balance) == UNION {{u} \X (1 .. balance[u]) : u \in User}
SumOf(balance) == Cardinality(UnitsHeld(balance))

DepositsIn(a) == [u \in User |-> position[u][a].deposited]
DebtsIn(a) == [u \in User |-> position[u][a].borrowed]

\* TotalDeposited and TotalBorrowed are the sums over the users' positions.
\* Claimed while no interest accrues, where no rounding separates them.
TotalsMatchPositions ==
    \A a \in Asset : /\ book[a].total_deposited = SumOf(DepositsIn(a))
                     /\ book[a].total_borrowed = SumOf(DebtsIn(a))

\* An asset in which somebody still has a deposit or a debt is supported, so
\* nobody's funds are trapped behind require_supported_asset
\* (the guard of apply_configure_asset).
NoTrappedPosition ==
    \A u \in User, a \in Asset :
        position[u][a].deposited + position[u][a].borrowed > 0 => a \in supported

\* What is outstanding is within the caps set by update_asset_caps, however
\* cap updates and deposits or borrows are interleaved.  Claimed while no
\* interest accrues: accrual does not look at the caps.
OutstandingWithinCaps ==
    \A a \in Asset :
        /\ caps[a].deposit # Unlimited => book[a].total_deposited <= caps[a].deposit
        /\ caps[a].borrow # Unlimited => book[a].total_borrowed <= caps[a].borrow

\* Every stored snapshot is behind its index, so realizing a position
\* (compute_accrued_position) never takes interest away from it.
SnapshotsBehindIndexes ==
    \A a \in Asset :
        /\ book[a].supply_index >= RATE_SCALE
        /\ book[a].borrow_index >= RATE_SCALE
        /\ \A u \in User :
              /\ position[u][a].supply_index_snapshot <= book[a].supply_index
              /\ position[u][a].borrow_index_snapshot <= book[a].borrow_index

\* Indexes and the accrual clock never go back.
IndexesNeverFall ==
    \A a \in Asset :
        /\ book'[a].supply_index >= book[a].supply_index
        /\ book'[a].borrow_index >= book[a].borrow_index
        /\ book'[a].last_accrual >= book[a].last_accrual

\* Whatever the parameters and whoever settles when, indexes only grow and no
\* position gets ahead of them, so that settled interest is never taken back.
InterestMovesForward == [][SnapshotsBehindIndexes' /\ IndexesNeverFall]_vars

\* A debt that has just grown by borrowing cannot be liquidated at the same
\* prices: what borrow accepts (collateral factors) liquidate rejects
\* (liquidation thresholds), under any risk parameters an admin can store.
BorrowIsNotLiquidatable ==
    [][\A u \in User, a \in Asset :
          (now' = now /\ position'[u][a].borrowed > CurrentPosition(u, a).borrowed)
              => ~Liquidatable(u, a)']_vars

\* The part of a debt that the weighted deposits do not cover, in value * bps.
Shortfall(u, debt_asset) ==
    CurrentPosition(u, debt_asset).borrowed * Price(debt_asset) * BPS
    - Weighted(Deposits(u), [a \in Asset |-> LiquidationThreshold(a)])

\* A liquidation never leaves the borrower's debt less covered than before:
\* the discounted collateral it takes counts for less than the debt it repays.
\* Claimed for a discount that leaves room under the threshold, which
\* set_liquidation_params itself does not ask for.
LiquidationReducesShortfall ==
    [][\A u \in User, a \in Asset :
          (/\ position'[u][a].borrowed < position[u][a].borrowed
           /\ book'[a].total_borrowed < book[a].total_borrowed
           /\ Liquidatable(u, a)
           /\ \A c \in Asset : LiquidationThreshold(c) * (BPS + config.discount_bps)
                                  <= BPS * BPS)
              => Shortfall(u, a)' <= Shortfall(u, a)]_vars

\* While paused nobody's debt and no total of deposits grows beyond its
\* interest, and no setting changes: only the exits stay open
\* (require_not_paused; repay, withdraw and liquidate do not call it).
PauseStopsNewRisk ==
    [][paused /\ paused' =>
          /\ UNCHANGED <<supported, oracle, maxAge, caps, risk, rates, config>>
          /\ \A a \in Asset :
                \/ book'[a] = book[a]
                \/ book'[a].total_deposited <= Accrued(a).total_deposited
          /\ \A u \in User, a \in Asset :
                position'[u][a].borrowed <= CurrentPosition(u, a).borrowed]_vars

-----------------------------------------------------------------------------
(* What a comment says of the pool and the code does not do: the property  *)
(* of a run that TLC must refute.                                          *)

\* "The weighted collateral value must cover the total debt value" after a
\* withdrawal (assert_collateralized), at prices that can be read.
WithdrawalLeavesDebtCovered ==
    [][\A u \in User, a \in Asset :
          (/\ position'[u][a].deposited < position[u][a].deposited
           /\ book'[a].total_deposited < book[a].total_deposited)
              => Weighted(Deposits(u), [c \in Asset |-> CollateralFactor(c)])'
                    >= SumFunctionOnSet(
                           [d \in Asset |-> CurrentPosition(u, d).borrowed
                                              * Price(d) * BPS], Asset)']_vars
=============================================================================

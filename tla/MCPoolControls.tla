--------------------------- MODULE MCPoolControls ---------------------------
(* LendingPool's entrypoints under changing settings and rates.  Each       *)
(* behaviour is about one subject, so that they never multiply: xlm, in     *)
(* which users hold positions, under changing settings; usdc, which is not  *)
(* configured yet and whose oracle is set up; xlm while it accrues          *)
(* interest; or one market of MCInterest with the formulas at each loan.    *)
EXTENDS MCLendingPool, MCInterest

VARIABLE profile

profileVars == <<vars, marketVars, profile>>

\* Nothing of asset a changes.
Untouched(a) ==
    /\ book'[a] = book[a] /\ oracle'[a] = oracle[a]
    /\ caps'[a] = caps[a] /\ risk'[a] = risk[a]
    /\ (a \in supported') <=> (a \in supported)
    /\ \A u \in User : position'[u][a] = position[u][a]

\* On xlm: prices double, no limit or bound is set, no time passes, and
\* neither deposits nor fees exceed two units.
SmallPool ==
    /\ oracle'[xlm].price \in {1, 2}
    /\ oracle'[xlm].max_change_bps = Unset /\ oracle'[xlm].min = Unset
    /\ maxAge' \in {0, InitMaxAge}
    /\ book'[xlm].total_deposited <= 2 /\ book'[xlm].protocol_fees <= 2

PriceStep == OracleStep /\ UNCHANGED <<now, paused, supported, adminVars, poolVars>>

ControlsStep ==
    /\ profile = "controls"
    /\ \/ UserStep
       \/ BatchStep
       \/ \E a \in Asset : AccrueInterest(a)
       \/ LiquidationStep
       \/ AdminStep
       \/ FeeStep
       \/ PriceStep
    /\ Untouched(usdc) /\ SmallPool
    /\ UNCHANGED <<rates, profile, marketVars>>

ListingStep ==
    /\ profile = "oracle"
    /\ AdminStep \/ PriceStep \/ Tick
    /\ Untouched(xlm)
    /\ UNCHANGED <<caps, risk, rates, config, position, profile, marketVars>>

\* Deposits and loans large enough for their interest to be seen; dust is
\* forgiven at most once.
InterestStep ==
    /\ profile = "interest"
    /\ \/ \E u \in User, n \in {1, 8} :
             \/ Deposit(u, xlm, n) \/ Borrow(u, xlm, xlm, n)
             \/ Repay(u, xlm, n) \/ Withdraw(u, xlm, xlm, n)
       \/ BatchStep
       \/ AccrueInterest(xlm)
       \/ LiquidationStep
       \/ \E r \in RateChoices : SetInterestParams(xlm, r)
       \/ Tick
    /\ Untouched(usdc) /\ lost'[xlm] <= DUST_THRESHOLD
    /\ UNCHANGED <<profile, marketVars>>

MarketStep == profile = "market" /\ LendOneMore /\ UNCHANGED <<vars, profile>>

\* A behaviour of the pool leaves the market at one of its initial states.
ProfileInit ==
    /\ Init /\ MarketInit
    /\ profile \in {"controls", "oracle", "interest", "market"}
    /\ profile # "market" => supplied = 1 /\ params = CHOOSE p \in MCParams : TRUE

ProfileSpec ==
    /\ ProfileInit
    /\ [][ControlsStep \/ ListingStep \/ InterestStep \/ MarketStep]_profileVars

UsdcUnpriced == [a \in Asset |-> IF a = xlm THEN 1 ELSE 0]
=============================================================================

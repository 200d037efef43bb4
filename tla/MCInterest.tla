----------------------------- MODULE MCInterest -----------------------------
(***************************************************************************)
(* The formulas of Interest against what they stand for, over every market *)
(* of up to MaxTotal units: a market starts with some supply and no loans  *)
(* and lends out one unit after the other, at each of a set of rate        *)
(* parameters.                                                             *)
(***************************************************************************)
EXTENDS Interest

CONSTANTS
    MaxTotal,            \* bound: the largest supply
    MaxIndex             \* bound: the largest index and snapshot

VARIABLES supplied, borrowed, params

marketVars == <<supplied, borrowed, params>>

\* Kinks at a half and at nine tenths, flat, gentle and steep slopes.
MCParams ==
    [base_rate_bps : {0, BPS \div 5}, kink_util_bps : {BPS \div 2, (9 * BPS) \div 10},
     slope1_bps : {0, BPS \div 2}, slope2_bps : {0, BPS \div 2, 3 * BPS},
     reserve_factor_bps : {0, BPS \div 10, BPS \div 2}]

MarketInit == supplied \in 1 .. MaxTotal /\ borrowed = 0 /\ params \in MCParams

LendOneMore ==
    /\ borrowed < supplied
    /\ borrowed' = borrowed + 1
    /\ UNCHANGED <<supplied, params>>

Util == UtilizationRatio(supplied, borrowed)

AnnualRate == BorrowRate(params, Util)

-----------------------------------------------------------------------------
\* The rounded annual rate is the exact two-slope rate, less under two basis
\* points: the two divisions of borrow_rate round down and nothing else is lost.
BorrowRateNearReference ==
    LET below == IF Util <= params.kink_util_bps THEN Util ELSE params.kink_util_bps
        exact == params.base_rate_bps * BPS + params.slope1_bps * below
                 + params.slope2_bps * (Util - below)
    IN  /\ AnnualRate * BPS <= exact
        /\ exact < (AnnualRate + 2) * BPS

\* At annual rates suppliers are never promised more than borrowers owe, with
\* every rounding on the way (utilization_ratio, borrow_rate, supply_rate).
SupplyRateCovered ==
    supplied * SupplyRate(params, Util, AnnualRate) <= borrowed * AnnualRate

\* Both rates are what they stand for: the borrow rate the two-slope curve, the
\* supply rate no more than that curve can pay for (interest.rs).
RatesAreSound == BorrowRateNearReference /\ SupplyRateCovered

\* Settling a balance at an intermediate index j as well only rounds it down
\* once more, and by less than 1 + k/j units: a supplier never gains by touching
\* a position more often, and a borrower, whose debt is rounded the same way,
\* gains less than that at each touch (compute_accrued_position re-anchors both
\* snapshots and truncates both balances).
ExtraSettlementBounded ==
    \A i \in 1 .. MaxIndex : \A j \in i .. MaxIndex : \A k \in j .. MaxIndex :
        LET once == Realized(borrowed, i, k)
            twice == Realized(Realized(borrowed, i, j), j, k)
        IN  twice <= once /\ j * (once - twice) < j + k
=============================================================================

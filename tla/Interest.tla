------------------------------ MODULE Interest ------------------------------
(***************************************************************************)
(* The two-slope interest model of veilend-soroban/src/interest.rs: pure   *)
(* fixed-point arithmetic.  The scales are constants because TLC's         *)
(* integers are 32 bits wide; every rounding step is the code's.  i128     *)
(* overflow aborts the transaction (overflow checks are on), which is no   *)
(* step of any module that uses these operators.                           *)
(***************************************************************************)
EXTENDS Integers

CONSTANTS
    BPS,                 \* 10_000: basis points in one
    RATE_SCALE,          \* 1_000_000_000: an index of 1.0
    SECONDS_PER_YEAR,    \* 31_536_000
    U32                  \* 2^32, the modulus of a cast `as u32`

ASSUME ScaleAssumption ==
    /\ BPS \in Nat \ {0}
    /\ RATE_SCALE \in Nat \ {0}
    /\ SECONDS_PER_YEAR \in Nat \ {0}
    /\ U32 \in Nat /\ U32 > BPS

\* Rust's `/`: the quotient is truncated toward zero.
Magnitude(n) == IF n < 0 THEN -n ELSE n

TruncDiv(n, d) ==
    LET q == Magnitude(n) \div Magnitude(d)
    IN  IF (n < 0) = (d < 0) THEN q ELSE -q

\* `x as u32` of a value that is at most BPS.
AsU32(n) == n % U32

\* Utilization in basis points: 0 without supply, clamped from above only.
UtilizationRatio(total_supplied, total_borrowed) ==
    IF total_supplied = 0 THEN 0
    ELSE LET util == TruncDiv(total_borrowed * BPS, total_supplied)
         IN  AsU32(IF util > BPS THEN BPS ELSE util)

\* Mutant: above the kink the slope below it is forgotten.
BorrowRateForgetsSlope1(params, util) ==
    IF util <= params.kink_util_bps
      THEN params.base_rate_bps + (params.slope1_bps * util) \div BPS
      ELSE params.base_rate_bps
           + (params.slope2_bps * (util - params.kink_util_bps)) \div BPS

\* The annual borrow rate in basis points, with its kink.
BorrowRate(params, util) ==
    IF util <= params.kink_util_bps
      THEN params.base_rate_bps + (params.slope1_bps * util) \div BPS
      ELSE params.base_rate_bps
           + (params.slope1_bps * params.kink_util_bps) \div BPS
           + (params.slope2_bps * (util - params.kink_util_bps)) \div BPS

\* Mutant: the whole supply earns, not the part that is lent out.
SupplyRateOnIdle(params, util, borrow_rate) ==
    (borrow_rate * (BPS - params.reserve_factor_bps)) \div BPS

\* The annual supply rate: the borrow rate on the used part, less the skim.
SupplyRate(params, util, borrow_rate) ==
    LET rest == BPS - params.reserve_factor_bps
        pass_through == IF rest < 0 THEN 0 ELSE rest
    IN  (borrow_rate * util * pass_through) \div (BPS * BPS)

\* What one unit of RATE_SCALE grows by in `elapsed` seconds at an annual rate.
Growth(rate, elapsed) ==
    (rate * elapsed * RATE_SCALE) \div (BPS * SECONDS_PER_YEAR)

\* Mutant: the growth replaces the index.
GrownReplaced(index, growth) == (index * growth) \div RATE_SCALE

\* An index after growth by a factor.
Grown(index, growth) == index + (index * growth) \div RATE_SCALE

\* compute_accrual for a state with the given indexes, `elapsed` seconds on.
ComputeAccrual(supply_index, borrow_index, params, total_supplied, total_borrowed, elapsed) ==
    LET util == UtilizationRatio(total_supplied, total_borrowed)
        borrow_rate == BorrowRate(params, util)
        borrow_growth == Growth(borrow_rate, elapsed)
        supply_growth == Growth(SupplyRate(params, util, borrow_rate), elapsed)
        to_borrowers == TruncDiv(total_borrowed * borrow_growth, RATE_SCALE)
        to_suppliers == TruncDiv(total_supplied * supply_growth, RATE_SCALE)
    IN  [supply_index |-> Grown(supply_index, supply_growth),
         borrow_index |-> Grown(borrow_index, borrow_growth),
         interest_to_suppliers |-> to_suppliers,
         interest_to_borrowers |-> to_borrowers,
         dust_to_reserves |-> to_borrowers - to_suppliers]

\* Mutant: interest is rounded up.
RealizedRoundedUp(balance, snapshot, index) ==
    IF balance > 0
      THEN balance + TruncDiv(balance * (index - snapshot) + snapshot - 1, snapshot)
      ELSE balance

\* A balance carried from its snapshot to the current index.
Realized(balance, snapshot, index) ==
    IF balance > 0
      THEN balance + TruncDiv(balance * (index - snapshot), snapshot)
      ELSE balance

\* compute_accrued_position: both sides realized, both snapshots re-anchored.
ComputeAccruedPosition(position, supply_index, borrow_index) ==
    IF position.borrow_index_snapshot <= 0 \/ position.supply_index_snapshot <= 0
      THEN position
      ELSE [deposited |-> Realized(position.deposited,
                                   position.supply_index_snapshot, supply_index),
            borrowed |-> Realized(position.borrowed,
                                  position.borrow_index_snapshot, borrow_index),
            supply_index_snapshot |-> supply_index,
            borrow_index_snapshot |-> borrow_index]
=============================================================================

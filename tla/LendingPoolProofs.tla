------------------------- MODULE LendingPoolProofs --------------------------
(***************************************************************************)
(* Type correctness of LendingPool, the order of snapshots and indexes,    *)
(* the balance sheet, the monotonicity of the indexes, the price bounds    *)
(* and the pause, for any assets, users, amounts, prices, parameters and   *)
(* batches.                                                                *)
(*                                                                         *)
(* A balance is a natural number only because a snapshot is never ahead of *)
(* its index, and an index may be written back only because the accrual    *)
(* clock is never ahead of the ledger's: the three go through together.    *)
(*                                                                         *)
(* First the arithmetic of Interest, whatever the scales, the rate         *)
(* parameters and the totals: results have their types, indexes never      *)
(* shrink, a balance never loses by being settled and never gains by being *)
(* settled more often, and the rates of MCInterest's markets are sound     *)
(* for every market.                                                       *)
(***************************************************************************)
EXTENDS PoolBatches, MCInterest, SumTheorems, TLAPS

-----------------------------------------------------------------------------
(* Interest.                                                                 *)

Rates == [base_rate_bps : Nat, kink_util_bps : Nat, slope1_bps : Nat,
          slope2_bps : Nat, reserve_factor_bps : Nat]

\* A product of natural numbers is one.
LEMMA ProductNat == \A m, n \in Nat : m * n \in Nat
OBVIOUS

\* Division of natural numbers.
LEMMA QuotientNat == \A n \in Nat, d \in Nat \ {0} : n \div d \in Nat
OBVIOUS

LEMMA ProductGrows ==
    \A a, b, c \in Nat : a <= b => a * c <= b * c
OBVIOUS

LEMMA ProductCancels ==
    \A a, b \in Nat, c \in Nat \ {0} : a * c <= b * c => a <= b
OBVIOUS

\* A quotient is the largest number that fits.
LEMMA QuotientFits ==
    ASSUME NEW n \in Nat, NEW d \in Nat \ {0}
    PROVE  /\ n \div d \in Nat
           /\ (n \div d) * d <= n /\ n < (n \div d) * d + d
<1> DEFINE q == n \div d
           r == n % d
<1>1. n = d * q + r /\ r \in 0 .. d - 1 /\ q \in Nat
  OBVIOUS
<1>2. d * q = q * d
  BY <1>1
<1> HIDE DEF q, r
<1>3. q * d \in Nat
  BY <1>1, ProductNat
<1>4. q * d <= n /\ n < q * d + d
  BY <1>1, <1>2, <1>3
<1> QED BY <1>1, <1>4 DEF q

LEMMA FitsQuotient ==
    ASSUME NEW n \in Nat, NEW d \in Nat \ {0}, NEW m \in Nat, m * d <= n
    PROVE  m <= n \div d
<1> DEFINE q == n \div d
<1>1. q \in Nat /\ n < q * d + d
  BY QuotientFits
<1> HIDE DEF q
<1>2. SUFFICES ASSUME m > q PROVE FALSE
  BY <1>1 DEF q
<1>3. (q + 1) * d <= m * d
  BY <1>1, <1>2, ProductGrows
<1> QED BY <1>1, <1>3

\* For natural numbers Rust's division is the integer division.
LEMMA TruncDivNat ==
    ASSUME NEW n \in Nat, NEW d \in Nat \ {0}
    PROVE  TruncDiv(n, d) = n \div d
BY DEF TruncDiv, Magnitude

\* Rust's division of integers yields an integer, of natural numbers a natural
\* number.
LEMMA TruncDivType ==
    ASSUME NEW n \in Int, NEW d \in Nat \ {0}
    PROVE  /\ TruncDiv(n, d) \in Int
           /\ n >= 0 => TruncDiv(n, d) \in Nat
<1>1. Magnitude(n) \in Nat /\ Magnitude(d) = d
  BY DEF Magnitude
<1>2. Magnitude(n) \div Magnitude(d) \in Nat
  BY <1>1, QuotientNat
<1> QED BY <1>2 DEF TruncDiv

\* utilization_ratio yields an unsigned number for any totals, also negative ones.
LEMMA UtilizationType ==
    ASSUME NEW s \in Int, NEW b \in Int
    PROVE  UtilizationRatio(s, b) \in Nat
<1> USE ScaleAssumption
<1>1. \A n \in Int : n % U32 \in Nat
  OBVIOUS
<1>2. CASE s = 0
  BY <1>2 DEF UtilizationRatio
<1>3. CASE s # 0
  <2> DEFINE util == TruncDiv(b * BPS, s)
  <2>1. Magnitude(s) \in Nat \ {0}
    BY <1>3 DEF Magnitude
  <2>2. b * BPS \in Int
    OBVIOUS
  <2>3. Magnitude(b * BPS) \in Nat
    BY <2>2 DEF Magnitude
  <2>4. Magnitude(b * BPS) \div Magnitude(s) \in Nat
    BY <2>1, <2>3, QuotientNat
  <2>5. util \in Int
    BY <2>4 DEF TruncDiv
  <2> HIDE DEF util
  <2>6. (IF util > BPS THEN BPS ELSE util) \in Int
    BY <2>5
  <2>7. UtilizationRatio(s, b) = (IF util > BPS THEN BPS ELSE util) % U32
    BY <1>3 DEF UtilizationRatio, AsU32, util
  <2> QED BY <1>1, <2>6, <2>7
<1> QED BY <1>2, <1>3

\* Rates are unsigned.
LEMMA BorrowRateType ==
    ASSUME NEW p \in Rates, NEW util \in Nat
    PROVE  BorrowRate(p, util) \in Nat
<1> USE ScaleAssumption
<1>1. /\ p.base_rate_bps \in Nat /\ p.slope1_bps \in Nat
      /\ p.slope2_bps \in Nat /\ p.kink_util_bps \in Nat
  BY DEF Rates
<1>2. /\ (p.slope1_bps * util) \div BPS \in Nat
      /\ (p.slope1_bps * p.kink_util_bps) \div BPS \in Nat
  BY <1>1, ProductNat, QuotientNat
<1>3. ASSUME util > p.kink_util_bps
      PROVE  (p.slope2_bps * (util - p.kink_util_bps)) \div BPS \in Nat
  <2>1. util - p.kink_util_bps \in Nat
    BY <1>1, <1>3
  <2> QED BY <1>1, <2>1, ProductNat, QuotientNat
<1> QED BY <1>1, <1>2, <1>3 DEF BorrowRate

LEMMA SupplyRateType ==
    ASSUME NEW p \in Rates, NEW util \in Nat, NEW r \in Nat
    PROVE  SupplyRate(p, util, r) \in Nat
<1> USE ScaleAssumption
<1> DEFINE rest == BPS - p.reserve_factor_bps
           pass == IF rest < 0 THEN 0 ELSE rest
<1>1. pass \in Nat
  BY DEF Rates
<1>2. r * util * pass \in Nat
  <2>1. r * util \in Nat
    BY ProductNat
  <2> HIDE DEF pass
  <2> QED BY <1>1, <2>1, ProductNat
<1>3. BPS * BPS \in Nat \ {0}
  OBVIOUS
<1>4. (r * util * pass) \div (BPS * BPS) \in Nat
  BY <1>2, <1>3, QuotientNat
<1> QED BY <1>4 DEF SupplyRate

LEMMA GrowthType ==
    ASSUME NEW r \in Nat, NEW elapsed \in Nat
    PROVE  Growth(r, elapsed) \in Nat
<1> USE ScaleAssumption
<1>1. r * elapsed \in Nat
  BY ProductNat
<1>2. r * elapsed * RATE_SCALE \in Nat
  BY <1>1, ProductNat
<1>3. BPS * SECONDS_PER_YEAR \in Nat \ {0}
  OBVIOUS
<1> QED BY <1>2, <1>3, QuotientNat DEF Growth

\* Growing an index never lowers it.
LEMMA GrownUp ==
    ASSUME NEW i \in Nat, NEW g \in Nat
    PROVE  Grown(i, g) \in Nat /\ Grown(i, g) >= i
<1> USE ScaleAssumption
<1>1. (i * g) \div RATE_SCALE \in Nat
  BY ProductNat, QuotientNat
<1> QED BY <1>1 DEF Grown

AccrualType ==
    [supply_index : Nat, borrow_index : Nat, interest_to_suppliers : Int,
     interest_to_borrowers : Int, dust_to_reserves : Int]

\* compute_accrual never lowers an index, whatever totals it is given.
THEOREM AccrualNeverShrinks ==
    ASSUME NEW si \in Nat, NEW bi \in Nat, NEW p \in Rates,
           NEW s \in Int, NEW b \in Int, NEW elapsed \in Nat
    PROVE  LET r == ComputeAccrual(si, bi, p, s, b, elapsed)
           IN  /\ r \in AccrualType
               /\ r.supply_index >= si
               /\ r.borrow_index >= bi
<1> USE ScaleAssumption
<1> DEFINE util == UtilizationRatio(s, b)
           rate == BorrowRate(p, util)
           bg == Growth(rate, elapsed)
           sg == Growth(SupplyRate(p, util, rate), elapsed)
<1>1. util \in Nat
  BY UtilizationType
<1>2. rate \in Nat
  BY <1>1, BorrowRateType
<1>3. bg \in Nat /\ sg \in Nat
  BY <1>1, <1>2, SupplyRateType, GrowthType
<1> HIDE DEF util, rate, bg, sg
<1>4. /\ TruncDiv(b * bg, RATE_SCALE) \in Int
      /\ TruncDiv(s * sg, RATE_SCALE) \in Int
  <2>1. b * bg \in Int /\ s * sg \in Int
    BY <1>3
  <2> QED BY <2>1, TruncDivType
<1>5. /\ Grown(si, sg) \in Nat /\ Grown(si, sg) >= si
      /\ Grown(bi, bg) \in Nat /\ Grown(bi, bg) >= bi
  BY <1>3, GrownUp
<1>6. ComputeAccrual(si, bi, p, s, b, elapsed) =
        [supply_index |-> Grown(si, sg), borrow_index |-> Grown(bi, bg),
         interest_to_suppliers |-> TruncDiv(s * sg, RATE_SCALE),
         interest_to_borrowers |-> TruncDiv(b * bg, RATE_SCALE),
         dust_to_reserves |-> TruncDiv(b * bg, RATE_SCALE)
                                - TruncDiv(s * sg, RATE_SCALE)]
  BY DEF ComputeAccrual, util, rate, bg, sg
<1> QED BY <1>4, <1>5, <1>6 DEF AccrualType

\* Settling a balance at an index that is not behind its snapshot never takes
\* anything away from it (compute_accrued_position).
THEOREM SettlingNeverLoses ==
    ASSUME NEW x \in Nat, NEW snapshot \in Nat \ {0}, NEW i \in Nat, i >= snapshot
    PROVE  Realized(x, snapshot, i) \in Nat /\ Realized(x, snapshot, i) >= x
<1>1. i - snapshot \in Nat
  OBVIOUS
<1>2. x * (i - snapshot) \in Nat
  BY <1>1, ProductNat
<1>3. TruncDiv(x * (i - snapshot), snapshot) \in Nat
  BY <1>2, TruncDivType
<1> QED BY <1>3 DEF Realized

-----------------------------------------------------------------------------
(* The rates are what they stand for.                                        *)

\* The utilization of a market that lends no more than it holds.
LEMMA UtilizationBounds ==
    ASSUME NEW s \in Nat, NEW b \in Nat
    PROVE  /\ UtilizationRatio(s, b) \in 0 .. BPS
           /\ s * UtilizationRatio(s, b) <= b * BPS
<1> USE ScaleAssumption
<1>1. CASE s = 0
  <2>1. UtilizationRatio(s, b) = 0
    BY <1>1 DEF UtilizationRatio
  <2>2. b * BPS \in Nat
    BY ProductNat
  <2> QED BY <2>1, <2>2
<1>2. CASE s # 0
  <2> DEFINE n == b * BPS
             q == n \div s
             u == IF q > BPS THEN BPS ELSE q
  <2>1. n \in Nat
    BY ProductNat
  <2>2. q \in Nat /\ q * s <= n
    <3> HIDE DEF n
    <3> QED BY <1>2, <2>1, QuotientFits
  <2>3. UtilizationRatio(s, b) = AsU32(u)
    BY <1>2, <2>1, TruncDivNat DEF UtilizationRatio
  <2> HIDE DEF n, q
  <2>4. u \in 0 .. BPS /\ u <= q
    BY <2>2
  <2> HIDE DEF u
  <2>5. AsU32(u) = u
    BY <2>4 DEF AsU32
  <2>6. u * s <= q * s
    BY <2>2, <2>4, ProductGrows
  <2>7. s * u = u * s /\ u * s \in Nat /\ q * s \in Nat
    BY <2>2, <2>4, ProductNat
  <2> QED BY <2>1, <2>2, <2>3, <2>4, <2>5, <2>6, <2>7 DEF n
<1> QED BY <1>1, <1>2

\* Rounding the borrow rate down twice costs less than two basis points.
LEMMA BorrowRateExact ==
    ASSUME NEW p \in Rates, NEW u \in Nat
    PROVE  LET below == IF u <= p.kink_util_bps THEN u ELSE p.kink_util_bps
               exact == p.base_rate_bps * BPS + p.slope1_bps * below
                        + p.slope2_bps * (u - below)
           IN  /\ BorrowRate(p, u) * BPS <= exact
               /\ exact < (BorrowRate(p, u) + 2) * BPS
<1> USE ScaleAssumption
<1> DEFINE b == p.base_rate_bps
           k == p.kink_util_bps
<1>1. b \in Nat /\ k \in Nat /\ p.slope1_bps \in Nat /\ p.slope2_bps \in Nat
  BY DEF Rates
<1>2. CASE u <= k
  <2> DEFINE n == p.slope1_bps * u
             q == n \div BPS
  <2>1. n \in Nat
    BY <1>1, ProductNat
  <2>2. q \in Nat /\ q * BPS <= n /\ n < q * BPS + BPS
    <3> HIDE DEF n
    <3> QED BY <2>1, QuotientFits
  <2>3. BorrowRate(p, u) = b + q
    BY <1>2 DEF BorrowRate
  <2>4. p.slope2_bps * (u - u) = 0
    BY <1>1
  <2>5. (b + q) * BPS = b * BPS + q * BPS /\ (b + q + 2) * BPS = b * BPS + q * BPS + 2 * BPS
    <3> HIDE DEF q, b
    <3> QED BY <1>1, <2>2
  <2>6. b * BPS \in Nat /\ q * BPS \in Nat
    <3> HIDE DEF q, b
    <3> QED BY <1>1, <2>2, ProductNat
  <2>7. (b + q) * BPS <= b * BPS + n + 0 /\ b * BPS + n + 0 < (b + q + 2) * BPS
    <3> HIDE DEF n, q, b
    <3> QED BY <2>1, <2>2, <2>5, <2>6
  <2> QED BY <1>2, <2>3, <2>4, <2>7
<1>3. CASE u > k
  <2> DEFINE n1 == p.slope1_bps * k
             n2 == p.slope2_bps * (u - k)
             q1 == n1 \div BPS
             q2 == n2 \div BPS
  <2>1. n1 \in Nat /\ n2 \in Nat
    <3>1. u - k \in Nat
      BY <1>1, <1>3
    <3> QED BY <1>1, <3>1, ProductNat
  <2>2. /\ q1 \in Nat /\ q1 * BPS <= n1 /\ n1 < q1 * BPS + BPS
        /\ q2 \in Nat /\ q2 * BPS <= n2 /\ n2 < q2 * BPS + BPS
    <3> HIDE DEF n1, n2
    <3> QED BY <2>1, QuotientFits
  <2>3. BorrowRate(p, u) = b + q1 + q2
    BY <1>1, <1>3 DEF BorrowRate
  <2>5. /\ (b + q1 + q2) * BPS = b * BPS + q1 * BPS + q2 * BPS
        /\ (b + q1 + q2 + 2) * BPS = b * BPS + q1 * BPS + q2 * BPS + 2 * BPS
    <3> HIDE DEF q1, q2, b
    <3> QED BY <1>1, <2>2
  <2>6. b * BPS \in Nat /\ q1 * BPS \in Nat /\ q2 * BPS \in Nat
    <3> HIDE DEF q1, q2, b
    <3> QED BY <1>1, <2>2, ProductNat
  <2>7. /\ (b + q1 + q2) * BPS <= b * BPS + n1 + n2
        /\ b * BPS + n1 + n2 < (b + q1 + q2 + 2) * BPS
    <3> HIDE DEF n1, n2, q1, q2, b
    <3> QED BY <2>1, <2>2, <2>5, <2>6
  <2>8. ~(u <= k)
    BY <1>1, <1>3
  <2> QED BY <2>3, <2>7, <2>8
<1> QED BY <1>1, <1>2, <1>3

\* Suppliers are never promised more than borrowers owe.
LEMMA SupplyRateBounds ==
    ASSUME NEW p \in Rates, NEW s \in Nat, NEW b \in Nat, NEW r \in Nat
    PROVE  s * SupplyRate(p, UtilizationRatio(s, b), r) <= b * r
<1> USE ScaleAssumption
<1> DEFINE u == UtilizationRatio(s, b)
           rest == BPS - p.reserve_factor_bps
           pass == IF rest < 0 THEN 0 ELSE rest
           n == (r * u) * pass
           q == n \div (BPS * BPS)
<1>1. u \in Nat /\ s * u <= b * BPS
  BY UtilizationBounds
<1>2. pass \in Nat /\ pass <= BPS
  BY DEF Rates
<1>3. SupplyRate(p, u, r) = q
  BY DEF SupplyRate
<1> HIDE DEF u, pass
<1>4. BPS * BPS \in Nat \ {0} /\ r * u \in Nat
  BY <1>1, ProductNat
<1>5. n \in Nat
  BY <1>2, <1>4, ProductNat
<1>6. q \in Nat /\ q * (BPS * BPS) <= n
  <2> HIDE DEF n
  <2> QED BY <1>4, <1>5, QuotientFits
\* q BPS^2 <= r u pass <= r u BPS, and s u <= b BPS.
<1>7. n <= (r * u) * BPS
  <2>1. pass * (r * u) <= BPS * (r * u)
    BY <1>2, <1>4, ProductGrows
  <2> QED BY <1>2, <1>4, <2>1
<1> HIDE DEF n, q
<1>8. q * BPS <= r * u
  <2>1. (q * BPS) * BPS = q * (BPS * BPS)
    BY <1>6
  <2>2. (q * BPS) * BPS <= (r * u) * BPS
    <3>1. q * (BPS * BPS) \in Nat /\ (r * u) * BPS \in Nat
      BY <1>4, <1>6, ProductNat
    <3> QED BY <1>5, <1>6, <1>7, <2>1, <3>1
  <2>3. q * BPS \in Nat
    BY <1>6, ProductNat
  <2> QED BY <1>4, <2>2, <2>3, ProductCancels
<1>9. (s * q) * BPS <= (s * u) * r
  <2>1. q * BPS \in Nat
    BY <1>6, ProductNat
  <2>2. (q * BPS) * s <= (r * u) * s
    BY <1>4, <1>8, <2>1, ProductGrows
  <2>3. (s * q) * BPS = (q * BPS) * s
    BY <1>6
  <2>4. (s * u) * r = (r * u) * s
    BY <1>1
  <2> QED BY <2>2, <2>3, <2>4
<1>10. (s * u) * r <= (b * r) * BPS
  <2>1. s * u \in Nat /\ b * BPS \in Nat
    BY <1>1, ProductNat
  <2>2. (s * u) * r <= (b * BPS) * r
    BY <1>1, <2>1, ProductGrows
  <2>3. (b * BPS) * r = (b * r) * BPS
    OBVIOUS
  <2> QED BY <2>2, <2>3
<1>11. s * q <= b * r
  <2>1. s * q \in Nat /\ b * r \in Nat /\ s * u \in Nat
    BY <1>1, <1>6, ProductNat
  <2>2. (s * q) * BPS \in Nat /\ (b * r) * BPS \in Nat /\ (s * u) * r \in Nat
    BY <2>1, ProductNat
  <2>3. (s * q) * BPS <= (b * r) * BPS
    BY <1>9, <1>10, <2>2
  <2> QED BY <2>1, <2>3, ProductCancels
<1> QED BY <1>3, <1>11 DEF u

\* A balance carried to a later index is the balance times the ratio of the
\* indexes, rounded down.
LEMMA RealizedIs ==
    ASSUME NEW x \in Nat, NEW i \in Nat \ {0}, NEW j \in Nat, i <= j
    PROVE  /\ Realized(x, i, j) \in Nat
           /\ Realized(x, i, j) * i <= x * j
           /\ \A m \in Nat : m * i <= x * j => m <= Realized(x, i, j)
<1> DEFINE n == x * (j - i)
           q == n \div i
<1>1. j - i \in Nat /\ n \in Nat
  <2>1. j - i \in Nat
    OBVIOUS
  <2> QED BY <2>1, ProductNat
<1>2. q \in Nat /\ q * i <= n /\ n < q * i + i
  <2> HIDE DEF n
  <2> QED BY <1>1, QuotientFits
<1>3. Realized(x, i, j) = x + q
  <2>1. CASE x > 0
    <3>1. TruncDiv(n, i) = q
      <4> HIDE DEF n
      <4> QED BY <1>1, TruncDivNat
    <3> QED BY <2>1, <3>1 DEF Realized
  <2>2. CASE x = 0
    <3>1. n = 0
      BY <1>1, <2>2
    <3>2. q * i <= 0 /\ q * i >= q
      BY <1>2, <3>1
    <3>3. q = 0
      BY <1>2, <3>2
    <3> QED BY <2>2, <3>3 DEF Realized
  <2> QED BY <2>1, <2>2
<1>4. x * j = x * i + n /\ (x + q) * i = x * i + q * i
  <2>1. (x + q) * i = x * i + q * i
    <3> HIDE DEF q
    <3> QED BY <1>2
  <2>2. x * j = x * i + x * (j - i)
    OBVIOUS
  <2> QED BY <2>1, <2>2
<1>5. x * i \in Nat /\ q * i \in Nat
  BY <1>2, ProductNat
<1> HIDE DEF n, q
<1>6. (x + q) * i <= x * j
  BY <1>1, <1>2, <1>4, <1>5
<1>7. ASSUME NEW m \in Nat, m * i <= x * j
      PROVE  m <= x + q
  <2>1. SUFFICES ASSUME m > x + q PROVE FALSE
    BY <1>2
  <2>2. (x + q + 1) * i <= m * i
    <3>1. x + q + 1 \in Nat /\ x + q + 1 <= m
      BY <1>2, <2>1
    <3> QED BY <3>1, ProductGrows
  <2>3. (x + q + 1) * i = x * i + q * i + i
    BY <1>2
  <2> QED BY <1>1, <1>2, <1>4, <1>5, <1>7, <2>2, <2>3
<1> QED BY <1>2, <1>3, <1>6, <1>7

LEMMA SettlingTwice ==
    ASSUME NEW x \in Nat, NEW i \in Nat \ {0}, NEW j \in Nat, NEW k \in Nat, i <= j, j <= k
    PROVE  Realized(Realized(x, i, j), j, k) <= Realized(x, i, k)
<1> DEFINE m == Realized(x, i, j)
           n == Realized(m, j, k)
<1>1. m \in Nat /\ m * i <= x * j /\ j \in Nat \ {0} /\ i <= k
  BY RealizedIs
<1> HIDE DEF m
<1>2. n \in Nat /\ n * j <= m * k
  BY <1>1, RealizedIs
<1> HIDE DEF n
<1>3. (n * j) * i <= (m * k) * i
  <2>1. n * j \in Nat /\ m * k \in Nat
    BY <1>1, <1>2, ProductNat
  <2> QED BY <1>2, <2>1, ProductGrows
<1>4. (m * i) * k <= (x * j) * k
  <2>1. m * i \in Nat /\ x * j \in Nat
    BY <1>1, ProductNat
  <2> QED BY <1>1, <2>1, ProductGrows
<1>5. (n * i) * j <= (x * k) * j
  <2>1. (n * j) * i = (n * i) * j /\ (m * k) * i = (m * i) * k /\ (x * j) * k = (x * k) * j
    BY <1>1, <1>2
  <2>2. n * j \in Nat /\ m * i \in Nat /\ x * j \in Nat
    BY <1>1, <1>2, ProductNat
  <2>3. (n * j) * i \in Nat /\ (m * i) * k \in Nat /\ (x * j) * k \in Nat
    BY <2>2, ProductNat
  <2> QED BY <1>3, <1>4, <2>1, <2>3
<1>6. n * i <= x * k
  <2>1. n * i \in Nat /\ x * k \in Nat
    BY <1>2, ProductNat
  <2> QED BY <1>1, <1>5, <2>1, ProductCancels
<1> QED BY <1>1, <1>2, <1>6, RealizedIs DEF m, n

\* At any totals and rate parameters, also those no run has tried, the two
\* roundings of borrow_rate cost under two basis points and the supply rate is
\* one the borrowers pay for (utilization_ratio, borrow_rate, supply_rate).
THEOREM RatesSound ==
    ASSUME params \in Rates, supplied \in Nat, borrowed \in Nat
    PROVE  RatesAreSound
<1> USE ScaleAssumption
<1>1. Util \in Nat
  BY UtilizationBounds DEF Util
<1>2. AnnualRate \in Nat
  BY <1>1, BorrowRateType DEF AnnualRate
<1>3. BorrowRateNearReference
  BY <1>1, BorrowRateExact DEF BorrowRateNearReference, AnnualRate
<1>4. SupplyRateCovered
  BY <1>2, SupplyRateBounds DEF SupplyRateCovered, Util
<1> QED BY <1>3, <1>4 DEF RatesAreSound

\* What the two roundings of a balance settled twice leave of it: less is lost
\* than a unit at the intermediate index, carried on, and a unit at the last.
LEMMA SettlingTwiceLoses ==
    ASSUME NEW x \in Nat, NEW i \in Nat \ {0}, NEW j \in Nat, NEW k \in Nat, i <= j, j <= k
    PROVE  j * (Realized(x, i, k) - Realized(Realized(x, i, j), j, k)) < j + k
<1> DEFINE o == Realized(x, i, k)
           m == Realized(x, i, j)
           n == Realized(m, j, k)
<1>1. i <= k /\ j \in Nat \ {0} /\ k \in Nat \ {0}
  OBVIOUS
<1>2. o \in Nat /\ o * i <= x * k
  BY <1>1, RealizedIs
<1>3. m \in Nat /\ ~((m + 1) * i <= x * j)
  <2>1. m \in Nat /\ \A t \in Nat : t * i <= x * j => t <= m
    BY RealizedIs
  <2> HIDE DEF m
  <2>2. m + 1 \in Nat /\ ~(m + 1 <= m)
    BY <2>1
  <2> QED BY <2>1, <2>2
<1> HIDE DEF o, m
<1>4. n \in Nat /\ ~((n + 1) * j <= m * k)
  <2>1. n \in Nat /\ \A t \in Nat : t * j <= m * k => t <= n
    BY <1>1, <1>3, RealizedIs
  <2> HIDE DEF n
  <2>2. n + 1 \in Nat /\ ~(n + 1 <= n)
    BY <2>1
  <2> QED BY <2>1, <2>2
<1> HIDE DEF n
<1>5. o * j <= (m + 1) * k
  <2>1. o * i \in Nat /\ x * k \in Nat /\ x * j \in Nat /\ (m + 1) * i \in Nat
        /\ o * j \in Nat /\ (m + 1) * k \in Nat
    BY <1>1, <1>2, <1>3, ProductNat
  <2>2. (o * i) * j <= (x * k) * j
    BY <1>2, <2>1, ProductGrows
  <2>3. (x * j) * k <= ((m + 1) * i) * k
    <3>1. x * j <= (m + 1) * i
      BY <1>3, <2>1
    <3> QED BY <2>1, <3>1, ProductGrows
  <2>4. (o * i) * j = (o * j) * i /\ (x * k) * j = (x * j) * k
        /\ ((m + 1) * i) * k = ((m + 1) * k) * i
    BY <1>2, <1>3
  <2>5. (o * j) * i \in Nat /\ (x * j) * k \in Nat /\ ((m + 1) * k) * i \in Nat
    BY <2>1, ProductNat
  <2>6. (o * j) * i <= ((m + 1) * k) * i
    BY <2>2, <2>3, <2>4, <2>5
  <2> QED BY <2>1, <2>6, ProductCancels
<1>6. /\ (m + 1) * k = m * k + k /\ (n + 1) * j = n * j + j
      /\ j * (o - n) = o * j - n * j
  BY <1>2, <1>3, <1>4
<1>7. m * k \in Nat /\ n * j \in Nat /\ o * j \in Nat
  BY <1>2, <1>3, <1>4, ProductNat
<1>8. j * (o - n) < j + k
  BY <1>4, <1>5, <1>6, <1>7
<1> QED BY <1>8 DEF o, m, n

\* At whatever indexes, a balance that is settled once more on the way is never
\* above the one settled once, and below it by less than a unit now and a unit
\* carried on: what a supplier loses and a borrower saves (compute_accrued_position).
THEOREM SettlingMoreOften ==
    ASSUME borrowed \in Nat, MaxIndex \in Nat
    PROVE  ExtraSettlementBounded
<1> SUFFICES ASSUME NEW i \in 1 .. MaxIndex, NEW j \in i .. MaxIndex, NEW k \in j .. MaxIndex
             PROVE  LET once == Realized(borrowed, i, k)
                        twice == Realized(Realized(borrowed, i, j), j, k)
                    IN  twice <= once /\ j * (once - twice) < j + k
  BY DEF ExtraSettlementBounded
<1>1. i \in Nat \ {0} /\ j \in Nat /\ k \in Nat /\ i <= j /\ j <= k
  OBVIOUS
<1>2. Realized(Realized(borrowed, i, j), j, k) <= Realized(borrowed, i, k)
  BY <1>1, SettlingTwice
<1>3. j * (Realized(borrowed, i, k) - Realized(Realized(borrowed, i, j), j, k)) < j + k
  BY <1>1, SettlingTwiceLoses
<1> QED BY <1>2, <1>3

-----------------------------------------------------------------------------
(* The pool.                                                                 *)

\* No asset was last accrued in the future.
AccrualNotAhead == \A a \in Asset : book[a].last_accrual <= now

IInv == TypeOK /\ SnapshotsBehindIndexes /\ AccrualNotAhead

\* A position that can be settled at the indexes of the accrual r.
Behind(p, r) ==
    /\ p \in PositionType
    /\ p.supply_index_snapshot <= r.supply_index
    /\ p.borrow_index_snapshot <= r.borrow_index

-----------------------------------------------------------------------------
(* Accrual.                                                                *)

LEMMA AccrualFacts ==
    ASSUME IInv, NEW a \in Asset
    PROVE  /\ Accrual(a) \in AccrualType
           /\ Accrual(a).supply_index >= book[a].supply_index
           /\ Accrual(a).borrow_index >= book[a].borrow_index
           /\ Accrual(a).supply_index >= RATE_SCALE
           /\ Accrual(a).borrow_index >= RATE_SCALE
<1> DEFINE b == book[a]
           elapsed == IF b.last_accrual = NoEntry \/ now <= b.last_accrual
                        THEN 0 ELSE now - b.last_accrual
<1>1. /\ b \in BookType
      /\ b.supply_index >= RATE_SCALE /\ b.borrow_index >= RATE_SCALE
      /\ b.supply_index \in Nat /\ b.borrow_index \in Nat
      /\ b.total_deposited \in Int /\ b.total_borrowed \in Int
      /\ b.last_accrual \in Nat \cup {NoEntry}
  BY DEF IInv, TypeOK, SnapshotsBehindIndexes, BookType
<1>2. rates[a] \in Rates
  BY DEF IInv, TypeOK, RatesType, Rates
<1>3. elapsed \in Nat
  <2>1. now \in Nat
    BY DEF IInv, TypeOK
  <2> QED BY <1>1, <2>1 DEF NoEntry
<1> HIDE DEF b
<1>4. CASE elapsed = 0
  <2>1. Accrual(a) = [supply_index |-> b.supply_index,
                      borrow_index |-> b.borrow_index,
                      interest_to_suppliers |-> 0, interest_to_borrowers |-> 0,
                      dust_to_reserves |-> 0]
    BY <1>4 DEF Accrual, b
  <2> QED BY <1>1, <2>1, ScaleAssumption DEF AccrualType, b
<1>5. CASE elapsed # 0
  <2> DEFINE r == ComputeAccrual(b.supply_index, b.borrow_index, rates[a],
                                 b.total_deposited, b.total_borrowed, elapsed)
  <2>1. Accrual(a) = r
    BY <1>5 DEF Accrual, b
  <2> HIDE DEF elapsed
  <2>2. r \in AccrualType /\ r.supply_index >= b.supply_index
                          /\ r.borrow_index >= b.borrow_index
    BY <1>1, <1>2, <1>3, AccrualNeverShrinks
  <2>3. r.supply_index \in Nat /\ r.borrow_index \in Nat
    BY <2>2 DEF AccrualType
  <2> QED BY <1>1, <2>1, <2>2, <2>3, ScaleAssumption DEF b
<1> QED BY <1>4, <1>5

\* What accrual adds to the two sides of an asset's balance sheet.
Sheet(b) == b.total_balance + b.total_borrowed - b.total_deposited - b.protocol_fees

LEMMA AccruedFacts ==
    ASSUME IInv, NEW a \in Asset
    PROVE  /\ Accrued(a) \in BookType
           /\ Accrued(a).supply_index = Accrual(a).supply_index
           /\ Accrued(a).borrow_index = Accrual(a).borrow_index
           /\ Accrued(a).last_accrual = now
           /\ AccrualExcess(a) \in Int
           /\ Sheet(Accrued(a)) = Sheet(book[a]) + AccrualExcess(a)
<1> DEFINE r == Accrual(a)
           b == book[a]
           skim == Skim(r)
           fee == Fee(a, r)
<1>1. /\ r \in AccrualType /\ b \in BookType /\ now \in Nat
  BY AccrualFacts DEF IInv, TypeOK
<1>2. skim \in Int /\ fee \in Int
  BY <1>1 DEF Skim, Fee, AccrualType
<1>3. AccrualExcess(a) = r.interest_to_borrowers + skim - fee
  BY DEF AccrualExcess, Excess
<1>4. Accrued(a) = [b EXCEPT !.supply_index = r.supply_index,
                             !.borrow_index = r.borrow_index,
                             !.last_accrual = now,
                             !.total_deposited = @ + r.interest_to_suppliers,
                             !.total_borrowed = @ + r.interest_to_borrowers,
                             !.total_balance = @ + r.interest_to_suppliers + skim,
                             !.protocol_fees = @ + fee,
                             !.lifetime_reserve_earned = @ + fee]
  BY DEF Accrued, SettledBook, WithAccrual
<1> HIDE DEF r, b, skim, fee
<1>5. /\ r.supply_index \in Nat /\ r.borrow_index \in Nat
      /\ r.interest_to_suppliers \in Int /\ r.interest_to_borrowers \in Int
  BY <1>1 DEF AccrualType
<1>6. /\ b.total_deposited \in Int /\ b.total_borrowed \in Int
      /\ b.total_balance \in Int /\ b.protocol_fees \in Int
      /\ b.lifetime_reserve_earned \in Int
  BY <1>1 DEF BookType
<1>7. Accrued(a) \in BookType
  <2>1. Accrued(a) = [total_deposited |-> b.total_deposited + r.interest_to_suppliers,
                      total_borrowed |-> b.total_borrowed + r.interest_to_borrowers,
                      total_balance |-> b.total_balance + r.interest_to_suppliers + skim,
                      protocol_fees |-> b.protocol_fees + fee,
                      lifetime_reserve_earned |-> b.lifetime_reserve_earned + fee,
                      supply_index |-> r.supply_index,
                      borrow_index |-> r.borrow_index,
                      last_accrual |-> now]
    BY <1>1, <1>4 DEF BookType
  <2>2. /\ b.total_deposited + r.interest_to_suppliers \in Int
        /\ b.total_borrowed + r.interest_to_borrowers \in Int
        /\ b.total_balance + r.interest_to_suppliers + skim \in Int
        /\ b.protocol_fees + fee \in Int
        /\ b.lifetime_reserve_earned + fee \in Int
    BY <1>2, <1>5, <1>6
  <2> QED BY <1>1, <1>5, <2>1, <2>2 DEF BookType
<1>10. /\ Accrued(a).supply_index = r.supply_index
      /\ Accrued(a).borrow_index = r.borrow_index
      /\ Accrued(a).last_accrual = now
      /\ Accrued(a).total_deposited = b.total_deposited + r.interest_to_suppliers
      /\ Accrued(a).total_borrowed = b.total_borrowed + r.interest_to_borrowers
      /\ Accrued(a).total_balance = b.total_balance + r.interest_to_suppliers + skim
      /\ Accrued(a).protocol_fees = b.protocol_fees + fee
  BY <1>1, <1>4 DEF BookType
<1>8. Sheet(Accrued(a)) = Sheet(b) + r.interest_to_borrowers + skim - fee
  BY <1>2, <1>5, <1>6, <1>10 DEF Sheet
<1>9. AccrualExcess(a) \in Int /\ Sheet(b) \in Int
  BY <1>2, <1>3, <1>5, <1>6 DEF Sheet
<1> QED BY <1>2, <1>3, <1>5, <1>7, <1>8, <1>9, <1>10 DEF r, b

-----------------------------------------------------------------------------
(* Positions.                                                              *)

LEMMA StoredPositions ==
    ASSUME IInv, NEW u \in User, NEW a \in Asset
    PROVE  Behind(position[u][a], Accrual(a))
<1>1. position[u][a] \in PositionType
  BY DEF IInv, TypeOK
<1>2. /\ position[u][a].supply_index_snapshot <= book[a].supply_index
      /\ position[u][a].borrow_index_snapshot <= book[a].borrow_index
  BY DEF IInv, SnapshotsBehindIndexes
<1>3. book[a].supply_index \in Nat /\ book[a].borrow_index \in Nat
  BY DEF IInv, TypeOK, BookType
<1> QED BY <1>1, <1>2, <1>3, AccrualFacts DEF Behind, PositionType, AccrualType

LEMMA SettledBehind ==
    ASSUME IInv, NEW a \in Asset, NEW p, Behind(p, Accrual(a))
    PROVE  Behind(AtCurrentIndex(p, a), Accrual(a))
<1> DEFINE r == Accrual(a)
<1>1. /\ r.supply_index \in Nat \ {0} /\ r.borrow_index \in Nat \ {0}
  BY AccrualFacts, ScaleAssumption DEF AccrualType
<1>2. /\ p.deposited \in Nat /\ p.borrowed \in Nat
      /\ p.supply_index_snapshot \in Nat \ {0}
      /\ p.borrow_index_snapshot \in Nat \ {0}
      /\ p.supply_index_snapshot <= r.supply_index
      /\ p.borrow_index_snapshot <= r.borrow_index
  BY DEF Behind, PositionType
<1>3. /\ Realized(p.deposited, p.supply_index_snapshot, r.supply_index) \in Nat
      /\ Realized(p.borrowed, p.borrow_index_snapshot, r.borrow_index) \in Nat
  BY <1>1, <1>2, SettlingNeverLoses
<1>4. AtCurrentIndex(p, a) =
        [deposited |-> Realized(p.deposited, p.supply_index_snapshot, r.supply_index),
         borrowed |-> Realized(p.borrowed, p.borrow_index_snapshot, r.borrow_index),
         supply_index_snapshot |-> r.supply_index,
         borrow_index_snapshot |-> r.borrow_index]
  BY <1>2 DEF AtCurrentIndex, CarriedTo, ComputeAccruedPosition
<1> HIDE DEF r
<1> QED BY <1>1, <1>3, <1>4 DEF Behind, PositionType, r

LEMMA CurrentPositionBehind ==
    ASSUME IInv, NEW u \in User, NEW a \in Asset
    PROVE  Behind(CurrentPosition(u, a), Accrual(a))
BY StoredPositions, SettledBehind DEF CurrentPosition

\* write_position keeps a position behind the indexes: the snapshots of a
\* removed entry are the initial index.
LEMMA StoredBehind ==
    ASSUME IInv, NEW a \in Asset, NEW p, Behind(p, Accrual(a))
    PROVE  Behind(Stored(p), Accrual(a))
<1>1. EmptyPosition \in PositionType
  BY ScaleAssumption DEF EmptyPosition, PositionType
<1> QED BY <1>1, AccrualFacts DEF Stored, Behind, EmptyPosition

-----------------------------------------------------------------------------
(* The market: books and positions.                                        *)

MarketInv ==
    /\ book \in [Asset -> BookType]
    /\ position \in [User -> [Asset -> PositionType]]
    /\ SnapshotsBehindIndexes
    /\ AccrualNotAhead

\* A book that carries the indexes of the accrual of its asset.
Carries(b, a) ==
    /\ b \in BookType
    /\ b.supply_index = Accrual(a).supply_index
    /\ b.borrow_index = Accrual(a).borrow_index
    /\ b.last_accrual = now

\* What a step may do to the indexes and the clock of every asset.
Forward ==
    \A a \in Asset :
        /\ book'[a].supply_index >= book[a].supply_index
        /\ book'[a].borrow_index >= book[a].borrow_index
        /\ book'[a].last_accrual >= book[a].last_accrual

\* A step that settles some assets, writing positions in those only, keeps
\* the market well formed.
LEMMA MarketStep ==
    ASSUME IInv, now' = now,
           NEW S \in SUBSET Asset,
           book' \in [Asset -> BookType],
           \A a \in S : Carries(book'[a], a),
           \A a \in Asset \ S : book'[a] = book[a],
           position' \in [User -> [Asset -> PositionType]],
           \A u \in User : \A a \in S : Behind(position'[u][a], Accrual(a)),
           \A u \in User : \A a \in Asset \ S : position'[u][a] = position[u][a]
    PROVE  MarketInv' /\ Forward
<1>0. now \in Nat
  BY DEF IInv, TypeOK
<1>1. ASSUME NEW a \in Asset
      PROVE  /\ book'[a].supply_index >= RATE_SCALE
             /\ book'[a].borrow_index >= RATE_SCALE
             /\ book'[a].last_accrual <= now
             /\ \A u \in User :
                   /\ position'[u][a].supply_index_snapshot <= book'[a].supply_index
                   /\ position'[u][a].borrow_index_snapshot <= book'[a].borrow_index
  <2>1. CASE a \in S
    BY <1>0, <2>1, AccrualFacts DEF Carries, Behind
  <2>2. CASE a \notin S
    BY <2>2 DEF IInv, SnapshotsBehindIndexes, AccrualNotAhead
  <2> QED BY <2>1, <2>2
<1>2. ASSUME NEW a \in Asset
      PROVE  /\ book'[a].supply_index >= book[a].supply_index
             /\ book'[a].borrow_index >= book[a].borrow_index
             /\ book'[a].last_accrual >= book[a].last_accrual
  <2>0. /\ book[a].supply_index \in Nat /\ book[a].borrow_index \in Nat
        /\ book[a].last_accrual \in Int /\ book[a].last_accrual <= now
    BY DEF IInv, TypeOK, BookType, AccrualNotAhead, NoEntry
  <2>1. CASE a \in S
    BY <1>0, <2>0, <2>1, AccrualFacts DEF Carries
  <2>2. CASE a \notin S
    BY <2>0, <2>2
  <2> QED BY <2>1, <2>2
<1> QED BY <1>1, <1>2 DEF MarketInv, SnapshotsBehindIndexes, AccrualNotAhead, Forward

\* The case of one user's position in one asset.
LEMMA OnePositionStep ==
    ASSUME IInv, now' = now, NEW u \in User, NEW a \in Asset, NEW p, NEW b,
           Behind(p, Accrual(a)), Carries(b, a),
           SetPosition(u, a, p),
           book' = [book EXCEPT ![a] = b]
    PROVE  MarketInv' /\ Forward
<1>1. Behind(Stored(p), Accrual(a)) /\ Stored(p) \in PositionType
  BY StoredBehind DEF Behind
<1>2. position \in [User -> [Asset -> PositionType]] /\ book \in [Asset -> BookType]
  BY DEF IInv, TypeOK
<1>3. position' \in [User -> [Asset -> PositionType]]
  BY <1>1, <1>2 DEF SetPosition
<1>4. book' \in [Asset -> BookType]
  BY <1>2 DEF Carries
<1>5. \A v \in User : Behind(position'[v][a], Accrual(a))
  <2> TAKE v \in User
  <2>1. CASE v = u
    BY <1>1, <1>2, <2>1 DEF SetPosition
  <2>2. CASE v # u
    BY <1>2, <2>2, StoredPositions DEF SetPosition
  <2> QED BY <2>1, <2>2
<1>6. \A v \in User : \A c \in Asset \ {a} : position'[v][c] = position[v][c]
  BY <1>2 DEF SetPosition
<1>7. Carries(book'[a], a) /\ \A c \in Asset \ {a} : book'[c] = book[c]
  BY <1>2
<1> DEFINE S == {a}
<1>8. /\ S \in SUBSET Asset
      /\ \A c \in S : Carries(book'[c], c)
      /\ \A c \in Asset \ S : book'[c] = book[c]
      /\ \A v \in User : \A c \in S : Behind(position'[v][c], Accrual(c))
      /\ \A v \in User : \A c \in Asset \ S : position'[v][c] = position[v][c]
  BY <1>5, <1>6, <1>7
<1> HIDE DEF S
<1> QED BY <1>3, <1>4, <1>8, MarketStep

\* The case of settled books and untouched positions.
LEMMA BooksOnlyStep ==
    ASSUME IInv, now' = now, NEW S \in SUBSET Asset, UNCHANGED position,
           book' \in [Asset -> BookType],
           \A a \in S : Carries(book'[a], a),
           \A a \in Asset \ S : book'[a] = book[a]
    PROVE  MarketInv' /\ Forward
<1>1. position' \in [User -> [Asset -> PositionType]]
  BY DEF IInv, TypeOK
<1>2. \A u \in User : \A a \in S : Behind(position'[u][a], Accrual(a))
  BY StoredPositions
<1> QED BY <1>1, <1>2, MarketStep

-----------------------------------------------------------------------------
(* The balance sheet.                                                      *)

\* A step changes the two sides of every asset's balance sheet alike.
Balanced ==
    \A a \in Asset :
        Sheet(book'[a]) + lost'[a] - booked'[a] = Sheet(book[a]) + lost[a] - booked[a]

SheetTypes == \A a \in Asset : /\ Sheet(book[a]) \in Int
                               /\ lost[a] \in Nat /\ booked[a] \in Int

LEMMA SheetTyped == IInv => SheetTypes
BY DEF IInv, TypeOK, BookType, Sheet, SheetTypes

\* Settling the assets S and, beyond that, changing the sheet of an asset by
\* exactly what is written off.
LEMMA BalancedStep ==
    ASSUME IInv, NEW S \in SUBSET Asset, BookAccruals(S),
           NEW loss \in [Asset -> Nat],
           \A a \in S : Sheet(book'[a]) = Sheet(Accrued(a)) - loss[a],
           \A a \in Asset \ S : book'[a] = book[a] /\ loss[a] = 0,
           \A a \in Asset : lost'[a] = lost[a] + loss[a]
    PROVE  Balanced
<1> SUFFICES ASSUME NEW a \in Asset
             PROVE  Sheet(book'[a]) + lost'[a] - booked'[a]
                      = Sheet(book[a]) + lost[a] - booked[a]
  BY DEF Balanced
<1>1. Sheet(book[a]) \in Int /\ lost[a] \in Nat /\ booked[a] \in Int
  BY SheetTyped DEF SheetTypes
<1>2. CASE a \in S
  <2>1. booked'[a] = booked[a] + AccrualExcess(a)
    BY <1>2 DEF BookAccruals
  <2>2. /\ AccrualExcess(a) \in Int
        /\ Sheet(Accrued(a)) = Sheet(book[a]) + AccrualExcess(a)
    BY AccruedFacts
  <2>3. Sheet(book'[a]) = Sheet(Accrued(a)) - loss[a]
    BY <1>2
  <2>4. lost'[a] = lost[a] + loss[a] /\ loss[a] \in Nat
    OBVIOUS
  <2> QED BY <1>1, <2>1, <2>2, <2>3, <2>4
<1>3. CASE a \notin S
  <2>1. booked'[a] = booked[a]
    BY <1>3 DEF BookAccruals
  <2>2. book'[a] = book[a] /\ lost'[a] = lost[a]
    BY <1>1, <1>3
  <2> QED BY <1>1, <2>1, <2>2
<1> QED BY <1>2, <1>3

\* The interest booked stays a number.
LEMMA BookedTyped ==
    ASSUME IInv, NEW S \in SUBSET Asset, BookAccruals(S)
    PROVE  booked' \in [Asset -> Int]
BY AccruedFacts DEF BookAccruals, IInv, TypeOK

-----------------------------------------------------------------------------
(* One lemma per kind of action.                                           *)

Sound == IInv' /\ Forward /\ Balanced

\* The settings that only admin calls change.
Settings == <<now, paused, supported, oracle, maxAge, caps, risk, rates, config>>

LEMMA SoundStep ==
    ASSUME IInv, UNCHANGED Settings, MarketInv' /\ Forward, Balanced,
           lost' \in [Asset -> Nat], booked' \in [Asset -> Int]
    PROVE  Sound
BY DEF IInv, TypeOK, Settings, MarketInv, Sound

\* An action that settles one asset, rewrites one user's position in it and
\* forgives `loss`.
LEMMA OneAssetStep ==
    ASSUME IInv, UNCHANGED Settings, NEW u \in User, NEW a \in Asset,
           NEW p, NEW b, NEW loss \in Nat,
           Behind(p, Accrual(a)), Carries(b, a),
           position' = position \/ SetPosition(u, a, p),
           book' = [book EXCEPT ![a] = b],
           Sheet(b) = Sheet(Accrued(a)) - loss,
           lost' = [lost EXCEPT ![a] = @ + loss],
           BookAccruals({a})
    PROVE  Sound
<1> DEFINE S == {a}
           l == [c \in Asset |-> IF c = a THEN loss ELSE 0]
<1>1. /\ book \in [Asset -> BookType] /\ lost \in [Asset -> Nat]
      /\ now' = now
  BY DEF IInv, TypeOK, Settings
<1>2. book' \in [Asset -> BookType]
  BY <1>1 DEF Carries
<1>3. S \in SUBSET Asset /\ BookAccruals(S) /\ l \in [Asset -> Nat]
  OBVIOUS
<1>4. /\ \A c \in S : Sheet(book'[c]) = Sheet(Accrued(c)) - l[c]
      /\ \A c \in Asset \ S : book'[c] = book[c] /\ l[c] = 0
  BY <1>1
<1>5. \A c \in Asset : lost'[c] = lost[c] + l[c]
  BY <1>1
<1>6. /\ \A c \in S : Carries(book'[c], c)
      /\ \A c \in Asset \ S : book'[c] = book[c]
  BY <1>1
<1>7. lost' \in [Asset -> Nat]
  BY <1>1
<1> HIDE DEF S, l
<1>8. Balanced
  BY <1>3, <1>4, <1>5, BalancedStep
<1>9. booked' \in [Asset -> Int]
  BY <1>3, BookedTyped
<1>10. MarketInv' /\ Forward
  <2>1. CASE position' = position
    BY <1>1, <1>2, <1>3, <1>6, <2>1, BooksOnlyStep
  <2>2. CASE SetPosition(u, a, p)
    BY <1>1, <2>2, OnePositionStep
  <2> QED BY <2>1, <2>2
<1> QED BY <1>7, <1>8, <1>9, <1>10, SoundStep

\* The parts of the settled book and position that the actions build on.
LEMMA Parts ==
    ASSUME IInv, NEW u \in User, NEW a \in Asset
    PROVE  /\ Carries(Accrued(a), a)
           /\ Behind(CurrentPosition(u, a), Accrual(a))
           /\ CurrentPosition(u, a).deposited \in Nat
           /\ CurrentPosition(u, a).borrowed \in Nat
BY AccruedFacts, CurrentPositionBehind DEF Carries, Behind, PositionType

\* A settled book with other balances: still the settled indexes, and a sheet
\* moved by as much.
LEMMA PostedBook ==
    ASSUME NEW a \in Asset, NEW b, Carries(b, a), NEW dep \in Int,
           NEW bor \in Int, NEW bal \in Int, NEW fee \in Int
    PROVE  /\ Carries(Posted(b, dep, bor, bal, fee), a)
           /\ Sheet(b) \in Int
           /\ Sheet(Posted(b, dep, bor, bal, fee)) = Sheet(b) + bal + bor - dep - fee
<1> DEFINE c == Posted(b, dep, bor, bal, fee)
<1>1. b \in BookType
  BY DEF Carries
<1>2. /\ b.total_deposited \in Int /\ b.total_borrowed \in Int
      /\ b.total_balance \in Int /\ b.protocol_fees \in Int
  BY <1>1 DEF BookType
<1>3. /\ b.total_deposited + dep \in Int /\ b.total_borrowed + bor \in Int
      /\ b.total_balance + bal \in Int /\ b.protocol_fees + fee \in Int
  BY <1>2
<1>4. c = [b EXCEPT !.total_deposited = b.total_deposited + dep,
                    !.total_borrowed = b.total_borrowed + bor,
                    !.total_balance = b.total_balance + bal,
                    !.protocol_fees = b.protocol_fees + fee]
  BY DEF Posted
<1>5. c \in BookType
  BY <1>1, <1>3, <1>4 DEF BookType
<1>6. /\ c.total_deposited = b.total_deposited + dep
      /\ c.total_borrowed = b.total_borrowed + bor
      /\ c.total_balance = b.total_balance + bal
      /\ c.protocol_fees = b.protocol_fees + fee
      /\ c.supply_index = b.supply_index
      /\ c.borrow_index = b.borrow_index
      /\ c.last_accrual = b.last_accrual
  BY <1>1, <1>4 DEF BookType
<1> HIDE DEF c
<1>7. Carries(c, a)
  BY <1>5, <1>6 DEF Carries
<1>8. Sheet(b) \in Int /\ Sheet(c) = Sheet(b) + bal + bor - dep - fee
  BY <1>2, <1>6 DEF Sheet
<1> QED BY <1>7, <1>8 DEF c

LEMMA NothingLost ==
    ASSUME IInv, UNCHANGED lost, NEW a \in Asset
    PROVE  lost' = [lost EXCEPT ![a] = @ + 0]
BY DEF IInv, TypeOK

LEMMA DepositSound ==
    ASSUME IInv, NEW u \in User, NEW a \in Asset, NEW n \in Int, Deposit(u, a, n)
    PROVE  Sound
<1> DEFINE b == Posted(Accrued(a), n, 0, n, 0)
           q == CurrentPosition(u, a)
           p == [q EXCEPT !.deposited = @ + n]
<1>1. /\ n > 0 /\ SetPosition(u, a, p) /\ book' = [book EXCEPT ![a] = b]
      /\ BookAccruals({a}) /\ UNCHANGED Settings /\ UNCHANGED lost
  BY DEF Deposit, Settings, oracleVars, adminVars
<1>2. Carries(Accrued(a), a) /\ Behind(q, Accrual(a)) /\ q.deposited \in Nat
  BY Parts
<1>3. Behind(p, Accrual(a))
  BY <1>1, <1>2 DEF Behind, PositionType
<1>4. Carries(b, a) /\ Sheet(b) = Sheet(Accrued(a)) - 0
  BY <1>2, PostedBook
<1>5. lost' = [lost EXCEPT ![a] = @ + 0]
  BY <1>1, NothingLost
<1> HIDE DEF b, p
<1> QED BY <1>1, <1>3, <1>4, <1>5, OneAssetStep

LEMMA BorrowSound ==
    ASSUME IInv, NEW u \in User, NEW a \in Asset, NEW c \in Asset, NEW n \in Int,
           Borrow(u, a, c, n)
    PROVE  Sound
<1> DEFINE b == Posted(Accrued(a), 0, n, -n, 0)
           q == CurrentPosition(u, a)
           p == [q EXCEPT !.borrowed = @ + n]
<1>1. /\ n > 0 /\ SetPosition(u, a, p) /\ book' = [book EXCEPT ![a] = b]
      /\ BookAccruals({a}) /\ UNCHANGED Settings /\ UNCHANGED lost
  BY DEF Borrow, Settings, oracleVars, adminVars
<1>2. Carries(Accrued(a), a) /\ Behind(q, Accrual(a)) /\ q.borrowed \in Nat
  BY Parts
<1>3. Behind(p, Accrual(a))
  BY <1>1, <1>2 DEF Behind, PositionType
<1>4. Carries(b, a) /\ Sheet(b) = Sheet(Accrued(a)) - 0
  BY <1>2, PostedBook
<1>5. lost' = [lost EXCEPT ![a] = @ + 0]
  BY <1>1, NothingLost
<1> HIDE DEF b, p
<1> QED BY <1>1, <1>3, <1>4, <1>5, OneAssetStep

LEMMA WithdrawSound ==
    ASSUME IInv, NEW u \in User, NEW a \in Asset, NEW c \in Asset, NEW n \in Int,
           Withdraw(u, a, c, n)
    PROVE  Sound
<1> DEFINE b == Posted(Accrued(a), -n, 0, -n, 0)
           q == CurrentPosition(u, a)
           p == [q EXCEPT !.deposited = @ - n]
<1>1. /\ n > 0 /\ n <= q.deposited
      /\ SetPosition(u, a, p) /\ book' = [book EXCEPT ![a] = b]
      /\ BookAccruals({a}) /\ UNCHANGED Settings /\ UNCHANGED lost
  BY DEF Withdraw, Settings, oracleVars, adminVars
<1>2. Carries(Accrued(a), a) /\ Behind(q, Accrual(a)) /\ q.deposited \in Nat
  BY Parts
<1>3. Behind(p, Accrual(a))
  BY <1>1, <1>2 DEF Behind, PositionType
<1>4. Carries(b, a) /\ Sheet(b) = Sheet(Accrued(a)) - 0
  BY <1>2, PostedBook
<1>5. lost' = [lost EXCEPT ![a] = @ + 0]
  BY <1>1, NothingLost
<1> HIDE DEF b, p
<1> QED BY <1>1, <1>3, <1>4, <1>5, OneAssetStep

\* The forgiven remainder is the loss.
LEMMA RepaySound ==
    ASSUME IInv, NEW u \in User, NEW a \in Asset, NEW n \in Int, Repay(u, a, n)
    PROVE  Sound
<1> DEFINE q == CurrentPosition(u, a)
           rest == q.borrowed - n
           dust == IF rest > 0 /\ rest <= DUST_THRESHOLD THEN rest ELSE 0
           b == Posted(Accrued(a), 0, -(n + dust), n, 0)
           p == [q EXCEPT !.borrowed = rest - dust]
<1>1. /\ n > 0 /\ n <= q.borrowed
      /\ SetPosition(u, a, p) /\ book' = [book EXCEPT ![a] = b]
      /\ lost' = [lost EXCEPT ![a] = @ + dust]
      /\ BookAccruals({a}) /\ UNCHANGED Settings
  BY DEF Repay, RepaidBook, Settings, oracleVars, adminVars
<1>2. Carries(Accrued(a), a) /\ Behind(q, Accrual(a)) /\ q.borrowed \in Nat
  BY Parts
<1>3. rest \in Nat /\ dust \in Nat /\ rest - dust \in Nat
  BY <1>1, <1>2
<1> HIDE DEF rest, dust
<1>4. Behind(p, Accrual(a))
  BY <1>2, <1>3 DEF Behind, PositionType
<1>5. Carries(b, a) /\ Sheet(b) = Sheet(Accrued(a)) - dust
  <2>1. -(n + dust) \in Int
    BY <1>3
  <2>2. /\ Carries(b, a) /\ Sheet(Accrued(a)) \in Int
        /\ Sheet(b) = Sheet(Accrued(a)) + n + (-(n + dust)) - 0 - 0
    BY <1>2, <2>1, PostedBook
  <2> QED BY <1>3, <2>2
<1> HIDE DEF b, p
<1> QED BY <1>1, <1>3, <1>4, <1>5, OneAssetStep

\* Steps that settle one asset and may move its reserve, but no position:
\* accrue_interest, the fee entrypoints, set_interest_params and a write-off
\* that finds no debt.
LEMMA ReserveStep ==
    ASSUME IInv, NEW a \in Asset, NEW b, now' = now,
           Carries(b, a), Sheet(b) = Sheet(Accrued(a)),
           book' = [book EXCEPT ![a] = b],
           BookAccruals({a}), UNCHANGED <<position, lost>>
    PROVE  /\ MarketInv' /\ Forward /\ Balanced
           /\ lost' \in [Asset -> Nat] /\ booked' \in [Asset -> Int]
<1> DEFINE S == {a}
           l == [c \in Asset |-> 0]
<1>1. Sheet(Accrued(a)) \in Int
  BY AccruedFacts, PostedBook DEF Carries
<1>2. book \in [Asset -> BookType] /\ lost \in [Asset -> Nat]
  BY DEF IInv, TypeOK
<1>3. book' \in [Asset -> BookType]
  BY <1>2 DEF Carries
<1>4. /\ S \in SUBSET Asset /\ BookAccruals(S) /\ l \in [Asset -> Nat]
      /\ \A c \in S : Carries(book'[c], c)
      /\ \A c \in S : Sheet(book'[c]) = Sheet(Accrued(c)) - l[c]
      /\ \A c \in Asset \ S : book'[c] = book[c] /\ l[c] = 0
      /\ \A c \in Asset : lost'[c] = lost[c] + l[c]
  BY <1>1, <1>2
<1> HIDE DEF S, l
<1>5. Balanced
  BY <1>4, BalancedStep
<1>6. booked' \in [Asset -> Int]
  BY <1>4, BookedTyped
<1>7. MarketInv' /\ Forward
  BY <1>3, <1>4, BooksOnlyStep
<1> QED BY <1>2, <1>5, <1>6, <1>7

LEMMA AccrueInterestSound ==
    ASSUME IInv, NEW a \in Asset, AccrueInterest(a)
    PROVE  Sound
<1>1. /\ book' = [book EXCEPT ![a] = Accrued(a)] /\ BookAccruals({a})
      /\ UNCHANGED <<position, lost>> /\ UNCHANGED Settings /\ now' = now
  BY DEF AccrueInterest, Settings, oracleVars, adminVars
<1>2. Carries(Accrued(a), a)
  BY AccruedFacts DEF Carries
<1> QED BY <1>1, <1>2, ReserveStep, SoundStep

LEMMA FeesSound ==
    ASSUME IInv, NEW a \in Asset, NEW n \in Int,
           ApplyRecordProtocolFee(a, n) \/ ApplyWithdrawReserves(a, n)
    PROVE  Sound
<1>1. PICK m \in Int :
         /\ book' = [book EXCEPT ![a] = Posted(Accrued(a), 0, 0, m, m)]
         /\ BookAccruals({a})
         /\ UNCHANGED <<position, lost>> /\ UNCHANGED Settings /\ now' = now
  BY DEF ApplyRecordProtocolFee, ApplyWithdrawReserves, Settings, oracleVars,
         adminVars
<1>2. Carries(Accrued(a), a)
  BY AccruedFacts DEF Carries
<1> DEFINE b == Posted(Accrued(a), 0, 0, m, m)
<1>3. Carries(b, a) /\ Sheet(b) = Sheet(Accrued(a))
  BY <1>2, PostedBook
<1> HIDE DEF b
<1>4. book' = [book EXCEPT ![a] = b]
  BY <1>1 DEF b
<1> QED BY <1>1, <1>3, <1>4, ReserveStep, SoundStep

\* The three writes of liquidate, in the order of the code, whether or not the
\* liquidator is the borrower and the two assets are one.
LEMMA LiquidatedTyped ==
    ASSUME IInv, NEW l \in User, NEW u \in User, NEW c \in Asset, NEW d \in Asset,
           NEW repay \in Nat, NEW seize \in Nat,
           repay <= CurrentPosition(u, d).borrowed,
           seize <= CurrentPosition(u, c).deposited
    PROVE  LET new == LiquidatedPositions(l, u, c, d, repay, seize)
           IN  /\ new \in [User -> [Asset -> PositionType]]
               /\ \A v \in User : \A a \in {c, d} : Behind(new[v][a], Accrual(a))
               /\ \A v \in User : \A a \in Asset \ {c, d} :
                     new[v][a] = position[v][a]
<1> DEFINE Fine(f) ==
             /\ f \in [User -> [Asset -> PositionType]]
             /\ \A v \in User : \A a \in {c, d} : Behind(f[v][a], Accrual(a))
             /\ \A v \in User : \A a \in Asset \ {c, d} : f[v][a] = position[v][a]
<1>1. Fine(position)
  BY StoredPositions DEF IInv, TypeOK
<1>2. ASSUME NEW f, Fine(f), NEW v \in User, NEW a \in {c, d}, NEW p,
             Behind(p, Accrual(a))
      PROVE  Fine([f EXCEPT ![v][a] = Stored(p)])
  <2>1. Behind(Stored(p), Accrual(a)) /\ Stored(p) \in PositionType
    BY <1>2, StoredBehind DEF Behind
  <2> DEFINE g == [f EXCEPT ![v][a] = Stored(p)]
             s == Stored(p)
  <2>2. /\ f \in [User -> [Asset -> PositionType]] /\ s \in PositionType
    BY <1>2, <2>1
  <2>3. g = [f EXCEPT ![v][a] = s]
    OBVIOUS
  <2> HIDE DEF g, s
  <2>4. g \in [User -> [Asset -> PositionType]]
    BY <2>2, <2>3
  <2>5. /\ g[v][a] = s
        /\ \A w \in User : \A e \in Asset :
              (w # v \/ e # a) => g[w][e] = f[w][e]
    BY <2>2, <2>3
  <2>6. ASSUME NEW w \in User, NEW e \in {c, d}
        PROVE  Behind(g[w][e], Accrual(e))
    <3>1. CASE w = v /\ e = a
      BY <2>1, <2>5, <3>1 DEF s
    <3>2. CASE w # v \/ e # a
      BY <1>2, <2>5, <3>2
    <3> QED BY <3>1, <3>2
  <2>7. \A w \in User : \A e \in Asset \ {c, d} : g[w][e] = position[w][e]
    BY <1>2, <2>5
  <2> QED BY <2>4, <2>6, <2>7 DEF g
<1> DEFINE debt == CurrentPosition(u, d)
           coll == CurrentPosition(u, c)
           first == [position EXCEPT ![u][d] =
                        Stored([debt EXCEPT !.borrowed = @ - repay])]
           second == [first EXCEPT ![u][c] =
                        Stored([coll EXCEPT !.deposited = @ - seize])]
           gained == AtCurrentIndex(second[l][c], c)
           third == [second EXCEPT ![l][c] =
                        Stored([gained EXCEPT !.deposited = @ + seize])]
<1>3. /\ Behind(debt, Accrual(d)) /\ debt.borrowed \in Nat
      /\ Behind(coll, Accrual(c)) /\ coll.deposited \in Nat
  BY Parts
<1>4. /\ Behind([debt EXCEPT !.borrowed = @ - repay], Accrual(d))
      /\ Behind([coll EXCEPT !.deposited = @ - seize], Accrual(c))
  BY <1>3 DEF Behind, PositionType
<1> HIDE DEF Fine, debt, coll
<1>5. Fine(first)
  BY <1>1, <1>2, <1>4
<1> HIDE DEF first
<1>6. Fine(second)
  BY <1>2, <1>4, <1>5 DEF second
<1> HIDE DEF second
<1>7. Behind(gained, Accrual(c))
  BY <1>6, SettledBehind DEF Fine
<1>8. Behind([gained EXCEPT !.deposited = @ + seize], Accrual(c))
  BY <1>7 DEF Behind, PositionType
<1> HIDE DEF gained
<1>9. Fine(third)
  BY <1>2, <1>6, <1>8
<1>10. LiquidatedPositions(l, u, c, d, repay, seize) = third
  BY DEF LiquidatedPositions, debt, coll, first, second, gained, third
<1> QED BY <1>9, <1>10 DEF Fine

\* What a liquidation repays and seizes is there to be repaid and seized.
LEMMA LiquidatedAmounts ==
    ASSUME IInv, NEW l \in User, NEW u \in User, NEW c \in Asset, NEW d \in Asset,
           NEW n \in Int, Liquidate(l, u, c, d, n)
    PROVE  LET repay == Smaller(n, CurrentPosition(u, d).borrowed)
               seize == SeizeAmount(u, c, d, repay)
           IN  /\ repay \in Nat /\ repay > 0
               /\ repay <= CurrentPosition(u, d).borrowed
               /\ seize \in Nat /\ seize <= CurrentPosition(u, c).deposited
<1> DEFINE repay == Smaller(n, CurrentPosition(u, d).borrowed)
           seize == SeizeAmount(u, c, d, repay)
<1>1. repay > 0 /\ PriceReadable(c)
  BY DEF Liquidate, MayLiquidate
<1>2. /\ CurrentPosition(u, d).borrowed \in Nat
      /\ CurrentPosition(u, c).deposited \in Nat
  BY Parts
<1>3. repay \in Nat /\ repay <= CurrentPosition(u, d).borrowed
  BY <1>1, <1>2 DEF Smaller
<1> HIDE DEF repay
<1>4. seize \in Nat /\ seize <= CurrentPosition(u, c).deposited
  <2>1. /\ Price(d) \in Nat /\ Price(c) \in Nat \ {0}
        /\ BPS + config.discount_bps \in Nat
    BY <1>1, ScaleAssumption
       DEF IInv, TypeOK, OracleType, Price, PriceReadable, ConfigType
  <2> DEFINE gross == repay * Price(d) * (BPS + config.discount_bps)
  <2>2. gross \in Nat
    <3>1. repay * Price(d) \in Nat
      BY <1>3, <2>1, ProductNat
    <3> QED BY <2>1, <3>1, ProductNat
  <2>3. seize = Smaller((gross \div BPS) \div Price(c), CurrentPosition(u, c).deposited)
    BY DEF SeizeAmount
  <2> HIDE DEF gross, seize
  <2>4. (gross \div BPS) \div Price(c) \in Nat
    BY <2>1, <2>2, QuotientNat, ScaleAssumption
  <2> QED BY <1>2, <2>3, <2>4 DEF Smaller
<1> QED BY <1>1, <1>3, <1>4 DEF repay

LEMMA LiquidateSound ==
    ASSUME IInv, NEW l \in User, NEW u \in User, NEW c \in Asset, NEW d \in Asset,
           NEW n \in Int, Liquidate(l, u, c, d, n)
    PROVE  Sound
<1> DEFINE repay == Smaller(n, CurrentPosition(u, d).borrowed)
           seize == SeizeAmount(u, c, d, repay)
           S == {c, d}
           b == Posted(Accrued(d), 0, -repay, repay, 0)
           loss == [a \in Asset |-> 0]
<1>1. /\ position' = LiquidatedPositions(l, u, c, d, repay, seize)
      /\ book' = [book EXCEPT ![c] = Accrued(c), ![d] = b]
      /\ BookAccruals(S) /\ UNCHANGED Settings /\ UNCHANGED lost
      /\ repay > 0 /\ PriceReadable(c)
  BY DEF Liquidate, MayLiquidate, Settings, oracleVars, adminVars
<1>2. /\ Carries(Accrued(c), c) /\ Carries(Accrued(d), d)
      /\ CurrentPosition(u, d).borrowed \in Nat
      /\ CurrentPosition(u, c).deposited \in Nat
  BY Parts
<1>3. repay \in Nat /\ repay <= CurrentPosition(u, d).borrowed
  BY LiquidatedAmounts
<1>4. seize \in Nat /\ seize <= CurrentPosition(u, c).deposited
  BY LiquidatedAmounts
<1> HIDE DEF repay
<1> HIDE DEF seize
<1>5. /\ position' \in [User -> [Asset -> PositionType]]
      /\ \A v \in User : \A a \in S : Behind(position'[v][a], Accrual(a))
      /\ \A v \in User : \A a \in Asset \ S : position'[v][a] = position[v][a]
  BY <1>1, <1>3, <1>4, LiquidatedTyped
<1>6. Carries(b, d) /\ Sheet(b) = Sheet(Accrued(d))
  <2>1. -repay \in Int /\ repay \in Int
    BY <1>3
  <2>2. /\ Carries(b, d) /\ Sheet(Accrued(d)) \in Int
        /\ Sheet(b) = Sheet(Accrued(d)) + repay + (-repay) - 0 - 0
    BY <1>2, <2>1, PostedBook
  <2> QED BY <2>1, <2>2
<1>7. Sheet(Accrued(c)) \in Int /\ Sheet(Accrued(d)) \in Int
  BY <1>2, PostedBook
<1>8. book \in [Asset -> BookType] /\ lost \in [Asset -> Nat]
  BY DEF IInv, TypeOK
<1> HIDE DEF b
<1>9. /\ book'[d] = b
      /\ c # d => book'[c] = Accrued(c)
      /\ \A a \in Asset \ S : book'[a] = book[a]
      /\ book' \in [Asset -> BookType]
  BY <1>1, <1>2, <1>6, <1>8 DEF Carries
<1>10. /\ S \in SUBSET Asset /\ loss \in [Asset -> Nat]
       /\ \A a \in S : Carries(book'[a], a)
       /\ \A a \in S : Sheet(book'[a]) = Sheet(Accrued(a)) - loss[a]
       /\ \A a \in Asset \ S : book'[a] = book[a] /\ loss[a] = 0
       /\ \A a \in Asset : lost'[a] = lost[a] + loss[a]
  BY <1>1, <1>2, <1>6, <1>7, <1>8, <1>9
<1> HIDE DEF S, loss
<1>11. Balanced
  BY <1>1, <1>10, BalancedStep
<1>12. booked' \in [Asset -> Int]
  BY <1>1, <1>10, BookedTyped
<1>13. MarketInv' /\ Forward
  <2>1. now' = now
    BY <1>1 DEF Settings
  <2> QED BY <1>5, <1>9, <1>10, <2>1, MarketStep
<1> QED BY <1>1, <1>8, <1>11, <1>12, <1>13, SoundStep

LEMMA WriteoffSound ==
    ASSUME IInv, NEW u \in User, NEW d \in Asset, WriteoffBadDebt(u, d)
    PROVE  Sound
<1> DEFINE q == CurrentPosition(u, d)
<1>0. UNCHANGED Settings /\ now' = now
  BY DEF WriteoffBadDebt, Settings, oracleVars, adminVars
<1>1. Carries(Accrued(d), d) /\ Behind(q, Accrual(d)) /\ q.borrowed \in Nat
  BY Parts
<1>2. CASE q.borrowed = 0
  <2>1. /\ book' = [book EXCEPT ![d] = Accrued(d)] /\ BookAccruals({d})
        /\ UNCHANGED <<position, lost>>
    BY <1>2 DEF WriteoffBadDebt
  <2> QED BY <1>0, <1>1, <2>1, ReserveStep, SoundStep
<1>3. CASE q.borrowed # 0
  <2> DEFINE S == supported \cup {d}
             p == [q EXCEPT !.borrowed = 0]
             b == Posted(Accrued(d), 0, -q.borrowed, 0, 0)
             loss == [a \in Asset |-> IF a = d THEN q.borrowed ELSE 0]
  <2>1. /\ SetPosition(u, d, p)
        /\ book' = [a \in Asset |-> IF a = d THEN b
                                    ELSE IF a \in S THEN Accrued(a) ELSE book[a]]
        /\ lost' = [lost EXCEPT ![d] = @ + q.borrowed]
        /\ BookAccruals(S)
    BY <1>3 DEF WriteoffBadDebt
  <2>2. Behind(Stored(p), Accrual(d)) /\ Stored(p) \in PositionType
    <3>1. Behind(p, Accrual(d))
      BY <1>1 DEF Behind, PositionType
    <3> QED BY <3>1, StoredBehind DEF Behind
  <2>3. Carries(b, d) /\ Sheet(b) = Sheet(Accrued(d)) - q.borrowed
    <3>1. -q.borrowed \in Int
      BY <1>1
    <3>2. /\ Carries(b, d) /\ Sheet(Accrued(d)) \in Int
          /\ Sheet(b) = Sheet(Accrued(d)) + 0 + (-q.borrowed) - 0 - 0
      BY <1>1, <3>1, PostedBook
    <3> QED BY <1>1, <3>2
  <2>4. /\ book \in [Asset -> BookType] /\ lost \in [Asset -> Nat]
        /\ position \in [User -> [Asset -> PositionType]]
        /\ S \in SUBSET Asset /\ loss \in [Asset -> Nat]
    BY <1>1 DEF IInv, TypeOK
  <2>5. \A a \in Asset : Carries(Accrued(a), a) /\ Sheet(Accrued(a)) \in Int
    BY AccruedFacts, PostedBook DEF Carries
  <2> HIDE DEF q, p, b
  <2>6. /\ position' \in [User -> [Asset -> PositionType]]
        /\ \A v \in User : \A a \in Asset \ S : position'[v][a] = position[v][a]
    BY <2>1, <2>2, <2>4 DEF SetPosition
  <2>7. ASSUME NEW v \in User, NEW a \in S
        PROVE  Behind(position'[v][a], Accrual(a))
    <3>1. CASE v = u /\ a = d
      BY <2>1, <2>2, <2>4, <3>1 DEF SetPosition
    <3>2. CASE v # u \/ a # d
      <4>1. position'[v][a] = position[v][a]
        BY <2>1, <2>4, <3>2 DEF SetPosition
      <4> QED BY <2>4, <4>1, StoredPositions
    <3> QED BY <3>1, <3>2
  <2>8. /\ book' \in [Asset -> BookType]
        /\ \A a \in S : Carries(book'[a], a)
        /\ \A a \in Asset \ S : book'[a] = book[a]
    BY <2>1, <2>3, <2>4, <2>5 DEF Carries
  <2>9. /\ \A a \in S : Sheet(book'[a]) = Sheet(Accrued(a)) - loss[a]
        /\ \A a \in Asset \ S : loss[a] = 0
    BY <2>1, <2>3, <2>4, <2>5
  <2>10. /\ \A a \in Asset : lost'[a] = lost[a] + loss[a]
         /\ lost' \in [Asset -> Nat]
    BY <1>1, <2>1, <2>4 DEF q
  <2> HIDE DEF S, loss
  <2>11. Balanced
    <3>1. BookAccruals(S)
      BY <2>1
    <3>2. \A a \in S : Sheet(book'[a]) = Sheet(Accrued(a)) - loss[a]
      BY <2>9
    <3>3. \A a \in Asset \ S : book'[a] = book[a] /\ loss[a] = 0
      BY <2>8, <2>9
    <3> QED BY <2>4, <2>10, <3>1, <3>2, <3>3, BalancedStep
  <2>12. booked' \in [Asset -> Int]
    BY <2>1, <2>4, BookedTyped
  <2>13. MarketInv' /\ Forward
    BY <1>0, <2>4, <2>6, <2>7, <2>8, MarketStep
  <2> QED BY <1>0, <2>10, <2>11, <2>12, <2>13, SoundStep
<1> QED BY <1>2, <1>3

-----------------------------------------------------------------------------
(* Admin calls, prices and time.                                           *)

SettingsType ==
    /\ now \in 0 .. MaxTime
    /\ paused \in BOOLEAN
    /\ supported \subseteq Asset
    /\ oracle \in [Asset -> OracleType]
    /\ maxAge \in Nat
    /\ caps \in [Asset -> CapsType]
    /\ risk \in [Asset -> RiskType]
    /\ rates \in [Asset -> RatesType]
    /\ config \in ConfigType

\* A step that changes settings only.
LEMMA QuietStep ==
    ASSUME IInv, UNCHANGED poolVars, now' >= now, SettingsType'
    PROVE  Sound
<1>1. /\ now \in Nat /\ now' \in Nat
      /\ \A a \in Asset : /\ book[a].supply_index \in Nat
                          /\ book[a].borrow_index \in Nat
                          /\ book[a].last_accrual \in Int
  BY DEF IInv, TypeOK, SettingsType, BookType, NoEntry
<1>2. Forward /\ Balanced
  BY <1>1 DEF poolVars, Forward, Balanced
<1>3. TypeOK'
  BY DEF IInv, TypeOK, SettingsType, poolVars
<1>4. SnapshotsBehindIndexes' /\ AccrualNotAhead'
  BY <1>1 DEF IInv, SnapshotsBehindIndexes, AccrualNotAhead, poolVars
<1> QED BY <1>2, <1>3, <1>4 DEF Sound, IInv

LEMMA OracleSound ==
    ASSUME IInv, OracleStep, UNCHANGED <<now, paused, supported, adminVars, poolVars>>
    PROVE  Sound
<1>1. now \in Nat /\ now' >= now
  BY DEF IInv, TypeOK
<1>2. oracle' \in [Asset -> OracleType] /\ maxAge' \in Nat
  <2> USE OracleAssumption DEF IInv, TypeOK, OracleType
  <2>1. ASSUME NEW a \in Asset, NEW x \in Prices, ApplySetOraclePrice(a, x)
        PROVE  oracle' \in [Asset -> OracleType] /\ maxAge' \in Nat
    <3> DEFINE o == [oracle[a] EXCEPT !.prev = oracle[a].price, !.price = x,
                                      !.updated = now]
    <3>1. x \in Nat /\ oracle[a] \in OracleType /\ oracle[a].price \in Nat
      BY <2>1 DEF ApplySetOraclePrice
    <3>2. o \in OracleType
      BY <1>1, <3>1
    <3>3. oracle' = [oracle EXCEPT ![a] = o] /\ maxAge' = maxAge
      BY <2>1 DEF ApplySetOraclePrice
    <3> HIDE DEF o
    <3> QED BY <3>2, <3>3
  <2>2. ASSUME NEW x \in MaxAges, SetMaxOracleAge(x)
        PROVE  oracle' \in [Asset -> OracleType] /\ maxAge' \in Nat
    BY <2>2 DEF SetMaxOracleAge
  <2>3. ASSUME NEW a \in Asset, NEW x \in MaxChanges, SetOracleMaxChangeBps(a, x)
        PROVE  oracle' \in [Asset -> OracleType] /\ maxAge' \in Nat
    BY <2>3 DEF SetOracleMaxChangeBps
  <2>4. ASSUME NEW a \in Asset, NEW x \in Bounds, SetOraclePriceBounds(a, x[1], x[2])
        PROVE  oracle' \in [Asset -> OracleType] /\ maxAge' \in Nat
    <3>1. x[1] \in Nat /\ x[2] \in Nat
      BY <2>4 DEF SetOraclePriceBounds
    <3> QED BY <2>4, <3>1 DEF SetOraclePriceBounds
  <2> QED BY <2>1, <2>2, <2>3, <2>4 DEF OracleStep, SetOraclePrice, ExecuteSetOraclePrice
<1>3. SettingsType'
  BY <1>2 DEF IInv, TypeOK, SettingsType, adminVars
<1> QED BY <1>1, <1>3, QuietStep

\* Enabling an asset starts its accrual clock; nothing else of a book moves.
LEMMA ConfigureSound ==
    ASSUME IInv, NEW a \in Asset, NEW e \in BOOLEAN, ApplyConfigureAsset(a, e)
    PROVE  Sound
<1> DEFINE t == IF e /\ book[a].last_accrual = NoEntry THEN now
                                                       ELSE book[a].last_accrual
<1>1. /\ book' = [book EXCEPT ![a].last_accrual = t]
      /\ supported' \subseteq Asset
      /\ UNCHANGED <<now, paused, oracle, maxAge, caps, risk, rates, config,
                     position, lost, booked>>
  BY DEF ApplyConfigureAsset, oracleVars, adminVars, IInv, TypeOK
<1>2. /\ book \in [Asset -> BookType] /\ now \in Nat
      /\ \A c \in Asset : book[c].last_accrual <= now
  BY DEF IInv, TypeOK, AccrualNotAhead
<1>3. /\ t \in Nat \cup {NoEntry} /\ t <= now
      /\ t >= book[a].last_accrual
  BY <1>2 DEF BookType, NoEntry
<1> HIDE DEF t
<1>4. book' \in [Asset -> BookType]
  BY <1>1, <1>2, <1>3 DEF BookType
<1>5. \A c \in Asset :
        /\ book'[c].supply_index = book[c].supply_index
        /\ book'[c].borrow_index = book[c].borrow_index
        /\ book'[c].total_deposited = book[c].total_deposited
        /\ book'[c].total_borrowed = book[c].total_borrowed
        /\ book'[c].total_balance = book[c].total_balance
        /\ book'[c].protocol_fees = book[c].protocol_fees
        /\ book'[c].last_accrual = IF c = a THEN t ELSE book[c].last_accrual
  BY <1>1, <1>2 DEF BookType
<1>6. \A c \in Asset : /\ book[c].supply_index \in Nat /\ book[c].borrow_index \in Nat
                       /\ book[c].last_accrual \in Int
  BY <1>2 DEF BookType, NoEntry
<1>7. Forward
  BY <1>3, <1>5, <1>6 DEF Forward
<1>8. Balanced
  BY <1>1, <1>5 DEF Balanced, Sheet
<1>9. SnapshotsBehindIndexes' /\ AccrualNotAhead'
  BY <1>1, <1>2, <1>3, <1>5 DEF IInv, SnapshotsBehindIndexes, AccrualNotAhead
<1>10. TypeOK'
  BY <1>1, <1>4 DEF IInv, TypeOK
<1> QED BY <1>7, <1>8, <1>9, <1>10 DEF Sound, IInv

LEMMA InterestParamsSound ==
    ASSUME IInv, NEW a \in Asset, NEW x \in RatesType, SetInterestParams(a, x)
    PROVE  Sound
<1>1. /\ book' = [book EXCEPT ![a] = Accrued(a)] /\ BookAccruals({a})
      /\ UNCHANGED <<position, lost>> /\ rates' = [rates EXCEPT ![a] = x]
      /\ UNCHANGED <<now, paused, supported, oracle, maxAge, caps, risk, config>>
  BY DEF SetInterestParams, oracleVars
<1>2. Carries(Accrued(a), a)
  BY AccruedFacts DEF Carries
<1>3. /\ MarketInv' /\ Forward /\ Balanced
      /\ lost' \in [Asset -> Nat] /\ booked' \in [Asset -> Int]
  BY <1>1, <1>2, ReserveStep
<1>4. rates' \in [Asset -> RatesType]
  BY <1>1 DEF IInv, TypeOK
<1> QED BY <1>1, <1>3, <1>4 DEF Sound, IInv, TypeOK, MarketInv

\* The remaining admin calls change settings only.
LEMMA AdminSound ==
    ASSUME IInv, AdminStep
    PROVE  Sound
<1> USE PoolAssumption
<1>0. now \in Int /\ SettingsType
  BY DEF IInv, TypeOK, SettingsType
<1> DEFINE Quiet == UNCHANGED poolVars /\ now' = now /\ SettingsType'
<1>1. ASSUME NEW a \in Asset, NEW c \in CapChoices, NEW d \in CapChoices,
             ApplyUpdateAssetCaps(a, c, d)
      PROVE  Quiet
  <2>1. /\ caps' = [caps EXCEPT ![a].deposit = c, ![a].borrow = d]
        /\ UNCHANGED poolVars
        /\ UNCHANGED <<now, paused, supported, oracle, maxAge, risk, rates, config>>
    BY <1>1 DEF ApplyUpdateAssetCaps, oracleVars
  <2>2. caps \in [Asset -> CapsType] /\ c \in Int /\ d \in Int
    BY <1>0 DEF SettingsType
  <2>3. caps' \in [Asset -> CapsType]
    BY <2>1, <2>2 DEF CapsType
  <2> QED BY <1>0, <2>1, <2>3 DEF SettingsType
<1>2. ASSUME NEW a \in Asset, NEW c \in CapChoices,
             SetSupplyCap(a, c) \/ SetBorrowCap(a, c)
      PROVE  Quiet
  BY <1>0, <1>2 DEF SetSupplyCap, SetBorrowCap, oracleVars, SettingsType, CapsType
<1>3. ASSUME NEW a \in Asset, NEW x \in Nat, NEW y \in Nat, NEW z \in Nat,
             ApplySetAssetRiskParams(a, x, y, z)
      PROVE  Quiet
  BY <1>0, <1>3 DEF ApplySetAssetRiskParams, oracleVars, SettingsType, RiskType
<1>4. ASSUME NEW x \in RatioChoices, ApplySetMinCollateralRatio(x)
      PROVE  Quiet
  BY <1>0, <1>4 DEF ApplySetMinCollateralRatio, oracleVars, SettingsType, ConfigType
<1>5. ASSUME NEW x \in Nat, NEW y \in Nat, SetLiquidationParams(x, y)
      PROVE  Quiet
  BY <1>0, <1>5 DEF SetLiquidationParams, oracleVars, SettingsType, ConfigType
<1>6. ASSUME NEW x \in BOOLEAN, ApplySetPaused(x)
      PROVE  Quiet
  BY <1>0, <1>6 DEF ApplySetPaused, oracleVars, adminVars, SettingsType
<1>7. Quiet => Sound
  BY <1>0, QuietStep
<1> HIDE DEF Quiet
<1>8. ASSUME NEW a \in Asset, NEW e \in Configuring, ApplyConfigureAsset(a, e)
      PROVE  Sound
  BY <1>8, ConfigureSound
<1>9. ASSUME NEW a \in Asset, NEW x \in RateChoices, SetInterestParams(a, x)
      PROVE  Sound
  BY <1>9, InterestParamsSound
<1>10. ASSUME NEW a \in Asset, NEW x \in RiskChoices,
              ApplySetAssetRiskParams(a, x[1], x[2], x[3])
       PROVE  Quiet
  BY <1>3, <1>10
<1>11. ASSUME NEW x \in LiquidationChoices, SetLiquidationParams(x[1], x[2])
       PROVE  Quiet
  BY <1>5, <1>11
<1>12. ASSUME NEW x \in Pausing, ApplySetPaused(x) \/ ApplySetPaused(~x)
       PROVE  Quiet
  <2>1. x \in BOOLEAN /\ (~x) \in BOOLEAN
    OBVIOUS
  <2> QED BY <1>6, <1>12, <2>1
<1> QED BY <1>1, <1>2, <1>4, <1>7, <1>8, <1>9, <1>10, <1>11, <1>12 DEF AdminStep

-----------------------------------------------------------------------------
(* Batches.                                                                *)

LEMMA BatchDomain ==
    ASSUME NEW ops \in Seq(BatchOperation)
    PROVE  /\ DOMAIN ops = 1 .. Len(ops) /\ Len(ops) \in Nat
           /\ IsFiniteSet(DOMAIN ops)
           /\ \A i \in DOMAIN ops : ops[i].asset \in Asset /\ ops[i].amount \in Int
           /\ Touched(ops) \subseteq Asset
<1>1. DOMAIN ops = 1 .. Len(ops) /\ Len(ops) \in Nat
  OBVIOUS
<1>2. \A i \in DOMAIN ops : ops[i] \in BatchOperation
  BY <1>1
<1>3. IsFiniteSet(1 .. Len(ops))
  BY <1>1, FS_Interval
<1> QED BY <1>1, <1>2, <1>3 DEF BatchOperation, Touched

\* What a batch adds up to per asset.
LEMMA BatchTotals ==
    ASSUME NEW ops \in Seq(BatchOperation), ValidOperations(ops), NEW a \in Asset
    PROVE  /\ Total(ops, a) \in Nat
           /\ a \notin Touched(ops) => Total(ops, a) = 0
<1> DEFINE amounts == [i \in DOMAIN ops |-> ops[i].amount]
           mine == {i \in DOMAIN ops : ops[i].asset = a}
<1>1. IsFiniteSet(mine)
  BY BatchDomain, FS_Subset
<1>2. \A i \in mine : amounts[i] \in Nat
  BY BatchDomain DEF ValidOperations
<1>3. Total(ops, a) = SumFunctionOnSet(amounts, mine)
  BY DEF Total
<1>4. a \notin Touched(ops) => mine = {}
  BY DEF Touched
<1> HIDE DEF amounts, mine
<1>5. SumFunctionOnSet(amounts, mine) \in Nat
  BY <1>1, <1>2, SumNatural
<1> QED BY <1>3, <1>4, <1>5, SumOverEmpty

\* An asset of the batch has a last operation.
LEMMA LastOperation ==
    ASSUME NEW ops \in Seq(BatchOperation), NEW a \in Touched(ops)
    PROVE  \E i \in DOMAIN ops : /\ ops[i].asset = a
                                 /\ \A j \in DOMAIN ops : ops[j].asset = a => j <= i
<1> DEFINE n == Len(ops)
           all == 1 .. n
           mine == {i \in all : ops[i].asset = a}
           tails == {i .. n : i \in mine}
<1>1. n \in Nat /\ DOMAIN ops = all /\ IsFiniteSet(all)
  BY BatchDomain
<1>2. tails \in SUBSET (SUBSET all) /\ tails # {}
  BY <1>1 DEF Touched
<1> HIDE DEF tails
<1>3. PICK t \in tails : \A s \in tails : s \subseteq t => s = t
  <2> HIDE DEF all
  <2> QED BY <1>1, <1>2, SmallestSet
<1>4. PICK i \in mine : t = i .. n
  BY DEF tails
<1>5. ASSUME NEW j \in mine PROVE j <= i
  <2> SUFFICES ASSUME j > i PROVE FALSE
    BY <1>1
  <2>1. (j .. n) \in tails /\ (j .. n) \subseteq t
    BY <1>1, <1>4 DEF tails
  <2>2. i \in j .. n
    BY <1>1, <1>3, <1>4, <2>1
  <2> QED BY <1>1, <2>2
<1> QED BY <1>1, <1>5

\* The total of an asset is reached at its last operation.
LEMMA TotalSplits ==
    ASSUME NEW ops \in Seq(BatchOperation), ValidOperations(ops), NEW i \in DOMAIN ops,
           \A j \in DOMAIN ops : ops[j].asset = ops[i].asset => j <= i
    PROVE  Total(ops, ops[i].asset)
             = ops[i].amount + Total(SubSeq(ops, 1, i - 1), ops[i].asset)
<1> DEFINE a == ops[i].asset
           sub == SubSeq(ops, 1, i - 1)
           mine == {k \in DOMAIN ops : ops[k].asset = a}
           early == {k \in DOMAIN sub : sub[k].asset = a}
           amounts == [k \in DOMAIN ops |-> ops[k].amount]
           earlier == [k \in DOMAIN sub |-> sub[k].amount]
<1>1. IsFiniteSet(mine)
  BY BatchDomain, FS_Subset
<1>2. /\ DOMAIN sub = 1 .. (i - 1)
      /\ \A k \in 1 .. (i - 1) : k \in DOMAIN ops /\ sub[k] = ops[k]
  BY BatchDomain
<1>3. early = mine \ {i} /\ i \in mine
  BY <1>2, BatchDomain
<1>4. /\ \A k \in mine : amounts[k] \in Int
      /\ \A k \in early : earlier[k] = amounts[k]
      /\ amounts[i] = ops[i].amount
  BY <1>2, BatchDomain
<1>5. /\ Total(ops, a) = SumFunctionOnSet(amounts, mine)
      /\ Total(sub, a) = SumFunctionOnSet(earlier, early)
  BY DEF Total
<1>6. IsFiniteSet(early)
  BY <1>1, <1>3, FS_Subset
<1> HIDE DEF mine, early, amounts, earlier, sub, a
<1>7. SumFunctionOnSet(amounts, mine)
        = amounts[i] + SumFunctionOnSet(amounts, mine \ {i})
  BY <1>1, <1>3, <1>4, SumTakesOut
<1>8. SumFunctionOnSet(earlier, early) = SumFunctionOnSet(amounts, early)
  BY <1>3, <1>4, <1>6, SumSame
<1> QED BY <1>3, <1>4, <1>5, <1>7, <1>8 DEF sub, a

\* A batch of repayments repays no more than is owed.
LEMMA RepayableTotals ==
    ASSUME IInv, NEW u \in User, NEW ops \in Seq(BatchOperation), ValidOperations(ops),
           RepayableInTurn(u, ops), NEW a \in Asset
    PROVE  /\ Total(ops, a) \in Nat
           /\ Total(ops, a) <= CurrentPosition(u, a).borrowed
<1>0. CurrentPosition(u, a).borrowed \in Nat /\ Total(ops, a) \in Nat
  BY Parts, BatchTotals
<1>1. CASE a \notin Touched(ops)
  BY <1>0, <1>1, BatchTotals
<1>2. CASE a \in Touched(ops)
  <2>1. PICK i \in DOMAIN ops : /\ ops[i].asset = a
                                /\ \A j \in DOMAIN ops : ops[j].asset = a => j <= i
    BY <1>2, LastOperation
  <2> DEFINE before == Total(SubSeq(ops, 1, i - 1), a)
  <2>2. Total(ops, a) = ops[i].amount + before
    BY <2>1, TotalSplits
  <2>3. ops[i].amount <= CurrentPosition(u, a).borrowed - before
    BY <2>1 DEF RepayableInTurn, OwedBefore
  <2>4. before \in Int
    <3> DEFINE sub == SubSeq(ops, 1, i - 1)
    <3>1. sub \in Seq(BatchOperation) /\ ValidOperations(sub)
      BY BatchDomain DEF ValidOperations
    <3> HIDE DEF sub
    <3>2. Total(sub, a) \in Nat
      BY <3>1, BatchTotals
    <3> QED BY <3>2 DEF sub
  <2>5. ops[i].amount \in Int
    BY BatchDomain
  <2> HIDE DEF before
  <2> QED BY <1>0, <2>2, <2>3, <2>4, <2>5
<1> QED BY <1>0, <1>1, <1>2

\* A batch settles the assets S, their books becoming b, replaces the user's
\* positions in the assets T by those of `next` and forgives `loss`.
BatchWrites(u, S, T, next, b, loss) ==
    /\ position' = [position EXCEPT ![u] =
           [a \in Asset |-> IF a \in T THEN Stored(next[a]) ELSE position[u][a]]]
    /\ book' = [a \in Asset |-> IF a \in S THEN b[a] ELSE book[a]]
    /\ BookAccruals(S)
    /\ lost' = [a \in Asset |-> lost[a] + loss[a]]

LEMMA BatchWritesSound ==
    ASSUME IInv, UNCHANGED Settings, NEW u \in User,
           NEW S \in SUBSET Asset, NEW T \in SUBSET S,
           NEW next, NEW b, NEW loss \in [Asset -> Nat],
           BatchWrites(u, S, T, next, b, loss),
           \A a \in T : Behind(next[a], Accrual(a)),
           \A a \in S : Carries(b[a], a),
           \A a \in S : Sheet(b[a]) = Sheet(Accrued(a)) - loss[a],
           \A a \in Asset \ S : loss[a] = 0
    PROVE  Sound
<1> USE DEF BatchWrites
<1>0. lost' \in [Asset -> Nat] /\ \A a \in Asset : lost'[a] = lost[a] + loss[a]
  BY DEF IInv, TypeOK
<1>1. /\ position \in [User -> [Asset -> PositionType]]
      /\ book \in [Asset -> BookType] /\ now' = now
  BY DEF IInv, TypeOK, Settings
<1>2. ASSUME NEW a \in T
      PROVE  Behind(Stored(next[a]), Accrual(a)) /\ Stored(next[a]) \in PositionType
  <2> DEFINE p == next[a]
  <2>1. Behind(p, Accrual(a)) /\ a \in Asset
    OBVIOUS
  <2> HIDE DEF p
  <2>2. Behind(Stored(p), Accrual(a))
    BY <2>1, StoredBehind
  <2> QED BY <2>2 DEF Behind, p
<1> DEFINE row == [a \in Asset |-> IF a \in T THEN Stored(next[a]) ELSE position[u][a]]
<1>3. /\ row \in [Asset -> PositionType] /\ position' = [position EXCEPT ![u] = row]
      /\ \A a \in T : row[a] = Stored(next[a])
      /\ \A a \in Asset \ T : row[a] = position[u][a]
  BY <1>1, <1>2
<1> HIDE DEF row
<1>4. position' \in [User -> [Asset -> PositionType]]
  BY <1>1, <1>3
<1>5. ASSUME NEW v \in User, NEW a \in Asset
      PROVE  /\ a \in S => Behind(position'[v][a], Accrual(a))
             /\ a \notin S => position'[v][a] = position[v][a]
  <2>1. CASE v = u /\ a \in T
    BY <1>1, <1>2, <1>3, <2>1
  <2>2. CASE v # u \/ a \notin T
    <3>1. position'[v][a] = position[v][a]
      BY <1>1, <1>3, <2>2
    <3> QED BY <3>1, StoredPositions
  <2> QED BY <2>1, <2>2
<1>6. /\ \A a \in S : book'[a] = b[a]
      /\ \A a \in Asset \ S : book'[a] = book[a]
  OBVIOUS
<1>7. book' \in [Asset -> BookType]
  BY <1>1 DEF Carries
<1>8. /\ \A a \in S : Carries(book'[a], a)
      /\ \A a \in S : Sheet(book'[a]) = Sheet(Accrued(a)) - loss[a]
  BY <1>6
<1>9. Balanced
  BY <1>0, <1>6, <1>8, BalancedStep
<1>10. booked' \in [Asset -> Int]
  BY BookedTyped
<1>11. MarketInv' /\ Forward
  BY <1>1, <1>4, <1>5, <1>6, <1>7, <1>8, MarketStep
<1> QED BY <1>0, <1>9, <1>10, <1>11, SoundStep

LEMMA BatchOf ==
    ASSUME NEW ops \in Batches
    PROVE  ops \in Seq(BatchOperation)
BY BatchAssumption

LEMMA DepositBatchSound ==
    ASSUME IInv, NEW u \in User, NEW ops \in Seq(BatchOperation), DepositBatch(u, ops)
    PROVE  Sound
<1> DEFINE T == Touched(ops)
           n(a) == Total(ops, a)
           next == [a \in Asset |-> [CurrentPosition(u, a) EXCEPT !.deposited = @ + n(a)]]
           b == [a \in Asset |-> Posted(Accrued(a), n(a), 0, n(a), 0)]
           loss == [a \in Asset |-> 0]
<1>1. /\ ValidOperations(ops) /\ SetPositions(u, ops, next) /\ SetBooks(T, b)
      /\ UNCHANGED Settings /\ UNCHANGED lost
  BY DEF DepositBatch, Settings, oracleVars, adminVars
<1>2. ASSUME NEW a \in Asset
      PROVE  /\ Behind(next[a], Accrual(a))
             /\ Carries(b[a], a) /\ Sheet(b[a]) = Sheet(Accrued(a)) - 0
  <2>1. n(a) \in Nat
    BY <1>1, BatchTotals
  <2>2. /\ Carries(Accrued(a), a) /\ Behind(CurrentPosition(u, a), Accrual(a))
        /\ CurrentPosition(u, a).deposited \in Nat
    BY Parts
  <2> HIDE DEF n
  <2>3. Behind([CurrentPosition(u, a) EXCEPT !.deposited = @ + n(a)], Accrual(a))
    BY <2>1, <2>2 DEF Behind, PositionType
  <2>4. Carries(b[a], a) /\ Sheet(b[a]) = Sheet(Accrued(a)) - 0
    BY <2>1, <2>2, PostedBook
  <2> QED BY <2>3, <2>4
<1>3. T \in SUBSET Asset /\ loss \in [Asset -> Nat] /\ \A a \in Asset : loss[a] = 0
  BY BatchDomain
<1>4. BatchWrites(u, T, T, next, b, loss)
  BY <1>1 DEF BatchWrites, SetPositions, SetBooks, IInv, TypeOK
<1> HIDE DEF T, next, b, loss, n
<1> QED BY <1>1, <1>2, <1>3, <1>4, BatchWritesSound

LEMMA WithdrawBatchSound ==
    ASSUME IInv, NEW u \in User, NEW d \in Asset, NEW ops \in Seq(BatchOperation),
           WithdrawBatch(u, d, ops)
    PROVE  Sound
<1> DEFINE T == Touched(ops)
           S == T \cup {d}
           n(a) == Total(ops, a)
           next == [a \in Asset |-> [CurrentPosition(u, a) EXCEPT !.deposited = @ - n(a)]]
           b == [a \in Asset |-> Posted(Accrued(a), -n(a), 0, -n(a), 0)]
           loss == [a \in Asset |-> 0]
<1>1. /\ ValidOperations(ops) /\ SetPositions(u, ops, next) /\ SetBooks(S, b)
      /\ UNCHANGED Settings /\ UNCHANGED lost
      /\ \A a \in T : n(a) <= CurrentPosition(u, a).deposited
  BY DEF WithdrawBatch, Settings, oracleVars, adminVars
<1>2. ASSUME NEW a \in Asset
      PROVE  /\ a \in T => Behind(next[a], Accrual(a))
             /\ Carries(b[a], a) /\ Sheet(b[a]) = Sheet(Accrued(a)) - 0
  <2>1. n(a) \in Nat /\ (a \in T => n(a) <= CurrentPosition(u, a).deposited)
    BY <1>1, BatchTotals
  <2>2. /\ Carries(Accrued(a), a) /\ Behind(CurrentPosition(u, a), Accrual(a))
        /\ CurrentPosition(u, a).deposited \in Nat
    BY Parts
  <2> HIDE DEF n
  <2>3. a \in T => Behind([CurrentPosition(u, a) EXCEPT !.deposited = @ - n(a)], Accrual(a))
    BY <2>1, <2>2 DEF Behind, PositionType
  <2>4. Carries(b[a], a) /\ Sheet(b[a]) = Sheet(Accrued(a)) - 0
    BY <2>1, <2>2, PostedBook
  <2> QED BY <2>3, <2>4
<1>3. /\ S \in SUBSET Asset /\ T \in SUBSET S /\ loss \in [Asset -> Nat]
      /\ \A a \in Asset : loss[a] = 0
  BY BatchDomain
<1>4. BatchWrites(u, S, T, next, b, loss)
  BY <1>1 DEF BatchWrites, SetPositions, SetBooks, IInv, TypeOK
<1> HIDE DEF S, T, next, b, loss, n
<1> QED BY <1>1, <1>2, <1>3, <1>4, BatchWritesSound

LEMMA BorrowBatchSound ==
    ASSUME IInv, NEW u \in User, NEW c \in Asset, NEW ops \in Seq(BatchOperation),
           BorrowBatch(u, c, ops)
    PROVE  Sound
<1> DEFINE T == Touched(ops)
           S == T \cup {c}
           n(a) == Total(ops, a)
           next == [a \in Asset |-> [CurrentPosition(u, a) EXCEPT !.borrowed = @ + n(a)]]
           b == [a \in Asset |-> Posted(Accrued(a), 0, n(a), -n(a), 0)]
           loss == [a \in Asset |-> 0]
<1>1. /\ ValidOperations(ops) /\ SetPositions(u, ops, next) /\ SetBooks(S, b)
      /\ UNCHANGED Settings /\ UNCHANGED lost
  BY DEF BorrowBatch, Settings, oracleVars, adminVars
<1>2. ASSUME NEW a \in Asset
      PROVE  /\ Behind(next[a], Accrual(a))
             /\ Carries(b[a], a) /\ Sheet(b[a]) = Sheet(Accrued(a)) - 0
  <2>1. n(a) \in Nat
    BY <1>1, BatchTotals
  <2>2. /\ Carries(Accrued(a), a) /\ Behind(CurrentPosition(u, a), Accrual(a))
        /\ CurrentPosition(u, a).borrowed \in Nat
    BY Parts
  <2> HIDE DEF n
  <2>3. Behind([CurrentPosition(u, a) EXCEPT !.borrowed = @ + n(a)], Accrual(a))
    BY <2>1, <2>2 DEF Behind, PositionType
  <2>4. Carries(b[a], a) /\ Sheet(b[a]) = Sheet(Accrued(a)) - 0
    BY <2>1, <2>2, PostedBook
  <2> QED BY <2>3, <2>4
<1>3. /\ S \in SUBSET Asset /\ T \in SUBSET S /\ loss \in [Asset -> Nat]
      /\ \A a \in Asset : loss[a] = 0
  BY BatchDomain
<1>4. BatchWrites(u, S, T, next, b, loss)
  BY <1>1 DEF BatchWrites, SetPositions, SetBooks, IInv, TypeOK
<1> HIDE DEF S, T, next, b, loss, n
<1> QED BY <1>1, <1>2, <1>3, <1>4, BatchWritesSound

\* Whatever dust the operations of the batch leave is the loss.
LEMMA RepayBatchSound ==
    ASSUME IInv, NEW u \in User, NEW ops \in Seq(BatchOperation), RepayBatch(u, ops)
    PROVE  Sound
<1> DEFINE T == Touched(ops)
           n(a) == Total(ops, a)
           rest == [a \in Asset |-> CurrentPosition(u, a).borrowed - n(a)]
           loss == [a \in Asset |-> IF a \in T /\ rest[a] <= DUST_THRESHOLD
                                      THEN rest[a] ELSE 0]
           next == [a \in Asset |->
                      [CurrentPosition(u, a) EXCEPT !.borrowed = rest[a] - loss[a]]]
           b == [a \in Asset |-> Posted(Accrued(a), 0, -(n(a) + loss[a]), n(a), 0)]
<1>1. /\ ValidOperations(ops) /\ RepayableInTurn(u, ops)
      /\ SetPositions(u, ops, next) /\ SetBooks(T, b)
      /\ UNCHANGED Settings /\ lost' = [a \in Asset |-> lost[a] + loss[a]]
  BY DEF RepayBatch, RepaidBook, Settings, oracleVars, adminVars
<1>2. \A a \in Asset : n(a) \in Nat /\ rest[a] \in Nat
  <2> TAKE a \in Asset
  <2>1. n(a) \in Nat /\ n(a) <= CurrentPosition(u, a).borrowed
    BY <1>1, RepayableTotals
  <2>2. CurrentPosition(u, a).borrowed \in Nat
    BY Parts
  <2> HIDE DEF n
  <2> QED BY <2>1, <2>2
<1>3. /\ T \in SUBSET Asset
      /\ \A a \in Asset : loss[a] \in Nat /\ loss[a] <= rest[a]
      /\ \A a \in Asset \ T : loss[a] = 0
  <2> HIDE DEF rest
  <2> QED BY <1>2, BatchDomain
<1>4. loss \in [Asset -> Nat]
  BY <1>3
<1> HIDE DEF rest, loss, n
<1>5. ASSUME NEW a \in Asset
      PROVE  /\ Behind(next[a], Accrual(a))
             /\ Carries(b[a], a) /\ Sheet(b[a]) = Sheet(Accrued(a)) - loss[a]
  <2>1. n(a) \in Nat /\ rest[a] - loss[a] \in Nat /\ loss[a] \in Nat
    BY <1>2, <1>3
  <2>2. Carries(Accrued(a), a) /\ Behind(CurrentPosition(u, a), Accrual(a))
    BY Parts
  <2>3. Behind([CurrentPosition(u, a) EXCEPT !.borrowed = rest[a] - loss[a]], Accrual(a))
    BY <2>1, <2>2 DEF Behind, PositionType
  <2>4. Carries(b[a], a) /\ Sheet(b[a]) = Sheet(Accrued(a)) - loss[a]
    <3>1. -(n(a) + loss[a]) \in Int
      BY <2>1
    <3>2. /\ Carries(b[a], a) /\ Sheet(Accrued(a)) \in Int
          /\ Sheet(b[a]) = Sheet(Accrued(a)) + n(a) + (-(n(a) + loss[a])) - 0 - 0
      BY <2>1, <2>2, <3>1, PostedBook
    <3> QED BY <2>1, <3>2
  <2> QED BY <2>3, <2>4
<1>6. BatchWrites(u, T, T, next, b, loss)
  BY <1>1 DEF BatchWrites, SetPositions, SetBooks, IInv, TypeOK
<1> HIDE DEF T, next, b
<1> QED BY <1>1, <1>3, <1>4, <1>5, <1>6, BatchWritesSound

LEMMA BatchSound ==
    ASSUME IInv, BatchStep
    PROVE  Sound
BY BatchOf, DepositBatchSound, WithdrawBatchSound, BorrowBatchSound, RepayBatchSound
   DEF BatchStep

-----------------------------------------------------------------------------
(* The invariant.                                                          *)

LEMMA InitSound == Init => IInv /\ BalanceSheet
<1> SUFFICES ASSUME Init PROVE IInv /\ BalanceSheet
  OBVIOUS
<1> USE ScaleAssumption, PoolAssumption DEF Init
<1>1. now = 0 /\ now \in 0 .. MaxTime
  OBVIOUS
<1>14. paused \in BOOLEAN
  OBVIOUS
<1>15. supported \subseteq Asset /\ maxAge \in Nat
  OBVIOUS
<1>13. lost \in [Asset -> Nat] /\ booked \in [Asset -> Int]
  OBVIOUS
<1>2. oracle \in [Asset -> OracleType]
  BY DEF OracleType, NoOracle, Unset
<1>3. ASSUME NEW a \in Asset
      PROVE  /\ book[a] \in BookType
             /\ book[a].supply_index = RATE_SCALE
             /\ book[a].borrow_index = RATE_SCALE
             /\ book[a].last_accrual <= 0
             /\ book[a].total_balance = 0 /\ book[a].total_borrowed = 0
             /\ book[a].total_deposited = 0 /\ book[a].protocol_fees = 0
  BY DEF BookType, EmptyBook, NoEntry
<1>4. book \in [Asset -> BookType]
  BY <1>3
<1>5. EmptyPosition \in PositionType
  BY DEF EmptyPosition, PositionType
<1>6. /\ position \in [User -> [Asset -> PositionType]]
      /\ \A u \in User : \A a \in Asset : position[u][a] = EmptyPosition
  BY <1>5
<1>7. caps \in [Asset -> CapsType] /\ risk \in [Asset -> RiskType]
  BY DEF CapsType, RiskType, NoCaps, NoRisk, Unlimited
<1>8. rates \in [Asset -> RatesType]
  <2>1. (8 * BPS) \div 10 \in Nat /\ BPS \div 10 \in Nat
    OBVIOUS
  <2> QED BY <2>1 DEF RatesType, DefaultRates
<1>9. config \in ConfigType
  <2>1. BPS \div 2 \in Nat /\ BPS \div 20 \in Nat
    OBVIOUS
  <2> QED BY <2>1 DEF ConfigType, DefaultConfig
<1>10. TypeOK
  BY <1>1, <1>2, <1>4, <1>6, <1>7, <1>8, <1>9, <1>13, <1>14, <1>15 DEF TypeOK
<1>11. SnapshotsBehindIndexes /\ AccrualNotAhead
  <2> HIDE PoolAssumption DEF Init
  <2>1. /\ EmptyPosition.supply_index_snapshot = RATE_SCALE
        /\ EmptyPosition.borrow_index_snapshot = RATE_SCALE
    BY DEF EmptyPosition
  <2> QED BY <1>1, <1>3, <1>6, <2>1 DEF SnapshotsBehindIndexes, AccrualNotAhead
<1>12. BalanceSheet
  BY <1>3 DEF BalanceSheet
<1> QED BY <1>10, <1>11, <1>12 DEF IInv

LEMMA NextSound ==
    ASSUME IInv, [Next \/ BatchStep]_vars
    PROVE  Sound
<1> USE PoolAssumption
<1>0. SettingsType /\ now \in Int
  BY DEF IInv, TypeOK, SettingsType
<1>1. CASE UserStep
  BY <1>1, DepositSound, RepaySound, BorrowSound, WithdrawSound DEF UserStep
<1>2. ASSUME NEW a \in Asset, AccrueInterest(a)
      PROVE  Sound
  BY <1>2, AccrueInterestSound
<1>3. CASE LiquidationStep
  BY <1>3, LiquidateSound, WriteoffSound DEF LiquidationStep
<1>4. CASE AdminStep
  BY <1>4, AdminSound
<1>5. CASE FeeStep
  <2>1. ASSUME NEW f \in FeeLimits, SetMaxProtocolFeeBps(f)
        PROVE  Sound
    <3>1. UNCHANGED poolVars /\ now' = now /\ SettingsType'
      BY <1>0, <2>1 DEF SetMaxProtocolFeeBps, oracleVars, SettingsType, ConfigType
    <3> QED BY <1>0, <3>1, QuietStep
  <2> QED BY <1>5, <2>1, FeesSound DEF FeeStep
<1>6. CASE OracleStep /\ UNCHANGED <<now, paused, supported, adminVars, poolVars>>
  BY <1>6, OracleSound
<1>7. CASE Tick
  <2>1. UNCHANGED poolVars /\ now' >= now /\ SettingsType'
    BY <1>0, <1>7 DEF Tick, oracleVars, adminVars, SettingsType
  <2> QED BY <2>1, QuietStep
<1>8. CASE UNCHANGED vars
  <2>1. UNCHANGED poolVars /\ now' >= now /\ SettingsType'
    BY <1>0, <1>8 DEF vars, poolVars, SettingsType
  <2> QED BY <2>1, QuietStep
<1>9. CASE BatchStep
  BY <1>9, BatchSound
<1> QED BY <1>1, <1>2, <1>3, <1>4, <1>5, <1>6, <1>7, <1>8, <1>9 DEF Next

THEOREM PoolInvariant == BatchSpec => []IInv
<1>1. Init => IInv
  BY InitSound
<1>2. IInv /\ [Next \/ BatchStep]_vars => IInv'
  BY NextSound DEF Sound
<1> QED BY <1>1, <1>2, PTL DEF BatchSpec

\* Every balance of every position stays a natural number and every stored
\* value keeps its type, whatever is called in whatever order.
THEOREM TypeCorrect == BatchSpec => []TypeOK
<1>1. IInv => TypeOK
  BY DEF IInv
<1> QED BY <1>1, PoolInvariant, PTL

\* No position is ahead of its asset's indexes, so settling never takes from it.
THEOREM SnapshotsStayBehind == BatchSpec => []SnapshotsBehindIndexes
<1>1. IInv => SnapshotsBehindIndexes
  BY DEF IInv
<1> QED BY <1>1, PoolInvariant, PTL

\* Every step keeps the snapshots behind and moves indexes and accrual clocks
\* forward, whatever the interest parameters.
THEOREM IndexesOnlyGrow == BatchSpec => InterestMovesForward
<1>1. IInv /\ [Next \/ BatchStep]_vars => [SnapshotsBehindIndexes' /\ IndexesNeverFall]_vars
  BY NextSound DEF Sound, Forward, IInv, IndexesNeverFall
<1> QED BY <1>1, PoolInvariant, PTL DEF BatchSpec, InterestMovesForward

LEMMA SheetArithmetic ==
    ASSUME NEW b \in BookType, NEW l \in Nat, NEW k \in Int
    PROVE  Sheet(b) + l - k = 0
             <=> b.total_balance + b.total_borrowed + l
                   = b.total_deposited + b.protocol_fees + k
<1>1. /\ b.total_balance \in Int /\ b.total_borrowed \in Int
      /\ b.total_deposited \in Int /\ b.protocol_fees \in Int
  BY DEF BookType
<1>2. Sheet(b) = b.total_balance + b.total_borrowed - b.total_deposited
                   - b.protocol_fees
  BY DEF Sheet
<1> QED BY <1>1, <1>2

\* A step that changes both sides of the balance sheet alike keeps it.
LEMMA BalanceKept ==
    ASSUME IInv, BalanceSheet, Sound
    PROVE  BalanceSheet'
<1> SUFFICES ASSUME NEW a \in Asset
             PROVE  book'[a].total_balance + book'[a].total_borrowed + lost'[a]
                      = book'[a].total_deposited + book'[a].protocol_fees + booked'[a]
  BY DEF BalanceSheet
<1>1. Sheet(book'[a]) + lost'[a] - booked'[a] = Sheet(book[a]) + lost[a] - booked[a]
  BY DEF Sound, Balanced
<1>2. /\ book[a] \in BookType /\ book'[a] \in BookType
      /\ lost[a] \in Nat /\ lost'[a] \in Nat
      /\ booked[a] \in Int /\ booked'[a] \in Int
  BY DEF Sound, IInv, TypeOK
<1>3. book[a].total_balance + book[a].total_borrowed + lost[a]
        = book[a].total_deposited + book[a].protocol_fees + booked[a]
  BY DEF BalanceSheet
<1>4. Sheet(book[a]) + lost[a] - booked[a] = 0
  BY <1>2, <1>3, SheetArithmetic
<1>5. Sheet(book'[a]) + lost'[a] - booked'[a] = 0
  BY <1>1, <1>4
<1> QED BY <1>2, <1>5, SheetArithmetic

\* The books balance for any parameters: what the reserve is said to hold,
\* what borrowers owe and what was forgiven equals the claims of depositors
\* and protocol plus the interest ever booked.
THEOREM BooksBalance == BatchSpec => []BalanceSheet
<1>1. IInv /\ BalanceSheet /\ [Next \/ BatchStep]_vars => BalanceSheet'
  BY NextSound, BalanceKept
<1>2. Init => BalanceSheet
  BY InitSound
<1> QED BY <1>1, <1>2, PoolInvariant, PTL DEF BatchSpec

-----------------------------------------------------------------------------
(* Prices.                                                                 *)

\* The fields of the oracle entry after each call that writes it.
LEMMA OracleWrites ==
    ASSUME TypeOK, OracleStep, NEW a \in Asset
    PROVE  \/ oracle'[a] = oracle[a]
           \/ /\ oracle'[a].price = oracle[a].price
              /\ oracle'[a].min = oracle[a].min
              /\ oracle'[a].max = oracle[a].max
           \/ /\ oracle'[a].price = oracle[a].price
              /\ oracle[a].price # Unset =>
                    oracle[a].price \in oracle'[a].min .. oracle'[a].max
           \/ /\ oracle'[a].price \in Nat
              /\ WithinMaxChange(oracle[a], oracle'[a].price)
              /\ WithinBounds(oracle[a], oracle'[a].price)
              /\ oracle'[a].min = oracle[a].min
              /\ oracle'[a].max = oracle[a].max
<1>0. oracle \in [Asset -> OracleType]
  BY DEF TypeOK
<1>1. ASSUME NEW c \in Asset, NEW x \in Prices, ApplySetOraclePrice(c, x)
      PROVE  \/ oracle'[a] = oracle[a]
             \/ /\ oracle'[a].price \in Nat
                /\ WithinMaxChange(oracle[a], oracle'[a].price)
                /\ WithinBounds(oracle[a], oracle'[a].price)
                /\ oracle'[a].min = oracle[a].min
                /\ oracle'[a].max = oracle[a].max
  <2>1. x \in Nat /\ WithinMaxChange(oracle[c], x) /\ WithinBounds(oracle[c], x)
    BY <1>1, OracleAssumption DEF ApplySetOraclePrice
  <2>2. /\ c # a => oracle'[a] = oracle[a]
        /\ c = a => /\ oracle'[a].price = x
                    /\ oracle'[a].min = oracle[a].min
                    /\ oracle'[a].max = oracle[a].max
    BY <1>0, <1>1 DEF ApplySetOraclePrice, OracleType
  <2> QED BY <2>1, <2>2
<1>2. ASSUME NEW x, SetMaxOracleAge(x)
      PROVE  oracle'[a] = oracle[a]
  BY <1>2 DEF SetMaxOracleAge
<1>3. ASSUME NEW c \in Asset, NEW x, SetOracleMaxChangeBps(c, x)
      PROVE  /\ oracle'[a].price = oracle[a].price
             /\ oracle'[a].min = oracle[a].min
             /\ oracle'[a].max = oracle[a].max
  BY <1>0, <1>3 DEF SetOracleMaxChangeBps, OracleType
<1>4. ASSUME NEW c \in Asset, NEW lo, NEW hi, SetOraclePriceBounds(c, lo, hi)
      PROVE  \/ oracle'[a] = oracle[a]
             \/ /\ oracle'[a].price = oracle[a].price
                /\ oracle[a].price # Unset =>
                      oracle[a].price \in oracle'[a].min .. oracle'[a].max
  <2>1. /\ c # a => oracle'[a] = oracle[a]
        /\ c = a => /\ oracle'[a].price = oracle[a].price
                    /\ oracle'[a].min = lo /\ oracle'[a].max = hi
    BY <1>0, <1>4 DEF SetOraclePriceBounds, OracleType
  <2>2. oracle[c].price # Unset => oracle[c].price \in lo .. hi
    BY <1>4 DEF SetOraclePriceBounds
  <2> QED BY <2>1, <2>2
<1> QED BY <1>1, <1>2, <1>3, <1>4 DEF OracleStep, SetOraclePrice, ExecuteSetOraclePrice

\* Every other step leaves the oracle alone.
LEMMA OracleUntouched ==
    ASSUME [Next \/ BatchStep]_vars
    PROVE  OracleStep \/ UNCHANGED oracle
<1> USE DEF oracleVars
<1>1. CASE UserStep
  <2>1. ASSUME NEW u, NEW a, NEW n, Deposit(u, a, n) \/ Repay(u, a, n)
        PROVE  UNCHANGED oracle
    BY <2>1 DEF Deposit, Repay
  <2>2. ASSUME NEW u, NEW a, NEW c, NEW n, Borrow(u, a, c, n) \/ Withdraw(u, a, c, n)
        PROVE  UNCHANGED oracle
    BY <2>2 DEF Borrow, Withdraw
  <2> QED BY <1>1, <2>1, <2>2 DEF UserStep
<1>2. CASE LiquidationStep
  <2>1. ASSUME NEW l, NEW u, NEW c, NEW d, NEW n, Liquidate(l, u, c, d, n)
        PROVE  UNCHANGED oracle
    BY <2>1 DEF Liquidate
  <2>2. ASSUME NEW u, NEW d, WriteoffBadDebt(u, d)
        PROVE  UNCHANGED oracle
    BY <2>2 DEF WriteoffBadDebt
  <2> QED BY <1>2, <2>1, <2>2 DEF LiquidationStep
<1>3. CASE AdminStep
  <2>1. ASSUME NEW a, NEW e, ApplyConfigureAsset(a, e) PROVE UNCHANGED oracle
    BY <2>1 DEF ApplyConfigureAsset
  <2>2. ASSUME NEW a, NEW c, NEW d,
               ApplyUpdateAssetCaps(a, c, d) \/ SetSupplyCap(a, c)
                   \/ SetBorrowCap(a, c) \/ SetInterestParams(a, c)
        PROVE  UNCHANGED oracle
    BY <2>2 DEF ApplyUpdateAssetCaps, SetSupplyCap, SetBorrowCap, SetInterestParams
  <2>3. ASSUME NEW a, NEW x, NEW y, NEW z, ApplySetAssetRiskParams(a, x, y, z)
        PROVE  UNCHANGED oracle
    BY <2>3 DEF ApplySetAssetRiskParams
  <2>4. ASSUME NEW x, NEW y,
               ApplySetMinCollateralRatio(x) \/ SetLiquidationParams(x, y)
                   \/ ApplySetPaused(x)
        PROVE  UNCHANGED oracle
    BY <2>4 DEF ApplySetMinCollateralRatio, SetLiquidationParams, ApplySetPaused
  <2> QED BY <1>3, <2>1, <2>2, <2>3, <2>4 DEF AdminStep
<1>4. CASE FeeStep
  BY <1>4 DEF FeeStep, SetMaxProtocolFeeBps, ApplyRecordProtocolFee,
              ApplyWithdrawReserves
<1>5. ASSUME NEW a \in Asset, AccrueInterest(a) PROVE UNCHANGED oracle
  BY <1>5 DEF AccrueInterest
<1>6. CASE Tick \/ UNCHANGED vars
  BY <1>6 DEF Tick, vars
<1>7. CASE BatchStep
  <2>1. ASSUME NEW u, NEW ops, DepositBatch(u, ops) PROVE UNCHANGED oracle
    BY <2>1 DEF DepositBatch
  <2>2. ASSUME NEW u, NEW ops, RepayBatch(u, ops) PROVE UNCHANGED oracle
    BY <2>2 DEF RepayBatch
  <2>3. ASSUME NEW u, NEW c, NEW ops, WithdrawBatch(u, c, ops) PROVE UNCHANGED oracle
    BY <2>3 DEF WithdrawBatch
  <2>4. ASSUME NEW u, NEW c, NEW ops, BorrowBatch(u, c, ops) PROVE UNCHANGED oracle
    BY <2>4 DEF BorrowBatch
  <2> QED BY <1>7, <2>1, <2>2, <2>3, <2>4 DEF BatchStep
<1> QED BY <1>1, <1>2, <1>3, <1>4, <1>5, <1>6, <1>7 DEF Next

\* In whichever order prices and bounds are set, and on whichever path, the
\* stored price lies within the stored bounds.
THEOREM PricesStayWithinBounds == BatchSpec => []PriceWithinBounds
<1>1. Init => PriceWithinBounds
  BY PoolAssumption
     DEF Init, PriceWithinBounds, WithinBounds, NoOracle, Unset, Price
<1>2. TypeOK /\ PriceWithinBounds /\ [Next \/ BatchStep]_vars => PriceWithinBounds'
  <2> SUFFICES ASSUME TypeOK, PriceWithinBounds, [Next \/ BatchStep]_vars, NEW a \in Asset,
                      oracle'[a].price # Unset
               PROVE  WithinBounds(oracle'[a], oracle'[a].price)
    BY DEF PriceWithinBounds, Price
  <2>1. oracle[a] \in OracleType
    BY DEF TypeOK
  <2>2. oracle[a].price # Unset => WithinBounds(oracle[a], oracle[a].price)
    BY DEF PriceWithinBounds, Price
  <2>3. CASE UNCHANGED oracle
    BY <2>2, <2>3
  <2>4. CASE OracleStep
    BY <2>1, <2>2, <2>4, OracleWrites DEF WithinBounds, OracleType
  <2> QED BY <2>3, <2>4, OracleUntouched
<1> QED BY <1>1, <1>2, TypeCorrect, PTL DEF BatchSpec

\* No single update moves a price further than the limit stored before it,
\* or out of the bounds stored after it.
THEOREM PricesMoveWithinLimit == BatchSpec => PriceDiscipline
<1>1. TypeOK /\ [Next \/ BatchStep]_vars => [PriceMovesWithinLimit]_oracleVars
  <2> SUFFICES ASSUME TypeOK, [Next \/ BatchStep]_vars, NEW a \in Asset,
                      oracle[a].price > 0, oracle'[a].price # oracle[a].price,
                      oracle[a].max_change_bps > 0
               PROVE  ChangeBps(oracle[a].price, oracle'[a].price)
                         <= oracle[a].max_change_bps
    BY DEF Price, PriceMovesWithinLimit
  <2>1. OracleStep
    BY OracleUntouched
  <2>2. WithinMaxChange(oracle[a], oracle'[a].price)
    BY <2>1, OracleWrites
  <2> QED BY <2>2 DEF WithinMaxChange
<1>2. [][PriceMovesWithinLimit]_oracleVars /\ []PriceWithinBounds
        => [][PriceWithinBounds' /\ PriceMovesWithinLimit]_oracleVars
  BY PTL
<1> QED
  BY <1>1, <1>2, TypeCorrect, PricesStayWithinBounds, PTL DEF BatchSpec, PriceDiscipline

-----------------------------------------------------------------------------
(* What stays open while the contract is paused.                           *)

\* Settling never lowers a debt.
LEMMA DebtOnlyGrows ==
    ASSUME IInv, NEW u \in User, NEW a \in Asset
    PROVE  /\ position[u][a].borrowed \in Nat
           /\ CurrentPosition(u, a).borrowed \in Nat
           /\ position[u][a].borrowed <= CurrentPosition(u, a).borrowed
<1> DEFINE p == position[u][a]
           r == Accrual(a)
<1>1. /\ p \in PositionType /\ p.borrow_index_snapshot <= r.borrow_index
      /\ r.borrow_index \in Nat
  BY StoredPositions, AccrualFacts DEF Behind, AccrualType
<1>2. /\ p.borrowed \in Nat /\ p.borrow_index_snapshot \in Nat \ {0}
      /\ p.supply_index_snapshot \in Nat \ {0}
  BY <1>1 DEF PositionType
<1>3. CurrentPosition(u, a).borrowed
        = Realized(p.borrowed, p.borrow_index_snapshot, r.borrow_index)
  BY <1>2 DEF CurrentPosition, AtCurrentIndex, CarriedTo, ComputeAccruedPosition
<1> HIDE DEF p, r
<1>4. Realized(p.borrowed, p.borrow_index_snapshot, r.borrow_index) >= p.borrowed
  BY <1>1, <1>2, SettlingNeverLoses
<1> QED BY <1>2, <1>3, <1>4, Parts DEF p

LEMMA StoredDebt ==
    ASSUME NEW p, p.borrowed \in Nat
    PROVE  Stored(p).borrowed \in Nat /\ Stored(p).borrowed <= p.borrowed
BY DEF Stored, EmptyPosition

\* A debt that was just settled, or that there is none of, does not grow when
\* it is settled again.
LEMMA SettledAgain ==
    ASSUME IInv, NEW a \in Asset, NEW p, p.borrowed \in Nat,
           \/ p.borrowed = 0
           \/ p.borrow_index_snapshot = Accrual(a).borrow_index,
           p.borrow_index_snapshot \in Nat \ {0}
    PROVE  AtCurrentIndex(p, a).borrowed = p.borrowed
<1> DEFINE i == Accrual(a).borrow_index
<1>1. AtCurrentIndex(p, a).borrowed
        \in {p.borrowed, Realized(p.borrowed, p.borrow_index_snapshot, i)}
  BY DEF AtCurrentIndex, CarriedTo, ComputeAccruedPosition
<1>2. Realized(p.borrowed, p.borrow_index_snapshot, i) = p.borrowed
  <2>1. CASE p.borrowed = 0
    BY <2>1 DEF Realized
  <2>2. CASE p.borrow_index_snapshot = i
    <3>1. p.borrowed * (i - p.borrow_index_snapshot) = 0
      BY <2>2
    <3>2. TruncDiv(0, p.borrow_index_snapshot) = 0
      BY DEF TruncDiv, Magnitude
    <3> HIDE DEF i
    <3> QED BY <3>1, <3>2 DEF Realized
  <2> QED BY <2>1, <2>2
<1> QED BY <1>1, <1>2

\* No debt has grown beyond its interest.
NoMoreDebt(f) ==
    \A u \in User, a \in Asset : f[u][a].borrowed <= CurrentPosition(u, a).borrowed

LEMMA UntouchedDebt == IInv => NoMoreDebt(position)
BY DebtOnlyGrows DEF NoMoreDebt

LEMMA RewrittenDebt ==
    ASSUME IInv, NEW f \in [User -> [Asset -> PositionType]], NoMoreDebt(f),
           NEW u \in User, NEW a \in Asset, NEW p, p.borrowed \in Nat,
           p.borrowed <= CurrentPosition(u, a).borrowed
    PROVE  NoMoreDebt([f EXCEPT ![u][a] = Stored(p)])
<1> DEFINE q == Stored(p)
<1>1. q.borrowed <= CurrentPosition(u, a).borrowed
  BY StoredDebt, Parts
<1> HIDE DEF q
<1>2. ASSUME NEW v \in User, NEW e \in Asset
      PROVE  [f EXCEPT ![u][a] = q][v][e].borrowed <= CurrentPosition(v, e).borrowed
  <2>1. CASE v = u /\ e = a
    BY <1>1, <2>1
  <2>2. CASE v # u \/ e # a
    <3>1. [f EXCEPT ![u][a] = q][v][e] = f[v][e]
      BY <2>2
    <3> QED BY <3>1 DEF NoMoreDebt
  <2> QED BY <2>1, <2>2
<1>3. NoMoreDebt([f EXCEPT ![u][a] = q])
  BY <1>2 DEF NoMoreDebt
<1> QED BY <1>3 DEF q

LEMMA LiquidatedDebt ==
    ASSUME IInv, NEW l \in User, NEW u \in User, NEW c \in Asset, NEW d \in Asset,
           NEW repay \in Nat, NEW seize \in Nat,
           repay <= CurrentPosition(u, d).borrowed,
           seize <= CurrentPosition(u, c).deposited
    PROVE  NoMoreDebt(LiquidatedPositions(l, u, c, d, repay, seize))
<1> DEFINE Fine(f) == f \in [User -> [Asset -> PositionType]] /\ NoMoreDebt(f)
           debt == CurrentPosition(u, d)
           coll == CurrentPosition(u, c)
           paid == [debt EXCEPT !.borrowed = @ - repay]
           rest == [coll EXCEPT !.deposited = @ - seize]
           first == [position EXCEPT ![u][d] = Stored(paid)]
           second == [first EXCEPT ![u][c] = Stored(rest)]
           gained == AtCurrentIndex(second[l][c], c)
           more == [gained EXCEPT !.deposited = @ + seize]
           third == [second EXCEPT ![l][c] = Stored(more)]
<1>1. /\ Behind(debt, Accrual(d)) /\ Behind(coll, Accrual(c))
      /\ debt.borrowed \in Nat /\ coll.borrowed \in Nat
      /\ debt \in PositionType /\ coll \in PositionType
  BY Parts DEF Behind
<1>2. ASSUME NEW f, Fine(f), NEW v \in User, NEW a \in Asset, NEW p,
             p \in PositionType, p.borrowed <= CurrentPosition(v, a).borrowed
      PROVE  Fine([f EXCEPT ![v][a] = Stored(p)])
  <2>1. Stored(p) \in PositionType
    BY <1>2, ScaleAssumption DEF Stored, EmptyPosition, PositionType
  <2>2. p.borrowed \in Nat
    BY <1>2 DEF PositionType
  <2> DEFINE q == Stored(p)
  <2>3. NoMoreDebt([f EXCEPT ![v][a] = q])
    BY <1>2, <2>2, RewrittenDebt
  <2> HIDE DEF q
  <2>4. [f EXCEPT ![v][a] = q] \in [User -> [Asset -> PositionType]]
    BY <1>2, <2>1 DEF q
  <2> QED BY <2>3, <2>4 DEF q
<1>3. Fine(position)
  BY UntouchedDebt DEF IInv, TypeOK
<1>4. /\ paid \in PositionType /\ paid.borrowed <= debt.borrowed
      /\ rest \in PositionType /\ rest.borrowed = coll.borrowed
      /\ rest.borrow_index_snapshot = coll.borrow_index_snapshot
  BY <1>1 DEF PositionType
<1>5. coll.borrow_index_snapshot = Accrual(c).borrow_index
  <2>1. /\ position[u][c].borrow_index_snapshot \in Nat \ {0}
                          /\ position[u][c].supply_index_snapshot \in Nat \ {0}
    BY StoredPositions DEF Behind, PositionType
  <2> QED BY <2>1 DEF CurrentPosition, AtCurrentIndex, CarriedTo, ComputeAccruedPosition
<1> HIDE DEF Fine
<1>6. Fine(first)
  BY <1>1, <1>2, <1>3, <1>4
<1>7. Fine(second)
  <2> HIDE DEF first, rest
  <2> QED BY <1>1, <1>2, <1>4, <1>6
<1>8. gained \in PositionType /\ gained.borrowed <= CurrentPosition(l, c).borrowed
  <2>1. CASE l = u
    <3> DEFINE s == Stored(rest)
    <3>1. second[l][c] = s
      BY <1>6, <2>1 DEF Fine
    <3>2. /\ s.borrowed \in Nat /\ s.borrowed <= coll.borrowed
          /\ s.borrow_index_snapshot \in Nat \ {0}
          /\ s.borrowed = 0 \/ s.borrow_index_snapshot = Accrual(c).borrow_index
      BY <1>1, <1>4, <1>5, ScaleAssumption DEF Stored, EmptyPosition, PositionType
    <3>3. Behind(s, Accrual(c))
      <4>1. Behind(rest, Accrual(c))
        BY <1>1, <1>4 DEF Behind
      <4> QED BY <4>1, StoredBehind
    <3> HIDE DEF s
    <3>4. AtCurrentIndex(s, c).borrowed = s.borrowed
      BY <3>2, SettledAgain
    <3>5. AtCurrentIndex(s, c) \in PositionType
      BY <3>3, SettledBehind DEF Behind
    <3> QED BY <2>1, <3>1, <3>2, <3>4, <3>5
  <2>2. CASE l # u
    <3>1. second[l][c] = position[l][c]
      BY <1>3, <2>2 DEF Fine
    <3>2. gained = CurrentPosition(l, c)
      BY <3>1 DEF CurrentPosition
    <3>3. CurrentPosition(l, c) \in PositionType
      BY CurrentPositionBehind DEF Behind
    <3>4. CurrentPosition(l, c).borrowed \in Nat
      BY Parts
    <3> QED BY <3>2, <3>3, <3>4
  <2> QED BY <2>1, <2>2
<1> HIDE DEF first, second, gained
<1>9. more \in PositionType /\ more.borrowed = gained.borrowed
  BY <1>8 DEF PositionType
<1>10. Fine(third)
  <2> HIDE DEF more
  <2> QED BY <1>2, <1>7, <1>8, <1>9
<1>11. LiquidatedPositions(l, u, c, d, repay, seize) = third
  BY DEF LiquidatedPositions, debt, coll, first, second, gained, third
<1> QED BY <1>10, <1>11 DEF Fine

SettingsKept == UNCHANGED <<supported, oracle, maxAge, caps, risk, rates, config>>

\* What a paused contract does to its books and positions.
ExitsOnly ==
    /\ SettingsKept
    /\ \A a \in Asset :
          \/ book'[a] = book[a]
          \/ book'[a].total_deposited <= Accrued(a).total_deposited
    /\ \A u \in User, a \in Asset :
          position'[u][a].borrowed <= CurrentPosition(u, a).borrowed

LEMMA RepayExits ==
    ASSUME IInv, NEW u \in User, NEW a \in Asset, NEW n \in Int, Repay(u, a, n)
    PROVE  ExitsOnly
<1> DEFINE q == CurrentPosition(u, a)
           rest == q.borrowed - n
           dust == IF rest > 0 /\ rest <= DUST_THRESHOLD THEN rest ELSE 0
           b == RepaidBook(Accrued(a), n, dust)
           p == [q EXCEPT !.borrowed = rest - dust]
<1>1. /\ n > 0 /\ n <= q.borrowed
      /\ position' = [position EXCEPT ![u][a] = Stored(p)]
      /\ book' = [book EXCEPT ![a] = b] /\ SettingsKept
  BY DEF Repay, SetPosition, SettingsKept, oracleVars, adminVars
<1>2. /\ q \in PositionType /\ q.borrowed \in Nat
      /\ Accrued(a) \in BookType /\ Accrued(a).total_deposited \in Int
  BY Parts, AccruedFacts DEF Behind, BookType
<1>3. rest - dust \in Nat /\ rest - dust <= q.borrowed
  BY <1>1, <1>2
<1>4. b.total_deposited = Accrued(a).total_deposited
  BY <1>2 DEF RepaidBook, Posted, BookType
<1> HIDE DEF rest, dust
<1>5. p.borrowed \in Nat /\ p.borrowed <= q.borrowed
  BY <1>2, <1>3 DEF PositionType
<1> HIDE DEF p, b
<1>6. NoMoreDebt(position')
  BY <1>1, <1>5, UntouchedDebt, RewrittenDebt DEF IInv, TypeOK
<1>7. \A e \in Asset : \/ book'[e] = book[e]
                       \/ book'[e].total_deposited <= Accrued(e).total_deposited
  BY <1>1, <1>2, <1>4 DEF IInv, TypeOK
<1> QED BY <1>1, <1>6, <1>7 DEF ExitsOnly, NoMoreDebt

LEMMA WithdrawExits ==
    ASSUME IInv, NEW u \in User, NEW a \in Asset, NEW c \in Asset, NEW n \in Int,
           Withdraw(u, a, c, n)
    PROVE  ExitsOnly
<1> DEFINE q == CurrentPosition(u, a)
           b == Posted(Accrued(a), -n, 0, -n, 0)
           p == [q EXCEPT !.deposited = @ - n]
<1>1. /\ n > 0
      /\ position' = [position EXCEPT ![u][a] = Stored(p)]
      /\ book' = [book EXCEPT ![a] = b] /\ SettingsKept
  BY DEF Withdraw, SetPosition, SettingsKept, oracleVars, adminVars
<1>2. /\ q \in PositionType /\ q.borrowed \in Nat
      /\ Accrued(a) \in BookType /\ Accrued(a).total_deposited \in Int
  BY Parts, AccruedFacts DEF Behind, BookType
<1>3. b.total_deposited <= Accrued(a).total_deposited
  BY <1>1, <1>2 DEF Posted, BookType
<1>4. p.borrowed \in Nat /\ p.borrowed <= q.borrowed
  BY <1>2 DEF PositionType
<1> HIDE DEF p, b
<1>5. NoMoreDebt(position')
  BY <1>1, <1>4, UntouchedDebt, RewrittenDebt DEF IInv, TypeOK
<1>6. \A e \in Asset : \/ book'[e] = book[e]
                       \/ book'[e].total_deposited <= Accrued(e).total_deposited
  BY <1>1, <1>3 DEF IInv, TypeOK
<1> QED BY <1>1, <1>5, <1>6 DEF ExitsOnly, NoMoreDebt

LEMMA LiquidateExits ==
    ASSUME IInv, NEW l \in User, NEW u \in User, NEW c \in Asset, NEW d \in Asset,
           NEW n \in Int, Liquidate(l, u, c, d, n)
    PROVE  ExitsOnly
<1> DEFINE repay == Smaller(n, CurrentPosition(u, d).borrowed)
           seize == SeizeAmount(u, c, d, repay)
           b == Posted(Accrued(d), 0, -repay, repay, 0)
<1>1. /\ position' = LiquidatedPositions(l, u, c, d, repay, seize)
      /\ book' = [book EXCEPT ![c] = Accrued(c), ![d] = b]
      /\ SettingsKept
  BY DEF Liquidate, SettingsKept, oracleVars, adminVars
<1>2. /\ repay \in Nat /\ repay <= CurrentPosition(u, d).borrowed
      /\ seize \in Nat /\ seize <= CurrentPosition(u, c).deposited
  BY LiquidatedAmounts
<1> HIDE DEF repay, seize
<1>3. NoMoreDebt(position')
  BY <1>1, <1>2, LiquidatedDebt
<1>4. /\ Accrued(c).total_deposited \in Int
      /\ Accrued(d) \in BookType /\ Accrued(d).total_deposited \in Int
  BY AccruedFacts DEF BookType
<1>5. b.total_deposited = Accrued(d).total_deposited
  BY <1>4 DEF Posted, BookType
<1> HIDE DEF b
<1>6. \A e \in Asset : \/ book'[e] = book[e]
                       \/ book'[e].total_deposited <= Accrued(e).total_deposited
  BY <1>1, <1>4, <1>5 DEF IInv, TypeOK
<1> QED BY <1>1, <1>3, <1>6 DEF ExitsOnly, NoMoreDebt

LEMMA PostedDeposits ==
    ASSUME NEW x \in BookType, NEW dep, NEW bor, NEW bal, NEW fee
    PROVE  Posted(x, dep, bor, bal, fee).total_deposited = x.total_deposited + dep
BY DEF Posted, BookType

LEMMA BatchExits ==
    ASSUME IInv, SettingsKept, NEW u \in User,
           NEW S \in SUBSET Asset, NEW T \in SUBSET S, NEW next, NEW b, NEW loss,
           BatchWrites(u, S, T, next, b, loss),
           \A a \in T : /\ next[a].borrowed \in Nat
                        /\ next[a].borrowed <= CurrentPosition(u, a).borrowed,
           \A a \in S : b[a].total_deposited <= Accrued(a).total_deposited
    PROVE  ExitsOnly
<1> DEFINE row == [a \in Asset |-> IF a \in T THEN Stored(next[a]) ELSE position[u][a]]
<1>1. /\ position \in [User -> [Asset -> PositionType]]
      /\ position' = [position EXCEPT ![u] = row]
      /\ \A a \in T : row[a] = Stored(next[a])
      /\ \A a \in Asset \ T : row[a] = position[u][a]
  BY DEF BatchWrites, IInv, TypeOK
<1> HIDE DEF row
<1>2. ASSUME NEW v \in User, NEW a \in Asset
      PROVE  position'[v][a].borrowed <= CurrentPosition(v, a).borrowed
  <2>1. CASE v = u /\ a \in T
    <3> DEFINE p == next[a]
    <3>1. p.borrowed \in Nat /\ p.borrowed <= CurrentPosition(u, a).borrowed
      BY <2>1
    <3>2. position'[v][a] = Stored(p)
      BY <1>1, <2>1
    <3> HIDE DEF p
    <3> QED BY <2>1, <3>1, <3>2, StoredDebt, Parts
  <2>2. CASE v # u \/ a \notin T
    <3>1. position'[v][a] = position[v][a]
      BY <1>1, <2>2
    <3> QED BY <3>1, DebtOnlyGrows
  <2> QED BY <2>1, <2>2
<1>3. \A a \in Asset : \/ book'[a] = book[a]
                       \/ book'[a].total_deposited <= Accrued(a).total_deposited
  BY DEF BatchWrites
<1> QED BY <1>2, <1>3 DEF ExitsOnly

LEMMA RepayBatchExits ==
    ASSUME IInv, NEW u \in User, NEW ops \in Seq(BatchOperation), RepayBatch(u, ops)
    PROVE  ExitsOnly
<1> DEFINE T == Touched(ops)
           n(a) == Total(ops, a)
           rest == [a \in Asset |-> CurrentPosition(u, a).borrowed - n(a)]
           loss == [a \in Asset |-> IF a \in T /\ rest[a] <= DUST_THRESHOLD
                                      THEN rest[a] ELSE 0]
           next == [a \in Asset |->
                      [CurrentPosition(u, a) EXCEPT !.borrowed = rest[a] - loss[a]]]
           b == [a \in Asset |-> Posted(Accrued(a), 0, -(n(a) + loss[a]), n(a), 0)]
<1>0. /\ ValidOperations(ops) /\ RepayableInTurn(u, ops)
      /\ SetPositions(u, ops, next) /\ SetBooks(T, b)
      /\ SettingsKept /\ lost' = [a \in Asset |-> lost[a] + loss[a]]
  BY DEF RepayBatch, RepaidBook, SettingsKept, oracleVars, adminVars
<1>1. BatchWrites(u, T, T, next, b, loss)
  BY <1>0 DEF BatchWrites, SetPositions, SetBooks, IInv, TypeOK
<1>2. ASSUME NEW a \in Asset
      PROVE  /\ next[a].borrowed \in Nat
             /\ next[a].borrowed <= CurrentPosition(u, a).borrowed
             /\ b[a].total_deposited <= Accrued(a).total_deposited
  <2>1. n(a) \in Nat /\ n(a) <= CurrentPosition(u, a).borrowed
    BY <1>0, RepayableTotals
  <2>2. /\ CurrentPosition(u, a) \in PositionType /\ CurrentPosition(u, a).borrowed \in Nat
        /\ Accrued(a) \in BookType /\ Accrued(a).total_deposited \in Int
    BY Parts, AccruedFacts DEF Behind, BookType
  <2> HIDE DEF n
  <2>3. rest[a] - loss[a] \in Nat /\ rest[a] - loss[a] <= CurrentPosition(u, a).borrowed
    BY <2>1, <2>2
  <2>4. next[a].borrowed = rest[a] - loss[a]
    BY <2>2 DEF PositionType
  <2>5. b[a].total_deposited = Accrued(a).total_deposited + 0
    BY <2>2, PostedDeposits
  <2> QED BY <2>2, <2>3, <2>4, <2>5
<1>3. T \in SUBSET Asset
  BY BatchDomain
<1> HIDE DEF T, n, rest, loss, next, b
<1> QED BY <1>0, <1>1, <1>2, <1>3, BatchExits

LEMMA WithdrawBatchExits ==
    ASSUME IInv, NEW u \in User, NEW d \in Asset, NEW ops \in Seq(BatchOperation),
           WithdrawBatch(u, d, ops)
    PROVE  ExitsOnly
<1> DEFINE T == Touched(ops)
           S == T \cup {d}
           n(a) == Total(ops, a)
           next == [a \in Asset |-> [CurrentPosition(u, a) EXCEPT !.deposited = @ - n(a)]]
           b == [a \in Asset |-> Posted(Accrued(a), -n(a), 0, -n(a), 0)]
           loss == [a \in Asset |-> 0]
<1>0. /\ ValidOperations(ops) /\ SetPositions(u, ops, next) /\ SetBooks(S, b)
      /\ SettingsKept /\ UNCHANGED lost
  BY DEF WithdrawBatch, SettingsKept, oracleVars, adminVars
<1>1. BatchWrites(u, S, T, next, b, loss)
  BY <1>0 DEF BatchWrites, SetPositions, SetBooks, IInv, TypeOK
<1>2. ASSUME NEW a \in Asset
      PROVE  /\ next[a].borrowed \in Nat
             /\ next[a].borrowed <= CurrentPosition(u, a).borrowed
             /\ b[a].total_deposited <= Accrued(a).total_deposited
  <2>1. n(a) \in Nat
    BY <1>0, BatchTotals
  <2>2. /\ CurrentPosition(u, a) \in PositionType /\ CurrentPosition(u, a).borrowed \in Nat
        /\ Accrued(a) \in BookType /\ Accrued(a).total_deposited \in Int
    BY Parts, AccruedFacts DEF Behind, BookType
  <2> HIDE DEF n
  <2>3. next[a].borrowed = CurrentPosition(u, a).borrowed
    BY <2>2 DEF PositionType
  <2>4. b[a].total_deposited = Accrued(a).total_deposited + (-n(a))
    BY <2>2, PostedDeposits
  <2> QED BY <2>1, <2>2, <2>3, <2>4
<1>3. S \in SUBSET Asset /\ T \in SUBSET S
  BY BatchDomain
<1> HIDE DEF S, T, n, next, b, loss
<1> QED BY <1>0, <1>1, <1>2, <1>3, BatchExits

\* Every entrypoint but the exits asks that the contract is not paused.
LEMMA PausedSteps ==
    ASSUME [Next \/ BatchStep]_vars, paused, paused'
    PROVE  \/ \E u \in User, a \in Asset, n \in Amounts : Repay(u, a, n)
           \/ \E u \in User, a \in Asset, c \in Asset, n \in Amounts :
                 Withdraw(u, a, c, n)
           \/ \E l \in User, u \in User, pair \in LiquidationPairs, n \in Amounts :
                 Liquidate(l, u, pair[1], pair[2], n)
           \/ \E u \in User, ops \in Batches : RepayBatch(u, ops)
           \/ \E u \in User, c \in Asset, ops \in Batches : WithdrawBatch(u, c, ops)
           \/ SettingsKept /\ UNCHANGED <<book, position>>
<1> DEFINE Idle == SettingsKept /\ UNCHANGED <<book, position>>
<1>1. CASE UserStep
  BY <1>1 DEF UserStep, Deposit, Borrow
<1>2. CASE LiquidationStep
  <2>1. ASSUME NEW u, NEW a, WriteoffBadDebt(u, a) PROVE FALSE
    BY <2>1 DEF WriteoffBadDebt
  <2> QED BY <1>2, <2>1 DEF LiquidationStep
<1>3. CASE AdminStep
  <2>1. ASSUME NEW a, NEW e, ApplyConfigureAsset(a, e) PROVE FALSE
    BY <2>1 DEF ApplyConfigureAsset
  <2>2. ASSUME NEW a, NEW c, NEW d,
               ApplyUpdateAssetCaps(a, c, d) \/ SetSupplyCap(a, c)
                   \/ SetBorrowCap(a, c) \/ SetInterestParams(a, c)
        PROVE  FALSE
    BY <2>2 DEF ApplyUpdateAssetCaps, SetSupplyCap, SetBorrowCap, SetInterestParams
  <2>3. ASSUME NEW a, NEW x, NEW y, NEW z, ApplySetAssetRiskParams(a, x, y, z)
        PROVE  FALSE
    BY <2>3 DEF ApplySetAssetRiskParams
  <2>4. ASSUME NEW x, NEW y,
               ApplySetMinCollateralRatio(x) \/ SetLiquidationParams(x, y)
        PROVE  FALSE
    BY <2>4 DEF ApplySetMinCollateralRatio, SetLiquidationParams
  <2>5. ASSUME NEW x, ApplySetPaused(x) PROVE Idle
    BY <2>5 DEF ApplySetPaused, SettingsKept, oracleVars, adminVars, poolVars
  <2> QED BY <1>3, <2>1, <2>2, <2>3, <2>4, <2>5 DEF AdminStep
<1>4. ~FeeStep /\ ~(\E a \in Asset : AccrueInterest(a))
  BY DEF FeeStep, SetMaxProtocolFeeBps, ApplyRecordProtocolFee,
         ApplyWithdrawReserves, AccrueInterest
<1>5. ~OracleStep
  BY DEF OracleStep, SetOraclePrice, ExecuteSetOraclePrice, SetMaxOracleAge,
         SetOracleMaxChangeBps, SetOraclePriceBounds
<1>6. CASE Tick \/ UNCHANGED vars
  BY <1>6 DEF Tick, vars, SettingsKept, oracleVars, adminVars, poolVars
<1>7. CASE BatchStep
  <2>1. ASSUME NEW u, NEW ops, DepositBatch(u, ops) PROVE FALSE
    BY <2>1 DEF DepositBatch
  <2>2. ASSUME NEW u, NEW c, NEW ops, BorrowBatch(u, c, ops) PROVE FALSE
    BY <2>2 DEF BorrowBatch
  <2> QED BY <1>7, <2>1, <2>2 DEF BatchStep
<1> QED BY <1>1, <1>2, <1>3, <1>4, <1>5, <1>6, <1>7 DEF Next

\* While the contract is paused no debt and no total of deposits grows beyond
\* its interest and no setting changes, whatever anybody calls.
THEOREM PauseHolds == BatchSpec => PauseStopsNewRisk
<1>1. IInv /\ [Next \/ BatchStep]_vars => [paused /\ paused' => ExitsOnly]_vars
  <2> SUFFICES ASSUME IInv, [Next \/ BatchStep]_vars, paused, paused' PROVE ExitsOnly
    OBVIOUS
  <2> USE PoolAssumption
  <2>1. ASSUME NEW u \in User, NEW a \in Asset, NEW n \in Amounts, Repay(u, a, n)
        PROVE  ExitsOnly
    BY <2>1, RepayExits
  <2>2. ASSUME NEW u \in User, NEW a \in Asset, NEW c \in Asset, NEW n \in Amounts,
               Withdraw(u, a, c, n)
        PROVE  ExitsOnly
    BY <2>2, WithdrawExits
  <2>3. ASSUME NEW l \in User, NEW u \in User, NEW pair \in LiquidationPairs,
               NEW n \in Amounts, Liquidate(l, u, pair[1], pair[2], n)
        PROVE  ExitsOnly
    BY <2>3, LiquidateExits
  <2>4. ASSUME NEW u \in User, NEW ops \in Batches, RepayBatch(u, ops)
        PROVE  ExitsOnly
    BY <2>4, BatchOf, RepayBatchExits
  <2>5. ASSUME NEW u \in User, NEW c \in Asset, NEW ops \in Batches,
               WithdrawBatch(u, c, ops)
        PROVE  ExitsOnly
    BY <2>5, BatchOf, WithdrawBatchExits
  <2>6. CASE SettingsKept /\ UNCHANGED <<book, position>>
    BY <2>6, DebtOnlyGrows DEF ExitsOnly
  <2> QED BY <2>1, <2>2, <2>3, <2>4, <2>5, <2>6, PausedSteps
<1>2. [paused /\ paused' => ExitsOnly]_vars
        <=> [paused /\ paused' =>
               /\ UNCHANGED <<supported, oracle, maxAge, caps, risk, rates, config>>
               /\ \A a \in Asset :
                     \/ book'[a] = book[a]
                     \/ book'[a].total_deposited <= Accrued(a).total_deposited
               /\ \A u \in User, a \in Asset :
                     position'[u][a].borrowed <= CurrentPosition(u, a).borrowed]_vars
  BY DEF ExitsOnly, SettingsKept
<1> QED BY <1>1, <1>2, PoolInvariant, PTL DEF BatchSpec, PauseStopsNewRisk
=============================================================================

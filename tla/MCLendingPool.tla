--------------------------- MODULE MCLendingPool ----------------------------
(* LendingPool on two users and at most two assets.  Basis points are      *)
(* twentieths: BPS = 20 makes every constant of the code a whole number    *)
(* (500 bps is 1, 15_000 bps is 30).                                       *)
EXTENDS PoolBatches, TLC

CONSTANTS alice, bob, xlm, usdc

MCUser == {alice, bob}
OneAsset == {xlm}
TwoAssets == {xlm, usdc}
NoChoice == {}

CrossPairs == {<<xlm, usdc>>, <<usdc, xlm>>}
SelfPairs == {<<xlm, xlm>>}
NoPairs == {}

\* A kinked model with a reserve factor.
Kinked == {[base_rate_bps |-> 2, kink_util_bps |-> 10, slope1_bps |-> 10,
            slope2_bps |-> 40, reserve_factor_bps |-> 2]}

\* Valid and invalid (factor above threshold) risk parameters.
MCRisk == {<<10, 16, 2>>, <<20, 10, 0>>}
MCLiquidation == {<<20, 4>>, <<21, 0>>}
MCPrices == {-1, 1, 2, 3, 4}
Doubled == {2}
MCCaps == {-1, 0, 1}
MCBounds == {<<1, 2>>, <<2, 4>>, <<3, 2>>}

Op(a, n) == [asset |-> a, amount |-> n]

\* One asset twice, and two assets at once.
XlmTwice == {<<Op(xlm, 1), Op(xlm, 1)>>}
MixedBatches == {<<Op(xlm, 1), Op(usdc, 1)>>, <<Op(xlm, 1), Op(xlm, 2)>>}

Sym == Permutations(MCUser)

UnitPrices == [a \in Asset |-> 1]
=============================================================================

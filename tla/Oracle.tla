------------------------------- MODULE Oracle -------------------------------
(***************************************************************************)
(* The price oracle kept by the lending contract                           *)
(* (veilend-soroban/src/lib.rs): per asset a price with its timestamp, a   *)
(* limit on the change per update and absolute bounds, and one maximum     *)
(* age for all assets.  A read that finds no price, or one older than the  *)
(* maximum age, aborts the transaction that needs it.                      *)
(*                                                                         *)
(* The clock and the pause flag are shared with LendingPool, which extends *)
(* this module.  Admin authorization is Governance's subject: here an      *)
(* admin may make any call its guards accept.                              *)
(***************************************************************************)
EXTENDS Interest

CONSTANTS
    Asset,
    Prices,              \* prices an admin may submit
    MaxChanges,          \* per-update change limits an admin may set
    Bounds,              \* pairs <<min, max>> an admin may submit
    MaxAges              \* maximum ages an admin may set

ASSUME OracleAssumption ==
    /\ Prices \subseteq Int
    /\ MaxChanges \subseteq Nat
    /\ Bounds \subseteq Int \X Int
    /\ MaxAges \subseteq Nat

VARIABLES
    now,                 \* env.ledger().timestamp()
    paused,              \* DataKey::Paused
    supported,           \* DataKey::SupportedAsset / SupportedAssetList
    oracle,              \* the oracle key group of each asset
    maxAge               \* DataKey::MaxOracleAge

oracleVars == <<oracle, maxAge>>

\* Zero stands for an absent key: every stored price and bound is positive,
\* and a change limit of zero is no limit.
Unset == 0

NoOracle == [price |-> Unset, updated |-> 0, prev |-> Unset,
             max_change_bps |-> Unset, min |-> Unset, max |-> Unset]

-----------------------------------------------------------------------------
\* The relative change against the stored price, in basis points.
ChangeBps(current, price) == (Magnitude(price - current) * BPS) \div current

\* Mutant: the change is measured against the previous price.
WithinMaxChangeOfPrev(o, price) ==
    (o.prev > 0 /\ o.max_change_bps > 0)
        => ChangeBps(o.prev, price) <= o.max_change_bps

WithinMaxChange(o, price) ==
    (o.price > 0 /\ o.max_change_bps > 0)
        => ChangeBps(o.price, price) <= o.max_change_bps

WithinBounds(o, price) ==
    /\ o.min # Unset => price >= o.min
    /\ o.max # Unset => price <= o.max

\* apply_set_oracle_price, shared by the direct and the timelocked path.
ApplySetOraclePrice(asset, price) ==
    /\ price > 0
    /\ WithinMaxChange(oracle[asset], price)
    /\ WithinBounds(oracle[asset], price)
    /\ oracle' = [oracle EXCEPT ![asset].prev = oracle[asset].price,
                                ![asset].price = price,
                                ![asset].updated = now]
    /\ UNCHANGED maxAge

\* Mutant: prices may be set while paused.
SetOraclePriceWhilePaused(asset, price) ==
    /\ asset \in supported
    /\ ApplySetOraclePrice(asset, price)

SetOraclePrice(asset, price) ==
    /\ asset \in supported
    /\ ~paused
    /\ ApplySetOraclePrice(asset, price)

\* The timelocked path does not ask whether the asset is supported.
ExecuteSetOraclePrice(asset, price) ==
    /\ ~paused
    /\ ApplySetOraclePrice(asset, price)

SetMaxOracleAge(seconds) ==
    /\ ~paused
    /\ maxAge' = seconds
    /\ UNCHANGED oracle

SetOracleMaxChangeBps(asset, max_bps) ==
    /\ asset \in supported
    /\ ~paused
    /\ oracle' = [oracle EXCEPT ![asset].max_change_bps = max_bps]
    /\ UNCHANGED maxAge

\* Mutant: the current price is not looked at.
SetOraclePriceBoundsUnchecked(asset, min, max) ==
    /\ asset \in supported
    /\ ~paused
    /\ min > 0 /\ min <= max
    /\ oracle' = [oracle EXCEPT ![asset].min = min, ![asset].max = max]
    /\ UNCHANGED maxAge

\* Bounds that would leave the current price outside are refused.
SetOraclePriceBounds(asset, min, max) ==
    /\ asset \in supported
    /\ ~paused
    /\ min > 0 /\ min <= max
    /\ oracle[asset].price # Unset => oracle[asset].price \in min .. max
    /\ oracle' = [oracle EXCEPT ![asset].min = min, ![asset].max = max]
    /\ UNCHANGED maxAge

\* read_oracle_price succeeds: a price exists and is not too old.
PriceReadable(asset) ==
    /\ oracle[asset].price > 0
    /\ now - oracle[asset].updated <= maxAge

Price(asset) == oracle[asset].price

OracleStep ==
    \/ \E asset \in Asset, price \in Prices :
          \/ SetOraclePrice(asset, price)
          \/ ExecuteSetOraclePrice(asset, price)
    \/ \E seconds \in MaxAges : SetMaxOracleAge(seconds)
    \/ \E asset \in Asset, max_bps \in MaxChanges :
          SetOracleMaxChangeBps(asset, max_bps)
    \/ \E asset \in Asset, b \in Bounds :
          SetOraclePriceBounds(asset, b[1], b[2])

-----------------------------------------------------------------------------
(* Properties.                                                             *)

OracleType ==
    [price : Nat, updated : Nat, prev : Nat, max_change_bps : Nat,
     min : Nat, max : Nat]

\* A stored price is inside the stored bounds, in whichever order prices and
\* bounds are set: each setter checks what the other one stored.
PriceWithinBounds ==
    \A a \in Asset : Price(a) # Unset => WithinBounds(oracle[a], Price(a))

\* One update never moves a price by more than the limit stored before it,
\* on either path.
PriceMovesWithinLimit ==
    \A a \in Asset :
        (Price(a) > 0 /\ Price(a)' # Price(a) /\ oracle[a].max_change_bps > 0)
            => ChangeBps(Price(a), Price(a)') <= oracle[a].max_change_bps

\* Whatever an admin sets in whichever order, every update leaves the stored
\* prices inside the stored bounds and moves none by more than its limit.
PriceDiscipline == [][PriceWithinBounds' /\ PriceMovesWithinLimit]_oracleVars
=============================================================================

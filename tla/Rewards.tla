------------------------------- MODULE Rewards ------------------------------
(***************************************************************************)
(* Liquidity-mining rewards (veilend-soroban/src/rewards.rs) on top of the *)
(* pool: every entrypoint that changes a position first advances the       *)
(* asset's reward indexes and settles the positions it touches, as they    *)
(* were before the change.  The supply and the borrow counter of a user,   *)
(* which are only ever added up, are one.                                  *)
(***************************************************************************)
EXTENDS PoolBatches, SequencesExt

CONSTANTS Speeds,        \* <<supply, borrow>> reward speeds an admin may set
          Schedules,     \* <<cliff, duration>> an admin may set
          Payments       \* amounts an admin may fund or recover

ASSUME RewardsAssumption ==
    /\ Speeds \subseteq Int \X Int
    /\ Schedules \subseteq Nat \X Nat
    /\ Payments \subseteq Int
    /\ IsFiniteSet(User) /\ IsFiniteSet(Asset)

VARIABLES
    pace,                \* per asset: AssetRewardState
    claim,               \* per user and asset: UserRewardState
    grants,              \* per user: VestingGrants, oldest first
    schedule,            \* VestingCliffSeconds, VestingDurationSeconds
    pool,                \* RewardToken set, RewardPoolFunded, token balance
    emitted,             \* auxiliary: what the speeds have handed out
    granted,             \* auxiliary: sum of all grants of a user
    paid                 \* auxiliary: what vesting has paid a user

rewardVars == <<pace, claim, grants, schedule, pool, emitted, granted, paid>>

\* An absent AssetRewardState is anchored at the time it is read; without
\* speeds an anchor of zero is the same.
RewardsInit ==
    /\ pace = [a \in Asset |-> [supply_index |-> 0, borrow_index |-> 0, supply_speed |-> 0,
                                borrow_speed |-> 0, last |-> 0]]
    /\ claim = [u \in User |-> [a \in Asset |->
                   [supply_snapshot |-> 0, borrow_snapshot |-> 0, unclaimed |-> 0]]]
    /\ grants = [u \in User |-> <<>>]
    /\ schedule = [cliff |-> 0, duration |-> 0]
    /\ pool = [token |-> FALSE, funded |-> 0, balance |-> 0]
    /\ emitted = 0
    /\ granted = [u \in User |-> 0] /\ paid = [u \in User |-> 0]

-----------------------------------------------------------------------------
(* Indexes and what users earn by them.                                    *)

Elapsed(a) == IF now <= pace[a].last THEN 0 ELSE now - pace[a].last

\* Growth of an index; time without any balance emits nothing.
IndexDelta(a, speed, total) ==
    IF speed > 0 /\ total > 0 THEN (speed * Elapsed(a) * RATE_SCALE) \div total ELSE 0

\* advance_reward_indexes of asset a, whose book is b.
Advanced(a, b) ==
    [pace[a] EXCEPT !.supply_index = @ + IndexDelta(a, pace[a].supply_speed, b.total_deposited),
                    !.borrow_index = @ + IndexDelta(a, pace[a].borrow_speed, b.total_borrowed),
                    !.last = now]

Emission(a, b) ==
    Elapsed(a) * ((IF b.total_deposited > 0 THEN pace[a].supply_speed ELSE 0)
                  + (IF b.total_borrowed > 0 THEN pace[a].borrow_speed ELSE 0))

Earned(balance, index, snapshot) ==
    IF balance > 0 /\ index > snapshot THEN (balance * (index - snapshot)) \div RATE_SCALE ELSE 0

\* Mutant: a user without a balance is not brought to the live indexes.
SettledIfHolding(u, a, p, r) ==
    IF p.deposited + p.borrowed = 0 THEN claim[u][a]
    ELSE [supply_snapshot |-> r.supply_index, borrow_snapshot |-> r.borrow_index,
          unclaimed |-> claim[u][a].unclaimed
              + Earned(p.deposited, r.supply_index, claim[u][a].supply_snapshot)
              + Earned(p.borrowed, r.borrow_index, claim[u][a].borrow_snapshot)]

\* accrue_from_indexes: position p of user u earns up to the indexes r.
Settled(u, a, p, r) ==
    [supply_snapshot |-> r.supply_index, borrow_snapshot |-> r.borrow_index,
     unclaimed |-> claim[u][a].unclaimed
         + Earned(p.deposited, r.supply_index, claim[u][a].supply_snapshot)
         + Earned(p.borrowed, r.borrow_index, claim[u][a].borrow_snapshot)]

Advance(assets) ==
    /\ pace' = [a \in Asset |-> IF a \in assets THEN Advanced(a, Accrued(a)) ELSE pace[a]]
    /\ emitted' = emitted + SumFunctionOnSet([a \in Asset |-> Emission(a, Accrued(a))], assets)

\* accrue_user_rewards for each user and asset of `touched`, before the
\* positions change.
AccrueUserRewards(touched) ==
    /\ Advance({t[2] : t \in touched})
    /\ claim' = [u \in User |-> [a \in Asset |->
           IF <<u, a>> \in touched
             THEN Settled(u, a, CurrentPosition(u, a), Advanced(a, Accrued(a)))
             ELSE claim[u][a]]]
    /\ UNCHANGED <<grants, schedule, pool, granted, paid>>

-----------------------------------------------------------------------------
(* Claims and vesting.                                                     *)

\* Realizes what u has earned in `assets` and turns it into one grant.
ClaimInto(u, assets) ==
    LET r == [a \in Asset |-> Settled(u, a, CurrentPosition(u, a), Advanced(a, Accrued(a)))]
        amount == SumFunctionOnSet([a \in Asset |-> r[a].unclaimed], assets)
    IN  /\ amount > 0
        /\ SetBooks(assets, [a \in Asset |-> Accrued(a)])
        /\ Advance(assets)
        /\ claim' = [claim EXCEPT ![u] = [a \in Asset |->
               IF a \in assets THEN [r[a] EXCEPT !.unclaimed = 0] ELSE @[a]]]
        /\ grants' = [grants EXCEPT ![u] = Append(@,
               [amount |-> amount, claimed |-> 0, start |-> now,
                cliff |-> schedule.cliff, duration |-> schedule.duration])]
        /\ granted' = [granted EXCEPT ![u] = @ + amount]
        /\ UNCHANGED <<now, paused, supported, oracleVars, adminVars, position, lost,
                       schedule, pool, paid>>

ClaimAsset(u, a) == ClaimInto(u, {a})
ClaimAll(u) == ClaimInto(u, supported)

Vested(g) ==
    LET elapsed == now - g.start IN
    IF g.duration = 0 \/ (elapsed >= g.cliff /\ elapsed >= g.duration) THEN g.amount
    ELSE IF elapsed < g.cliff THEN 0 ELSE (g.amount * elapsed) \div g.duration

Releasable(u) == SumFunction([i \in DOMAIN grants[u] |-> Vested(grants[u][i]) - grants[u][i].claimed])

\* Mutant: what was paid before is forgotten.
AfterVestingAnew(g) == g

AfterVesting(g) == [g EXCEPT !.claimed = Vested(g)]

\* Grants paid in full are dropped.
Kept(kept, g) == IF g.claimed < g.amount THEN Append(kept, g) ELSE kept
Unpaid(s) == FoldLeft(Kept, <<>>, s)

\* vest_claimable: all or nothing.
VestClaimable(u) ==
    /\ pool.token /\ Releasable(u) > 0
    /\ pool.balance >= Releasable(u)
    /\ pool' = [pool EXCEPT !.balance = @ - Releasable(u)]
    /\ paid' = [paid EXCEPT ![u] = @ + Releasable(u)]
    /\ grants' = [grants EXCEPT ![u] =
           Unpaid([i \in DOMAIN @ |-> AfterVesting(@[i])])]
    /\ UNCHANGED <<vars, pace, claim, schedule, emitted, granted>>

-----------------------------------------------------------------------------
(* Administration.                                                         *)

\* The token may be replaced until something was funded.
SetRewardToken ==
    /\ ~paused /\ pool.funded = 0
    /\ pool' = [pool EXCEPT !.token = TRUE]
    /\ UNCHANGED <<vars, pace, claim, grants, schedule, emitted, granted, paid>>

\* A token may deliver less than was sent; what arrived is what counts.
FundRewardPool(amount) ==
    /\ ~paused /\ pool.token
    /\ \E received \in 1 .. amount :
           pool' = [pool EXCEPT !.funded = @ + received, !.balance = @ + received]
    /\ pool'.funded <= MaxBalance
    /\ UNCHANGED <<vars, pace, claim, grants, schedule, emitted, granted, paid>>

\* The timelocked payload.
ApplyRecoverRewards(amount) ==
    /\ pool.token /\ amount <= pool.balance
    /\ pool' = [pool EXCEPT !.balance = @ - amount]
    /\ UNCHANGED <<vars, pace, claim, grants, schedule, emitted, granted, paid>>

\* The elapsed time is settled at the old speeds; interest is not settled.
SetRewardSpeeds(a, speed) ==
    /\ ~paused /\ a \in supported
    /\ speed[1] >= 0 /\ speed[2] >= 0
    /\ pace' = [pace EXCEPT ![a] = [Advanced(a, book[a]) EXCEPT
                                       !.supply_speed = speed[1], !.borrow_speed = speed[2]]]
    /\ emitted' = emitted + Emission(a, book[a])
    /\ UNCHANGED <<vars, claim, grants, schedule, pool, granted, paid>>

SetVestingParams(cliff, duration) ==
    /\ ~paused
    /\ duration > 0 => cliff <= duration
    /\ schedule' = [cliff |-> cliff, duration |-> duration]
    /\ UNCHANGED <<vars, pace, claim, grants, pool, emitted, granted, paid>>

-----------------------------------------------------------------------------
(* The pool's entrypoints with the rewards they settle.  Write-offs,       *)
(* accruals and settings leave rewards alone.                              *)

RewardedUserStep ==
    \E u \in User :
        \/ \E a \in Asset, n \in Amounts :
              /\ \/ Deposit(u, a, n)
                 \/ Repay(u, a, n)
                 \/ \E c \in Asset : Borrow(u, a, c, n) \/ Withdraw(u, a, c, n)
              /\ AccrueUserRewards({<<u, a>>})
        \/ \E ops \in Batches :
              /\ \/ DepositBatch(u, ops)
                 \/ RepayBatch(u, ops)
                 \/ \E c \in Asset : WithdrawBatch(u, c, ops) \/ BorrowBatch(u, c, ops)
              /\ AccrueUserRewards({u} \X Touched(ops))

RewardedLiquidation ==
    \E l, u \in User, pair \in LiquidationPairs, n \in Amounts :
        /\ Liquidate(l, u, pair[1], pair[2], n)
        /\ AccrueUserRewards({<<u, pair[2]>>, <<u, pair[1]>>, <<l, pair[1]>>})

RewardStep ==
    \/ \E u \in User : ClaimAll(u) \/ VestClaimable(u) \/ \E a \in Asset : ClaimAsset(u, a)
    \/ SetRewardToken
    \/ \E n \in Payments : FundRewardPool(n) \/ ApplyRecoverRewards(n)
    \/ \E a \in Asset, s \in Speeds : SetRewardSpeeds(a, s)
    \/ \E s \in Schedules : SetVestingParams(s[1], s[2])

UnrewardedStep ==
    /\ \/ \E a \in Asset : AccrueInterest(a)
       \/ \E u \in User, a \in Asset : WriteoffBadDebt(u, a)
       \/ AdminStep
       \/ FeeStep
       \/ OracleStep /\ UNCHANGED <<now, paused, supported, adminVars, poolVars>>
       \/ Tick
    /\ UNCHANGED rewardVars

RewardedNext == RewardedUserStep \/ RewardedLiquidation \/ RewardStep \/ UnrewardedStep

RewardedSpec == Init /\ RewardsInit /\ [][RewardedNext]_<<vars, rewardVars>>

-----------------------------------------------------------------------------
\* What users were granted and may still claim is never more than what the
\* speeds handed out, and a user has been paid or is still owed exactly what
\* was granted: nobody earns for time before joining or at a speed set later,
\* and no order of claims and vestings pays a grant twice or loses a part of
\* it (rewards.rs).  Claimed while no interest accrues: with interest, a
\* balance earns rewards for time before its interest was booked.
RewardsWithinEmission ==
    /\ SumFunction(granted)
         + SumFunction([u \in User |-> SumFunction([a \in Asset |-> claim[u][a].unclaimed])])
       <= emitted
    /\ \A u \in User :
          paid[u] + SumFunction([i \in DOMAIN grants[u] |-> grants[u][i].amount - grants[u][i].claimed])
              = granted[u]
=============================================================================

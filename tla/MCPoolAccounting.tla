-------------------------- MODULE MCPoolAccounting --------------------------
(* The pool's books, single calls and batches, in three kinds of         *)
(* behaviour: the books on two assets at one moment, the rewards users of  *)
(* one asset earn as time passes, and how they are claimed and paid.       *)
EXTENDS MCLendingPool, Rewards

VARIABLE profile

profileVars == <<vars, rewardVars, profile>>

\* Of the two assets only the price of xlm moves.
BooksStep ==
    /\ profile = "books"
    /\ RewardedUserStep \/ RewardedLiquidation \/ UnrewardedStep
    /\ now' = 0 /\ oracle'[usdc] = oracle[usdc]
    /\ UNCHANGED profile

\* Rewards of xlm alone, at an unchanged price.
RewardsStep ==
    /\ RewardedNext
    /\ \A u \in User : position'[u][usdc] = position[u][usdc]
    /\ UNCHANGED <<supported, oracle, config, profile>>

\* Users come and go as speeds change.
EarningStep ==
    /\ profile = "earning"
    /\ RewardsStep
    /\ book'[xlm].total_deposited <= 2
    /\ UNCHANGED <<grants, schedule, pool>>

\* One depositor claims again and again, and the pool pays what it can.
VestingStep ==
    /\ profile = "vesting"
    /\ RewardsStep
    /\ book'[xlm].total_deposited # 3 /\ book'[xlm].total_borrowed = 0
    /\ position'[bob] = position[bob]
    /\ pace'[xlm].supply_speed >= pace[xlm].supply_speed
    /\ pool'.funded <= 2

ProfileInit ==
    Init /\ RewardsInit /\ profile \in {"books", "earning", "vesting"}

ProfileSpec ==
    ProfileInit /\ [][BooksStep \/ EarningStep \/ VestingStep]_profileVars

MCSpeeds == {<<2, 1>>, <<0, 0>>}
MCSchedules == {<<1, 2>>}
=============================================================================

---------------------------- MODULE PoolBatches -----------------------------
(***************************************************************************)
(* The batch entrypoints of the pool.  A batch settles each asset it       *)
(* touches once, checks caps against the sums of its operations, applies   *)
(* them in order and weighs the collateral once, at its end.               *)
(***************************************************************************)
EXTENDS LendingPool, Sequences

CONSTANT Batches         \* operations callers may submit together

BatchOperation == [asset : Asset, amount : Int]

ASSUME BatchAssumption == Batches \subseteq Seq(BatchOperation)

Touched(ops) == {ops[i].asset : i \in DOMAIN ops}

Total(ops, a) ==
    SumFunctionOnSet([i \in DOMAIN ops |-> ops[i].amount],
                     {i \in DOMAIN ops : ops[i].asset = a})

ValidOperations(ops) ==
    \A i \in DOMAIN ops : ops[i].asset \in supported /\ ops[i].amount > 0

\* One position of `user` per touched asset is replaced; amounts are positive,
\* so that a position emptied on the way is not filled again.
SetPositions(user, ops, next) ==
    position' = [position EXCEPT ![user] =
        [a \in Asset |-> IF a \in Touched(ops) THEN Stored(next[a]) ELSE @[a]]]

\* The books of the settled assets, each with what the operations add to it.
SetBooks(settled, next) ==
    /\ book' = [a \in Asset |-> IF a \in settled THEN next[a] ELSE book[a]]
    /\ BookAccruals(settled)

DepositBatch(user, ops) ==
    /\ ~paused
    /\ ValidOperations(ops)
    /\ \A a \in Touched(ops) :
          /\ WithinDepositCaps(a, Accrued(a).total_deposited, Total(ops, a))
          /\ Accrued(a).total_deposited + Total(ops, a) <= MaxBalance
    /\ SetPositions(user, ops, [a \in Asset |->
          [CurrentPosition(user, a) EXCEPT !.deposited = @ + Total(ops, a)]])
    /\ SetBooks(Touched(ops), [a \in Asset |->
          Posted(Accrued(a), Total(ops, a), 0, Total(ops, a), 0)])
    /\ UNCHANGED <<now, paused, supported, oracleVars, adminVars, lost>>

\* As with a single withdrawal, only the debt in debt_asset is weighed.
WithdrawBatch(user, debt_asset, ops) ==
    /\ debt_asset \in supported
    /\ ValidOperations(ops)
    /\ \A a \in Touched(ops) : /\ Total(ops, a) <= CurrentPosition(user, a).deposited
                               /\ Total(ops, a) <= Accrued(a).total_balance
    /\ Collateralized([a \in Asset |-> Deposits(user)[a] - Total(ops, a)],
                      debt_asset, CurrentPosition(user, debt_asset).borrowed)
    /\ SetPositions(user, ops, [a \in Asset |->
          [CurrentPosition(user, a) EXCEPT !.deposited = @ - Total(ops, a)]])
    /\ SetBooks(Touched(ops) \cup {debt_asset}, [a \in Asset |->
          Posted(Accrued(a), -Total(ops, a), 0, -Total(ops, a), 0)])
    /\ UNCHANGED <<now, paused, supported, oracleVars, adminVars, lost>>

\* Unlike a single borrow, a batch weighs all debts it touches together.
CoveredTogether(user, ops) ==
    /\ \A a \in Touched(ops) : PricesReadable(Deposits(user), a)
    /\ Weighted(Deposits(user), [a \in Asset |-> CollateralFactor(a)])
          >= SumFunctionOnSet(
                 [a \in Asset |-> (CurrentPosition(user, a).borrowed
                                     + Total(ops, a)) * Price(a) * BPS],
                 Touched(ops))

BorrowBatch(user, collateral_asset, ops) ==
    /\ ~paused
    /\ collateral_asset \in supported
    /\ ValidOperations(ops)
    /\ \A a \in Touched(ops) :
          /\ WithinBorrowCaps(a, Accrued(a).total_borrowed, Total(ops, a))
          /\ Total(ops, a) <= Accrued(a).total_balance
    /\ CoveredTogether(user, ops)
    /\ SetPositions(user, ops, [a \in Asset |->
          [CurrentPosition(user, a) EXCEPT !.borrowed = @ + Total(ops, a)]])
    /\ SetBooks(Touched(ops) \cup {collateral_asset}, [a \in Asset |->
          Posted(Accrued(a), 0, Total(ops, a), -Total(ops, a), 0)])
    /\ UNCHANGED <<now, paused, supported, oracleVars, adminVars, lost>>

\* What is owed in the asset of operation i when its turn comes.
OwedBefore(user, ops, i) ==
    CurrentPosition(user, ops[i].asset).borrowed
    - Total(SubSeq(ops, 1, i - 1), ops[i].asset)

\* A remainder that an earlier operation of the batch leaves is forgiven at
\* once if it is dust, and the next repayment of that debt is too large.
RepayableInTurn(user, ops) ==
    \A i \in DOMAIN ops :
        /\ ops[i].amount <= OwedBefore(user, ops, i)
        /\ ops[i].asset \in Touched(SubSeq(ops, 1, i - 1))
              => OwedBefore(user, ops, i) > DUST_THRESHOLD

RepayBatch(user, ops) ==
    LET rest == [a \in Asset |-> CurrentPosition(user, a).borrowed - Total(ops, a)]
        dust == [a \in Asset |-> IF a \in Touched(ops) /\ rest[a] <= DUST_THRESHOLD
                                   THEN rest[a] ELSE 0]
    IN  /\ ValidOperations(ops)
        /\ RepayableInTurn(user, ops)
        /\ SetPositions(user, ops, [a \in Asset |->
              [CurrentPosition(user, a) EXCEPT !.borrowed = rest[a] - dust[a]]])
        /\ SetBooks(Touched(ops), [a \in Asset |->
              RepaidBook(Accrued(a), Total(ops, a), dust[a])])
        /\ lost' = [a \in Asset |-> lost[a] + dust[a]]
        /\ UNCHANGED <<now, paused, supported, oracleVars, adminVars>>

BatchStep ==
    \E u \in User, ops \in Batches :
        \/ DepositBatch(u, ops)
        \/ RepayBatch(u, ops)
        \/ \E c \in Asset : WithdrawBatch(u, c, ops) \/ BorrowBatch(u, c, ops)

BatchSpec == Init /\ [][Next \/ BatchStep]_vars
=============================================================================

----------------------------- MODULE FlashLoans -----------------------------
(***************************************************************************)
(* Flash loans of the pool (veilend-soroban/src/flash_loan.rs).  The host  *)
(* forbids the receiver to call back into the contract, and a receiver     *)
(* that fails reverts the transaction: debit, callback and repayment are   *)
(* one step, and the reentrancy guard never outlives it.                   *)
(***************************************************************************)
EXTENDS LendingPool

CONSTANT FlashTerms      \* <<premium, maximum>> in bps an admin may submit

VARIABLE flash           \* DataKey::FlashLoanState

flashVars == <<vars, flash>>

NotConfigured == [enabled |-> FALSE, premium_bps |-> 0, max_bps |-> 0]

FlashInit == Init /\ flash = [a \in Asset |-> NotConfigured]

ConfigureFlashLoan(asset, enabled, premium_bps, max_bps) ==
    /\ asset \in supported
    /\ ~paused
    /\ premium_bps \in 1 .. BPS \div 10
    /\ max_bps \in 1 .. BPS
    /\ flash' = [flash EXCEPT ![asset] =
           [enabled |-> enabled, premium_bps |-> premium_bps, max_bps |-> max_bps]]
    /\ UNCHANGED vars

\* calculate_premium_rounded_up
Premium(amount, premium_bps) == (amount * premium_bps + BPS - 1) \div BPS

\* The premium is credited to the reserve, to the fees and to the deposits.
FlashLoan(asset, amount) ==
    LET b == Accrued(asset)
        premium == Premium(amount, flash[asset].premium_bps)
    IN  /\ ~paused
        /\ asset \in supported
        /\ amount > 0
        /\ flash[asset].enabled
        /\ amount <= TruncDiv(b.total_balance * flash[asset].max_bps, BPS)
        /\ amount <= b.total_balance
        /\ b.total_deposited + premium <= MaxBalance
        /\ book' = [book EXCEPT ![asset] = Posted(b, premium, 0, premium, premium)]
        /\ BookAccruals({asset})
        /\ UNCHANGED <<now, paused, supported, oracleVars, adminVars, position,
                       lost, flash>>

FlashStep ==
    \E a \in Asset :
        \/ \E enabled \in BOOLEAN, t \in FlashTerms :
              ConfigureFlashLoan(a, enabled, t[1], t[2])
        \/ \E n \in Amounts : FlashLoan(a, n)

FlashSpec == FlashInit /\ [][FlashStep \/ (Next /\ UNCHANGED flash)]_flashVars

-----------------------------------------------------------------------------
(* What comments say and the code does not do: the property of a run that  *)
(* TLC must refute.                                                        *)

\* An asset in which nobody has a deposit or a debt can be disabled: the
\* totals its guard looks at are those of active user balances
\* (apply_configure_asset).  Claimed while no interest accrues.
EmptyAssetCanBeDelisted ==
    \A a \in Asset :
        (\A u \in User : position[u][a] = EmptyPosition) => Vacant(a)
=============================================================================

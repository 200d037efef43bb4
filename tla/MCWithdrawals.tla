--------------------------- MODULE MCWithdrawals ---------------------------
(* One position with collateral and debt, two withdrawals sent with one       *)
(* idempotency key, the second submitted with a malformed hash.               *)
EXTENDS Withdrawals, TLC

CONSTANTS col, w1, w2, k1

MCAmount == (w1 :> 1) @@ (w2 :> 2)
MCCalls == (w1 :> {"sign", "submit", "revalidate", "cancel"}) @@ (w2 :> {"sign", "submit"})
MCKeysOf == (w1 :> {k1}) @@ (w2 :> {k1})
MCSeed == (col :> [row |-> TRUE, raw |-> 4, usd |-> 8, debtUsd |-> 3, stale |-> FALSE])
=============================================================================

------------------------------- MODULE MCAuth -------------------------------
(* Two wallets, two concurrent requests, a session from before rotation    *)
(* and two logins, of which one is rotated.                                *)
EXTENDS AuthSessions, TLC

CONSTANTS w1, w2, r1, r2

MCWallets == {w1, w2}
MCRequests == {r1, r2}
RequestSymmetry == Permutations(MCRequests)
=============================================================================

---------------------------- MODULE RefreshChain ----------------------------
(***************************************************************************)
(* What a rotation chain of refresh tokens promises, without rows, reads   *)
(* or transactions: a family is opened with one token, holds at most one   *)
(* redeemable token at any time, exchanges it for a token never seen       *)
(* before, and once closed never opens again.  AuthSessions implements     *)
(* this.                                                                   *)
(***************************************************************************)
CONSTANTS Families,   \* rotation chains
          Tokens,     \* refresh tokens
          None        \* no token

VARIABLES current,    \* the redeemable token of each family, or None
          opened,     \* the families that ever had a token
          spent       \* every token that was ever handed out

chainVars == <<current, opened, spent>>

ChainInit ==
  /\ current = [f \in Families |-> None]
  /\ opened = {}
  /\ spent = {}

\* A login starts a family with a fresh token.
Open(f, t) ==
  /\ f \notin opened
  /\ t \notin spent
  /\ current' = [current EXCEPT ![f] = t]
  /\ opened' = opened \cup {f}
  /\ spent' = spent \cup {t}

\* The redeemable token is exchanged for a fresh one.
Rotate(f, t) ==
  /\ current[f] # None
  /\ t \notin spent
  /\ current' = [current EXCEPT ![f] = t]
  /\ spent' = spent \cup {t}
  /\ UNCHANGED opened

\* Logout, reuse detection and pruning close families, several at a time.
Close(S) ==
  /\ current' = [f \in Families |-> IF f \in S THEN None ELSE current[f]]
  /\ UNCHANGED <<opened, spent>>

ChainNext ==
  \/ \E f \in Families, t \in Tokens : Open(f, t) \/ Rotate(f, t)
  \/ \E S \in SUBSET Families : Close(S)

ChainSpec == ChainInit /\ [][ChainNext]_chainVars
=============================================================================

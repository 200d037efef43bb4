----------------------------- MODULE MCIndexer ------------------------------
(* Three ledgers with a deposit, a withdrawal, new parameters and a support  *)
(* flag, indexed in chunks of two ledgers and pages of three events; and the *)
(* same ledgers with an accrual in the place of the parameters.              *)
EXTENDS Indexer

MCEvents == 1 .. 4
MCLedger == <<1, 2, 2, 3>>
MCKind == <<"deposit", "params", "withdraw", "configured">>
WithInterest == <<"deposit", "interest", "withdraw", "configured">>
MCAmount == <<2, 1, 1, 1>>
MCReplays == {[from |-> 1, to |-> 0, chunk |-> 2], [from |-> 2, to |-> 3, chunk |-> 2]}
=============================================================================

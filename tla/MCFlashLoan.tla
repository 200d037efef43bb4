---------------------------- MODULE MCFlashLoan -----------------------------
(* A pool of one asset and one depositor, with flash loans.                *)
EXTENDS MCLendingPool, FlashLoans

MCFlashTerms == {<<1, 20>>, <<3, 20>>}
=============================================================================

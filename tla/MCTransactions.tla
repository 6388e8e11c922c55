--------------------------- MODULE MCTransactions ---------------------------
(* Model values and symmetry for the runs of Transactions.                  *)
EXTENDS Transactions, TLC

CONSTANTS t1, t2, t3, google

TwoTx == {t1, t2}
ThreeTx == {t1, t2, t3}
OneUser == {1}
TwoUsers == {1, 2}
OneIdp == {google}

TxSymmetry == Permutations(ThreeTx)
=============================================================================

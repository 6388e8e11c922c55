--------------------------- MODULE MCRetryBackoff ---------------------------
(* Model values and symmetry for the runs of RetryBackoff.                  *)
EXTENDS RetryBackoff, TLC

CONSTANTS m1, m2

TwoMsgs == {m1, m2}
OneMsg == {m1}

MsgSymmetry == Permutations(TwoMsgs)
=============================================================================

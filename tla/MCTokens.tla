------------------------------ MODULE MCTokens ------------------------------
(* Model values and symmetry for the runs of Tokens.                        *)
EXTENDS Tokens, TLC

CONSTANTS j1, j2, j3, r1, r2

ThreeTokens == {j1, j2, j3}
TwoTokens == {j1, j2}
OneToken == {j1}
TwoRequests == {r1, r2}
OneRequest == {r1}

Symmetry == Permutations(ThreeTokens) \cup Permutations(TwoRequests)
=============================================================================

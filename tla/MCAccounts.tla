----------------------------- MODULE MCAccounts -----------------------------
(* Model values and symmetry for the runs of Accounts.                      *)
EXTENDS Accounts, TLC

CONSTANTS u1, google, r1, r2, api, microservice

OneUser == {u1}
OneIdp == {google}
NoIdp == {}
OneRequest == {r1}
TwoRequests == {r1, r2}
OneJob == {api}
TwoJobs == {api, microservice}
NoJob == {}

RequestSymmetry == Permutations(TwoRequests)
=============================================================================

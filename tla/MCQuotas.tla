------------------------------ MODULE MCQuotas ------------------------------
(* Two requests at a time.                                                    *)
EXTENDS Quotas, TLC

CONSTANTS r1, r2
TwoRequests == {r1, r2}
Symmetry == Permutations(TwoRequests)
=============================================================================

-------------------------- MODULE MCBriefDelivery --------------------------
(* Small instances of BriefDelivery.                                        *)
EXTENDS BriefDelivery, TLC

CONSTANTS f1, f2, j1, j2, j3, j4, scheduler, request

Interchangeable == Permutations(Filings) \cup Permutations(Jobs)
                     \cup Permutations(Callers)
=============================================================================

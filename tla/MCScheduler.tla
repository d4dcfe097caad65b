---------------------------- MODULE MCScheduler ----------------------------
(* Small instances of Scheduler: a day of eight minutes with two windows.   *)
EXTENDS Scheduler, TLC

CONSTANTS s1, s2, u1, u2

Interchangeable == Permutations(Schedulers) \cup Permutations(Users)
=============================================================================

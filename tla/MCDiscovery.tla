---------------------------- MODULE MCDiscovery ----------------------------
(* Two loops at a redeploy.                                                  *)
EXTENDS Discovery, TLC

CONSTANTS l1, l2
TwoLoops == {l1, l2}
Symmetry == Permutations(TwoLoops) \cup Permutations(Themes)
=============================================================================

----------------------------- MODULE MCSalience -----------------------------
(* Small instances of Salience: more dockets than ranks.  In the PJM market  *)
(* the pjm and imm sources may both carry a docket number.                   *)
EXTENDS Salience, TLC

CONSTANTS d1, d2, d3, d4, k1, k2, k3

TwoSources == (d1 :> k1) @@ (d2 :> k1) @@ (d3 :> k2) @@ (d4 :> k3)
=============================================================================

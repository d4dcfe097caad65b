----------------------------- MODULE MCAdapters -----------------------------
(* Small instances of Adapters.                                             *)
EXTENDS Adapters

Filing(dockets, utility, report) == [dockets |-> dockets, utility |-> utility, report |-> report]
Plain == Filing({1}, FALSE, FALSE)

\* Captions of two dockets; a utility, an intervener in its case and one in
\* another; filings and reports; filings of two dockets or prefixes.
FormsOf == [s \in Sources |->
  CASE s \in {"ferc", "cpuc"} -> {Filing({1, 2}, FALSE, FALSE)}
    [] s = "mdpsc" -> {Plain, Filing({1}, TRUE, FALSE), Filing({2}, FALSE, FALSE)}
    [] s = "imm"   -> {Plain, Filing({1}, FALSE, TRUE)}
    [] s \in {"njbpu", "vascc", "puct"} -> {Plain, Filing({2}, FALSE, FALSE)}
    [] OTHER -> {Plain}]

WatchedBy == [s \in Sources |-> IF s \in {"ferc", "cpuc", "njbpu"} THEN {1, 2} ELSE {}]

\* The first two documents are one item.
PairFirst == [f \in Filings |-> IF f <= 2 THEN 1 ELSE f]
=============================================================================

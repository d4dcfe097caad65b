--------------------------- MODULE MCBriefContent ---------------------------
(* Small instances of BriefContent.                                         *)
EXTENDS BriefContent, TLC

CONSTANTS a, b, k

\* The two latest filings are the formats of one submission; the next was
\* extracted by two prompts.
OnePair  == [f \in Rows |-> IF f <= 2 THEN k ELSE NoKey]
OneTwice == [f \in Rows |-> IF f = 4 THEN 3 ELSE f]

\* A ceiling that bites, its override, more dockets than slots, a flat brief.
FourSettings ==
  { [tracked |-> <<a, b>>, cap |-> 5, top |-> 1, ceiling |-> 2],
    [tracked |-> <<a>>,    cap |-> 4, top |-> 1, ceiling |-> 2],
    [tracked |-> <<b, a>>, cap |-> 3, top |-> 2, ceiling |-> 2],
    [tracked |-> <<>>,     cap |-> 3, top |-> 2, ceiling |-> 2] }

\* A filing with FERC whose extraction finds no urgency in it, and one whose
\* extraction has it take effect this week.
Calm == [doc |-> "other", family |-> TRUE, age |-> 25, verdict |-> "uncertain",
         matches |-> 0, effective |-> {}, deadlines |-> {}]
Due  == [Calm EXCEPT !.effective = {5}]
CalmOrDue == {Calm, Due}
=============================================================================

------------------------------ MODULE Deadlines ------------------------------
(***************************************************************************)
(* The dates of an extraction: what workers/extract.py _enrich_deadlines   *)
(* makes of the model's reply, and the score that workers/compose_brief.py *)
(* _score_filing reads from it.  Dates count from the day of the brief; a  *)
(* date that may be missing or unreadable is a set of at most one.         *)
(***************************************************************************)
EXTENDS Integers, FiniteSetsExt

Orders   == {"ferc-order", "puct-order"}
Verdicts == {"relevant", "uncertain"}
Types    == {"hearing", "other", "effective_date", "rehearing", "protest_notice"}
AtMostOne(S) == {{}} \cup {{s} : s \in S}

\* What is known of a filing on the day of the brief: its kind, whether its
\* source files with FERC, the days since it was filed, Haiku's verdict, the
\* predicates of the user it matches, and the model's effective date and
\* deadlines.
Extractions(days, written) ==
  [doc       : Orders \cup {"other"},
   family    : BOOLEAN,
   age       : {d \in days : d >= 0},
   verdict   : Verdicts,
   matches   : 0 .. 4,
   effective : AtMostOne(days),
   deadlines : SUBSET written]
Written(days) == [type : Types, date : AtMostOne(days)]

Deadline(type, date, estimated) == [type |-> type, date |-> date, estimated |-> estimated]

\* _enrich_deadlines: the model's deadlines are estimates whatever it says; an
\* effective date, the rehearing window of a FERC order and the notice of a
\* protest window are added unless the model wrote an entry of that type.
Enriched(x) ==
  LET missing(type) == type \notin {w.type : w \in x.deadlines}
  IN  {Deadline(w.type, w.date, TRUE) : w \in x.deadlines}
        \cup {Deadline("effective_date", {e}, FALSE) :
                e \in {e \in x.effective : missing("effective_date")}}
        \cup {Deadline("rehearing", {30 - x.age}, FALSE) :
                t \in {t \in {"ferc-order"} : x.doc = t /\ missing("rehearing")}}
        \cup {Deadline("protest_notice", {}, FALSE) :
                t \in {t \in {"protest_notice"} : x.family /\ missing(t)}}

Within(date, days) == date \cap 0 .. days # {}

If(test, points) == IF test THEN points ELSE 0

\* _score_filing: the first deadline within a week counts, whatever its type and
\* whether or not it is an estimate.
ScoreFiling(x) ==
    If(x.doc \in Orders, 20)
  + (IF x.verdict = "relevant" THEN 10 ELSE 5)
  + (IF Within(x.effective, 7) THEN 60 ELSE If(Within(x.effective, 30), 40))
  + If(\E d \in Enriched(x) : Within(d.date, 7), 60)
  + 10 * x.matches
=============================================================================

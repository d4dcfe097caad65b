---------------------------- MODULE MCIngestion -----------------------------
(* Small instances of Ingestion.  OneFiling comes with its document but       *)
(* neither URL nor docket, and is then listed with both.                       *)
EXTENDS Ingestion

CONSTANTS f1, d1, d2

OneFiling ==
  f1 :> << [url |-> 0, file |-> FALSE, refs |-> <<>>,       body |-> TRUE],
           [url |-> 1, file |-> TRUE,  refs |-> <<d1, d2>>, body |-> FALSE] >>

OnDayOne    == f1 :> 1
NoCrossRefs == f1 :> {}
=============================================================================

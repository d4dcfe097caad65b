------------------------------ MODULE Salience ------------------------------
(***************************************************************************)
(* The weekly ranking of one market (workers/salience.py): a daily job     *)
(* ranks the week's dockets, upserts the market_salience rows keyed by     *)
(* rank, compares them with what is stored and has Haiku write headlines.  *)
(* A step is one database session or one Haiku call; exceptions and        *)
(* crashes come between them and the queue runs the job again.  It is the   *)
(* scheduler that enqueues it: no name here is one of Scheduler, and        *)
(* SchedulerProofs extends both.                                           *)
(***************************************************************************)
EXTENDS Integers, FiniteSets

CONSTANTS
  Dockets,    \* rows of dockets (for FERC: docket numbers) with filings this week
  KeyOf,      \* their external_id; two sources may carry one docket number
  None,       \* NULL: no row at this rank, or no headline in it
  TopN        \* TOP_N

ASSUME SalienceAssumption ==
  /\ IsFiniteSet(Dockets) /\ \A d \in Dockets : KeyOf[d] # None
  /\ TopN \in Nat \ {0}

VARIABLES
  eligible,   \* dockets with max_doc_weight >= MIN_DOC_WEIGHT
  docket,     \* market_salience.docket_key, by rank
  headline,   \* the key market_salience.headline was written about, by rank
  stage,      \* where handle_compute_salience is
  entries,    \* its ranked entries
  next,       \* the entry whose headline comes next
  drafts,     \* headlines updated in the open transaction, by rank
  outcome     \* history: how the last job ended

table    == <<docket, headline>>
local    == <<stage, entries, next, drafts>>
salience == <<eligible, table, local, outcome>>

-----------------------------------------------------------------------------
Ranks     == 1 .. TopN
KeyOrNone == {KeyOf[d] : d \in Dockets} \cup {None}

\* An ORDER BY score DESC LIMIT n over the eligible dockets: scores change
\* from day to day and ties fall either way, so any order may come.
\* And a ranking without its LIMIT.
Length_Unlimited == Cardinality(eligible)
Length   == IF Cardinality(eligible) < TopN THEN Cardinality(eligible) ELSE TopN
Rankings == {r \in [1 .. Length -> eligible] :
               \A i, j \in 1 .. Length : i # j => r[i] # r[j]}

SalienceTypeOK ==
  /\ eligible \subseteq Dockets
  /\ docket   \in [Ranks -> KeyOrNone]
  /\ headline \in [Ranks -> KeyOrNone]
  /\ stage \in {"idle", "ranked", "upserted", "writing"}
  /\ \E n \in 0 .. TopN : entries \in [1 .. n -> Dockets]
  /\ next \in 1 .. TopN + 1
  /\ drafts \in [Ranks -> KeyOrNone]
  /\ outcome \in {"none", "silent", "written", "partial", "died"}

NoRow == [r \in Ranks |-> None]

SalienceInit ==
  /\ eligible = {}
  /\ docket = NoRow /\ headline = NoRow
  /\ stage = "idle" /\ entries = <<>> /\ next = 1 /\ drafts = NoRow
  /\ outcome = "none"

-----------------------------------------------------------------------------
\* A crawl stores a filing weighty enough: within a week dockets only join.
Crawled(d) ==
  /\ d \notin eligible
  /\ eligible' = eligible \cup {d}
  /\ UNCHANGED <<table, local, outcome>>

\* The ranking query.  No eligible docket: compute returns [], and so does
\* generate_salience_headlines.
Rank ==
  /\ stage = "idle"
  /\ IF eligible = {}
     THEN outcome' = "silent" /\ UNCHANGED <<stage, entries>>
     ELSE stage' = "ranked" /\ entries' \in Rankings /\ UNCHANGED outcome
  /\ UNCHANGED <<eligible, table, next, drafts>>

Ranked == DOMAIN entries
KeyAt(r) == KeyOf[entries[r]]

\* The upsert of every entry in one transaction, headlines preserved.  And one
\* that commits every row by itself.
Upsert_RowByRow ==
  /\ stage = "ranked"
  /\ docket' = [docket EXCEPT ![next] = KeyAt(next)]
  /\ IF next = Cardinality(Ranked) THEN stage' = "upserted" /\ next' = 1
                                   ELSE next' = next + 1 /\ UNCHANGED stage
  /\ UNCHANGED <<eligible, headline, entries, drafts, outcome>>
Upsert ==
  /\ stage = "ranked" /\ stage' = "upserted"
  /\ docket' = [r \in Ranks |-> IF r \in Ranked THEN KeyAt(r) ELSE docket[r]]
  /\ UNCHANGED <<eligible, headline, entries, next, drafts, outcome>>

\* top3_changed, from a _stored_top3 that reads the rows just upserted; and
\* any_missing, with a form that looks at the first rank only.
Changed == \E r \in Ranked : docket[r] # KeyAt(r)
Missing_FirstOnly == headline[1] = None
Missing == \E r \in Ranked : headline[r] = None

Leave(result) ==
  /\ stage' = "idle" /\ entries' = <<>> /\ next' = 1 /\ drafts' = NoRow
  /\ outcome' = result

\* Nothing to write: "top-3 unchanged - skipping Haiku".
Skip ==
  /\ stage = "upserted" /\ ~Changed /\ ~Missing
  /\ Leave("silent")
  /\ UNCHANGED <<eligible, table>>
Compare ==
  /\ stage = "upserted"
  /\ Changed \/ Missing
  /\ stage' = "writing"
  /\ UNCHANGED <<eligible, table, entries, next, drafts, outcome>>

\* One Haiku call and its UPDATE; a call that raises is logged and the entry
\* skipped.
Write ==
  /\ stage = "writing" /\ next \in Ranked
  /\ next' = next + 1
  /\ drafts' \in {drafts, [drafts EXCEPT ![next] = KeyAt(next)]}
  /\ UNCHANGED <<eligible, table, stage, entries, outcome>>

\* An UPDATE that raises aborts the transaction: the later ones raise too, and
\* the commit is a rollback.
UpdateFails ==
  /\ stage = "writing" /\ next \in Ranked
  /\ next' = Cardinality(Ranked) + 1 /\ drafts' = NoRow
  /\ UNCHANGED <<eligible, table, stage, entries, outcome>>

\* The commit of all headlines.
Commit ==
  /\ stage = "writing" /\ next \notin Ranked
  /\ headline' = [r \in Ranks |-> IF drafts[r] # None THEN drafts[r] ELSE headline[r]]
  /\ Leave(IF \A r \in Ranked : drafts[r] # None THEN "written" ELSE "partial")
  /\ UNCHANGED <<eligible, docket>>

\* The handler raises or the process dies: the open transaction is gone.
Die ==
  /\ stage # "idle"
  /\ Leave("died")
  /\ UNCHANGED <<eligible, table>>

SalienceNext ==
  \/ \E d \in Dockets : Crawled(d)
  \/ Rank \/ Upsert \/ Skip \/ Compare \/ Write \/ UpdateFails \/ Commit \/ Die

SalienceSpec == SalienceInit /\ [][SalienceNext]_salience

-----------------------------------------------------------------------------
\* The table never shows a docket number at more ranks than there are dockets
\* of that number, and has no hole: whatever dies between two rankings, the
\* rows are one whole ranking.
OneRowPerDocket ==
  \A r \in Ranks :
    docket[r] # None =>
      /\ Cardinality({i \in Ranks : docket[i] = docket[r]})
           <= Cardinality({d \in Dockets : KeyOf[d] = docket[r]})
      /\ \A i \in 1 .. r : docket[i] # None

\* After a job that ended without an error every ranked docket has a headline.
NoneMissingAfterSuccess ==
  outcome \in {"silent", "written"}
    => \A r \in Ranks : stage = "idle" /\ docket[r] # None => headline[r] # None

-----------------------------------------------------------------------------
(* A claim of the source that the code does not keep *)

\* Headlines fire "when the top-3 docket_keys change vs what's stored": after
\* a job that ended without an error each headline is about its row's docket.
HeadlineDescribesItsDocket ==
  outcome \in {"silent", "written"}
    => \A r \in Ranks : stage = "idle" => headline[r] \in {None, docket[r]}
=============================================================================

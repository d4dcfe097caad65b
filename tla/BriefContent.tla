---------------------------- MODULE BriefContent ----------------------------
(***************************************************************************)
(* What goes into one brief: from the rows of the window to the items of   *)
(* the mail and the filing_ids of its row (workers/compose_brief.py:       *)
(* dedup_candidates, filter_no_claims, allocate_brief and the middle of    *)
(* handle_compose_brief).  BriefDelivery has the handler's other side, and *)
(* of this one only that it may leave filings out.                         *)
(***************************************************************************)
EXTENDS Integers, SequencesExt, Deadlines

CONSTANTS
  N,           \* rows of the window's query, one per extraction of a filing,
               \* 1 of the filing filed last
  FilingOf,    \* per row, the filing it is of
  ItemKey,     \* per row, its filing's metadata.item_key, or NoKey
  NoKey,
  NoDocket,    \* the docket of a filing without one that is tracked
  Settings,    \* tracked dockets in the order of the user's list, and values for
               \* BRIEF_ITEM_CAP, TOP_OF_MIND_COUNT and PER_DOCKET_CEILING
  Profiles,    \* what extractions and predicates may say of a filing
  NoProfile,
  HighScore,   \* the score a flat brief asks of its top items
  FallbackCap  \* unvalidated items of a fallback brief

Rows    == 1 .. N
Filings == {FilingOf[f] : f \in Rows}
WhatChanged == "what_changed"

ASSUME ContentAssumption ==
  /\ N \in Nat /\ FallbackCap \in Nat \ {0} /\ HighScore \in Nat
  /\ Profiles \subseteq Extractions(-40 .. 40, Written(-40 .. 40))
  /\ \A f, g \in Rows : FilingOf[f] = FilingOf[g] => ItemKey[f] = ItemKey[g]
  /\ \A s \in Settings :
       /\ s.tracked \in Seq(ToSet(s.tracked)) /\ IsInjective(s.tracked)
       /\ {NoDocket, WhatChanged} \cap ToSet(s.tracked) = {}
       /\ s.cap \in Nat /\ s.top \in 1 .. s.cap /\ s.ceiling \in Nat \ {0}

VARIABLES
  stage,       \* where the handler is
  setting,
  richness,    \* per row, the length of its extraction
  claims,      \* rows whose extraction claims anything
  candidates,  \* rows still in
  place,       \* per candidate, its place in the list
  docket,      \* per candidate, its filing's docket
  profile,     \* per candidate, what its score is made of
  top,         \* the top-of-mind items
  body,        \* per section, its items
  answer,      \* per filing, what the model wrote for it
  row          \* the rows that briefs.filing_ids has an entry for

limits == <<setting>>
read   == <<richness, claims>>
ranked == <<place, docket, profile>>
vars   == <<stage, limits, read, candidates, ranked, top, body, answer, row>>

Tracked  == ToSet(setting.tracked)
Sections == (UNION {ToSet(s.tracked) : s \in Settings}) \cup {WhatChanged}
Sizes    == {1, 2}
Answers  == {"absent", "badCitation", "unavailable", "good"}
Stages   == {"select", "score", "allocate", "floor", "bonus", "flat", "allocated",
             "compose", "retry", "validate", "fallback", "insert", "skipped"}

\* Nothing ranked, shown or answered.
Unranked == [f \in Rows |-> 0]
Unread   == [f \in Rows |-> NoProfile]
Empty    == [s \in Sections |-> {}]
Silent   == [x \in Filings |-> "absent"]
NoneAt   == [f \in Rows |-> NoDocket]

InBody     == UNION {body[s] : s \in Sections}
Entries    == top \cup InBody
TopFilings == {FilingOf[f] : f \in top}

TypeOK ==
  /\ stage \in Stages /\ setting \in Settings
  /\ richness \in [Rows -> Sizes] /\ claims \subseteq Rows
  /\ candidates \subseteq Rows
  /\ place \in [Rows -> 0 .. 2 * N]
  /\ docket \in [Rows -> Tracked \cup {NoDocket}]
  /\ profile \in [Rows -> Profiles \cup {NoProfile}]
  /\ top \subseteq candidates /\ (stage # "insert" => Cardinality(top) <= setting.top)
  /\ body \in [Sections -> SUBSET candidates]
  /\ \A s \in Sections : body[s] # {} => s \in Tracked \/ Tracked = {}
  /\ answer \in [Filings -> Answers]
  /\ row \subseteq candidates

Init ==
  /\ stage = "select" /\ setting \in Settings
  /\ richness \in [Rows -> Sizes]
  /\ \A f \in Rows : ItemKey[f] = NoKey => richness[f] = 1
  /\ claims \in SUBSET Rows
  /\ candidates = Rows
  /\ place = Unranked /\ docket = NoneAt /\ profile = Unread
  /\ top = {} /\ body = Empty /\ answer = Silent /\ row = {}

-----------------------------------------------------------------------------
(* Selection *)

\* The role filter looks for role_tags under "payload", a key that no row has
\* (the query calls the column extraction_payload): every row passes.
RoleMatch(f) == TRUE

\* One row per item_key, the richest, of two as rich the one listed first; it
\* stands where the first of its key stood, before all rows without a key, of
\* which every one passes, two of the same filing too.
Keyed(k) == {f \in candidates : ItemKey[f] = k /\ RoleMatch(f)}
Richest(f) ==
  \A g \in Keyed(ItemKey[f]) \ {f} :
    richness[g] < richness[f] \/ (richness[g] = richness[f] /\ f < g)
Deduped == {f \in candidates : RoleMatch(f) /\ (ItemKey[f] = NoKey \/ Richest(f))}
Place(f) == IF ItemKey[f] = NoKey THEN N + f ELSE Min(Keyed(ItemKey[f]))

\* dedup_candidates, then filter_no_claims.
Select ==
  /\ stage = "select" /\ stage' = "score"
  /\ candidates' = Deduped \cap claims
  /\ place' = [f \in Rows |-> IF f \in candidates' THEN Place(f) ELSE 0]
  /\ richness' = [f \in Rows |-> 1] /\ claims' = {}
  /\ UNCHANGED <<limits, docket, profile, top, body, answer, row>>

\* What the query and the extraction say of each candidate, and its score.  The
\* rows of one filing differ in what their extractions say.
Points   == [x \in Profiles |-> ScoreFiling(x)]
score(f) == Points[profile[f]]
OfOneFiling(x, y) ==
  x.doc = y.doc /\ x.family = y.family /\ x.age = y.age /\ x.matches = y.matches

Score ==
  /\ stage = "score"
  /\ stage' = IF Tracked = {} THEN "flat" ELSE "allocate"
  /\ \E x \in [candidates -> Profiles],
        d \in [{FilingOf[f] : f \in candidates} -> Tracked \cup {NoDocket}] :
       /\ \A f, g \in candidates : FilingOf[f] = FilingOf[g] => OfOneFiling(x[f], x[g])
       /\ profile' = [f \in Rows |-> IF f \in candidates THEN x[f] ELSE NoProfile]
       /\ docket'  = [f \in Rows |-> IF f \in candidates THEN d[FilingOf[f]] ELSE NoDocket]
  /\ UNCHANGED <<limits, read, candidates, place, top, body, answer, row>>

-----------------------------------------------------------------------------
(* Allocation *)

\* scored.sort: by score, equal scores as they were listed; its first n, and one
\* more.
Ahead(f, g) == score(f) > score(g) \/ (score(f) = score(g) /\ place[f] < place[g])
First_OneMore(S, n) == {f \in S : Cardinality({g \in S : Ahead(g, f)}) <= n}
First(S, n) == {f \in S : Cardinality({g \in S : Ahead(g, f)}) < n}
Best(S)     == CHOOSE f \in S : \A g \in S \ {f} : Ahead(f, g)

\* top_of_mind, the best rows of all dockets.
TopOfMind ==
  /\ stage = "allocate" /\ stage' = "floor"
  /\ top' = First(candidates, setting.top)
  /\ UNCHANGED <<limits, read, candidates, ranked, body, answer, row>>

\* docket_pools: the rows of the filings that are not on top.
Pool(d) == {f \in candidates \ top : FilingOf[f] \notin TopFilings /\ docket[f] = d}
Active  == {d \in Tracked : Pool(d) # {}}
Slots   == setting.cap - Cardinality(top)

\* effective_ceiling: one active docket may have the whole body.
Ceiling == IF Cardinality(Active) = 1 THEN Slots ELSE setting.ceiling

\* What docket d would get next, and whether it comes before e: the better
\* row, between equals the docket tracked first.  And one that goes by the
\* order of the tracked dockets alone.
NextOf(d) == Best(Pool(d) \ body[d])
Listed(d) == CHOOSE i \in DOMAIN setting.tracked : setting.tracked[i] = d
Precedes_InOrder(d, e) == Listed(d) < Listed(e)
Precedes(d, e) ==
  \/ score(NextOf(d)) > score(NextOf(e))
  \/ score(NextOf(d)) = score(NextOf(e)) /\ Listed(d) < Listed(e)

\* A slot for every active docket, or for the best when they are too many.
Floor ==
  /\ stage = "floor"
  /\ LET fits == Cardinality(Active) <= Slots
         led  == {d \in Active : Cardinality({e \in Active : Precedes(e, d)}) < Slots}
     IN  /\ body' = [s \in Sections |->
                       IF s \in (IF fits THEN Active ELSE led) THEN {NextOf(s)} ELSE {}]
         /\ stage' = IF fits /\ Active # {} THEN "bonus" ELSE "allocated"
  /\ UNCHANGED <<limits, read, candidates, ranked, top, answer, row>>

Open ==
  {d \in Active : Cardinality(body[d]) < Ceiling /\ Pool(d) \ body[d] # {}}

\* Each slot that is left goes to the docket with the best row still out.
Bonus(d) ==
  /\ stage = "bonus"
  /\ Cardinality(InBody) < Slots
  /\ d \in Open /\ \A e \in Open \ {d} : Precedes(d, e)
  /\ body' = [body EXCEPT ![d] = @ \cup {NextOf(d)}]
  /\ UNCHANGED <<stage, limits, read, candidates, ranked, top, answer, row>>

BonusDone ==
  /\ stage = "bonus"
  /\ Cardinality(InBody) >= Slots \/ Open = {}
  /\ stage' = "allocated"
  /\ UNCHANGED <<limits, read, candidates, ranked, top, body, answer, row>>

\* Without tracked dockets: the best of all, the first few on top if they score;
\* the rest goes row by row, and may be of a filing that is on top.
Flat ==
  /\ stage = "flat" /\ stage' = "allocated"
  /\ LET flat == First(candidates, setting.cap)
     IN  /\ top' = {f \in First(flat, setting.top) : score(f) >= HighScore}
         /\ body' = [Empty EXCEPT ![WhatChanged] = flat \ top']
  /\ UNCHANGED <<limits, read, candidates, ranked, answer, row>>

-----------------------------------------------------------------------------
(* Composition *)

Keep(S) ==
  /\ top'  = top \cap S
  /\ body' = [s \in Sections |-> body[s] \cap S]

\* Filings whose document is gone leave the brief with all their rows, and
\* nothing takes their place; ranks are not read again.
R2Check ==
  /\ stage = "allocated"
  /\ \E gone \in SUBSET {FilingOf[f] : f \in Entries} :
       LET present == {f \in Entries : FilingOf[f] \notin gone}
       IN  /\ Keep(present) /\ candidates' = present
           /\ stage' = IF present = {} THEN "skipped" ELSE "compose"
  /\ place' = Unranked /\ docket' = NoneAt /\ profile' = Unread
  /\ UNCHANGED <<limits, read, answer, row>>

\* composed_by_id: one answer for a filing, however many of its rows were sent.
Answered ==
  LET sent == {FilingOf[f] : f \in Entries}
  IN  {[x \in Filings |-> IF x \in sent THEN a[x] ELSE "absent"] : a \in [sent -> Answers]}

\* The model may answer for some, all, or filings it was not given; when the
\* number of answers is not the number asked for, it is asked once more.
Compose ==
  /\ stage = "compose"
  /\ \/ stage' = "retry" /\ UNCHANGED answer
     \/ stage' = "validate" /\ answer' \in Answered
  /\ UNCHANGED <<limits, read, candidates, ranked, top, body, row>>

Retry ==
  /\ stage = "retry" /\ stage' = "validate"
  /\ answer' \in Answered
  /\ UNCHANGED <<limits, read, candidates, ranked, top, body, row>>

With(a) == {f \in Entries : answer[FilingOf[f]] = a}

\* _process_entry: a valid citation and a summary that is one.  And one that
\* notes the filing before it looks at the summary.
Valid_NotedFirst == With("good") \cup With("unavailable")
Valid == With("good")

Validate ==
  /\ stage = "validate"
  /\ IF With("good") # {}
     THEN /\ Keep(With("good")) /\ row' = Valid
          /\ stage' = "insert" /\ answer' = Silent
     ELSE /\ stage' = "fallback" /\ UNCHANGED <<top, body, answer, row>>
  /\ UNCHANGED <<limits, read, candidates, ranked>>

\* All citations failed: the extraction's own words, for the first few rows, each
\* where the first entry of its filing is.
Fallback ==
  /\ stage = "fallback"
  /\ LET bad == With("badCitation")
     IN  \E S \in SUBSET bad :
           /\ Cardinality(S) = Min({FallbackCap, Cardinality(bad)})
           /\ top'  = {f \in S : FilingOf[f] \in TopFilings}
           /\ body' = [s \in Sections |-> (body[s] \cap S) \ top']
           /\ row'  = S
           /\ stage' = IF S = {} THEN "skipped" ELSE "insert"
  /\ answer' = Silent
  /\ UNCHANGED <<limits, read, candidates, ranked>>

Next ==
  \/ Select \/ Score \/ TopOfMind \/ Floor
  \/ \E d \in Tracked : Bonus(d)
  \/ BonusDone \/ Flat \/ R2Check \/ Compose \/ Retry \/ Validate \/ Fallback

Spec == Init /\ [][Next]_vars

-----------------------------------------------------------------------------
\* The body is the best that the limits allow.  Every tracked docket that has
\* something gets its best row, or, when there are more dockets than slots,
\* the best dockets do; beyond that no row is listed while a better one of a
\* docket below its ceiling is not, and no slot is left that could be filled.
\* A flat brief lists nothing while something better is out.
Out(d) == Pool(d) \ Entries
Served == {d \in Tracked : body[d] # {}}
NoneBetter(S, T) == \A f \in S, g \in T : score(f) <= score(g)

BestOverall ==
  /\ NoneBetter(candidates \ Entries, Entries)
  /\ candidates \subseteq Entries \/ Cardinality(Entries) = setting.cap
BestPerDocket ==
  \A d \in Served : /\ \A f \in body[d] : docket[f] = d
                    /\ NoneBetter(Out(d), body[d])
                    /\ Cardinality(body[d]) <= Ceiling
AllServedOrBest ==
  \A d \in Tracked \ Served, e \in Served :
    Out(d) # {} => /\ Cardinality(Served) = Slots /\ Cardinality(body[e]) = 1
                   /\ NoneBetter(Out(d), body[e])
NoBetterUse ==
  \A d \in Tracked :
    Out(d) # {} /\ Cardinality(body[d]) < Ceiling =>
      /\ Cardinality(Entries) = setting.cap
      /\ \A e \in Served \ {d} : NoneBetter(Out(d), body[e] \ {Best(body[e])})

BestWithinLimits ==
  stage = "allocated" =>
    /\ Cardinality(Entries) <= setting.cap
    /\ NoneBetter(candidates \ top, top)
    /\ IF Tracked = {} THEN BestOverall
                       ELSE BestPerDocket /\ AllServedOrBest /\ NoBetterUse

\* No row is in two places, and with tracked dockets no filing is both on top and
\* in a docket's section.
OnePlaceEach ==
  /\ Tracked # {} => \A f \in InBody : FilingOf[f] \notin TopFilings
  /\ top \cap InBody = {}
  /\ \A s, t \in Sections : s # t => body[s] \cap body[t] = {}

\* A brief that is sent has something to say, shows no two rows of one submission
\* key (so a filing twice only as several extractions without a key), puts each
\* in one place, and has in filing_ids an entry for each item of the mail.
RowListsTheBrief ==
  /\ OnePlaceEach
  /\ stage = "insert" =>
       /\ Entries # {} /\ row = Entries
       /\ \A f, g \in Entries : ItemKey[f] = ItemKey[g] /\ f # g => ItemKey[f] = NoKey
=============================================================================

------------------------------ MODULE Discovery ------------------------------
(***************************************************************************)
(* The FERC discovery sweep (workers/crawl_ferc_discovery.py): page        *)
(* through the eLibrary, newest first, while filings are added to it;      *)
(* store the hits, delete the expired ones, and have a model theme what    *)
(* has no verdict.  A loop may die anywhere and its job runs again; at a   *)
(* redeploy two loops sweep at once.                                       *)
(***************************************************************************)
EXTENDS Integers, FiniteSets

CONSTANTS
  Loops,        \* worker loops of the kind crawl-ferc-discovery
  Last,         \* bound: filings, numbered in the order they appear
  Electric,     \* those a sweep keeps: an allowed docket and a description
  LastDay,      \* bound: days
  PageSize, MaxPages,
  MaxFilings,   \* DISCOVERY_MAX_FILINGS, of a sweep and of its classification
  MaxLookback, Ttl,
  Themes, MaxThemes

ASSUME DiscoveryAssumption ==
  /\ Electric \subseteq 1 .. Last /\ IsFiniteSet(Loops) /\ IsFiniteSet(Themes)
  /\ {Last, LastDay, PageSize, MaxPages, MaxFilings, MaxLookback, MaxThemes} \subseteq Nat \ {0}
  /\ Ttl \in Nat /\ Ttl > MaxLookback

Filings == 1 .. Last
Days    == 1 .. LastDay

VARIABLES
  day,
  filed,     \* per filing at the site, its date; the newest has the highest number
  stored,    \* discovery_feed: the filings with a row
  born,      \* the day the row was created
  themed,    \* those with themed_at
  matches,   \* discovery_matches, by filing
  \* a loop: its place, since, page, items, rows to classify, reply
  pc, since, page, items, todo, reply,
  \* history: saved verdicts; deleted rows; what a sweep began with, and
  \* whether it ended without an error or a cap
  saves, deleted, due, whole

feed   == <<stored, born, themed, matches, saves, deleted>>
sweep  == <<pc, since, page, items, todo, reply, due, whole>>
vars   == <<day, filed, feed, sweep>>

-----------------------------------------------------------------------------
Published == DOMAIN filed
Newest    == Cardinality(Published)

TypeOK ==
  /\ day \in Days
  /\ \E n \in 0 .. Last : filed \in [1 .. n -> Days]
  /\ stored \subseteq Published /\ born \in [Filings -> 0 .. LastDay]
  /\ themed \subseteq stored /\ deleted \subseteq Published
  /\ matches \in [Filings -> SUBSET Themes] /\ saves \in [Filings -> Nat]
  /\ pc \in [Loops -> {"idle", "fetch", "upsert", "clean", "list", "classify", "save"}]
  /\ since \in [Loops -> Int] /\ page \in [Loops -> 1 .. MaxPages]
  /\ items \in [Loops -> SUBSET Filings] /\ todo \in [Loops -> SUBSET Filings]
  /\ \A l \in Loops : Cardinality(items[l]) <= MaxFilings
  /\ reply \in [Loops -> SUBSET Themes]
  /\ due \in [Loops -> SUBSET Filings] /\ whole \in [Loops -> BOOLEAN]

Init ==
  /\ day = 1 /\ filed = <<>>
  /\ stored = {} /\ born = [f \in Filings |-> 0] /\ themed = {}
  /\ matches = [f \in Filings |-> {}]
  /\ saves = [f \in Filings |-> 0] /\ deleted = {}
  /\ pc = [l \in Loops |-> "idle"]
  /\ since = [l \in Loops |-> 1] /\ page = [l \in Loops |-> 1]
  /\ items = [l \in Loops |-> {}] /\ todo = [l \in Loops |-> {}]
  /\ reply = [l \in Loops |-> {}]
  /\ due = [l \in Loops |-> {}] /\ whole = [l \in Loops |-> FALSE]

Go(l, place) == pc' = [pc EXCEPT ![l] = place]

\* The n newest of a set of filings.
Top(S, n) == {f \in S : Cardinality({g \in S : g > f}) < n}

\* A loop forgets its sweep.
Leave(l) ==
  /\ Go(l, "idle")
  /\ since' = [since EXCEPT ![l] = 1] /\ page' = [page EXCEPT ![l] = 1]
  /\ items' = [items EXCEPT ![l] = {}] /\ todo' = [todo EXCEPT ![l] = {}]
  /\ reply' = [reply EXCEPT ![l] = {}]
  /\ due'   = [due EXCEPT ![l] = {}] /\ whole' = [whole EXCEPT ![l] = FALSE]

-----------------------------------------------------------------------------
(* The site and the calendar *)

\* A filing appears on top of the list, whatever page a sweep is at.
Publish ==
  /\ Newest < Last
  /\ filed' = [f \in 1 .. Newest + 1 |-> IF f \in Published THEN filed[f] ELSE day]
  /\ UNCHANGED <<day, feed, sweep>>

\* A sweep fetches and stores within its day.
Midnight ==
  /\ day < LastDay /\ \A l \in Loops : pc[l] \notin {"fetch", "upsert"}
  /\ day' = day + 1
  /\ UNCHANGED <<filed, feed, sweep>>

-----------------------------------------------------------------------------
(* fetch_ferc_discovery *)

\* The payload's date, but not beyond the look-back; and as it stands.
Floor_None(d) == d
Floor(d) == IF d > day - MaxLookback THEN d ELSE day - MaxLookback

Begin(l, d) ==
  /\ pc[l] = "idle"
  /\ Go(l, "fetch")
  /\ since' = [since EXCEPT ![l] = Floor(d)]
  /\ page'  = [page  EXCEPT ![l] = 1]
  /\ items' = [items EXCEPT ![l] = {}]
  /\ due'   = [due   EXCEPT ![l] = {f \in Published \cap Electric : filed[f] >= Floor(d)}]
  /\ whole' = [whole EXCEPT ![l] = TRUE]
  /\ UNCHANGED <<day, filed, feed, todo, reply>>

\* The page at its number, of the list as it is now.
Batch(l) == Top(Published, page[l] * PageSize) \ Top(Published, (page[l] - 1) * PageSize)

Kept(l) == {f \in Batch(l) \cap Electric : filed[f] >= since[l]} \ items[l]

\* The page's last filing is too old; and a page that held nothing to keep.
PastSince_NoneKept(l) == Kept(l) = {}
PastSince(l) == \E f \in Batch(l) : filed[f] < since[l]

Grown(l) == items[l] \cup Top(Kept(l), MaxFilings - Cardinality(items[l]))
Capped(l) == Cardinality(Grown(l)) >= MaxFilings

\* page <= max_pages of the loop's test; and a page later.
PagesLeft_OneMore(l) == page[l] <= MaxPages
PagesLeft(l) == page[l] < MaxPages

LastPage(l) == PastSince(l) \/ Cardinality(Batch(l)) < PageSize \/ Capped(l)

Fetched(l) ==
  /\ Go(l, "upsert")
  /\ since' = [since EXCEPT ![l] = 1] /\ page' = [page EXCEPT ![l] = 1]

FetchPage(l) ==
  /\ pc[l] = "fetch"
  /\ items' = [items EXCEPT ![l] = Grown(l)]
  /\ IF LastPage(l) \/ ~PagesLeft(l) THEN Fetched(l)
     ELSE page' = [page EXCEPT ![l] = @ + 1] /\ UNCHANGED <<pc, since>>
  /\ whole' = [whole EXCEPT ![l] = ~Capped(l) /\ (LastPage(l) \/ PagesLeft(l))]
  /\ UNCHANGED <<day, filed, feed, todo, reply, due>>

\* After its retries a page fails and the sweep keeps what it has.
PageFails(l) ==
  /\ pc[l] = "fetch"
  /\ Fetched(l)
  /\ whole' = [whole EXCEPT ![l] = FALSE]
  /\ UNCHANGED <<day, filed, feed, items, todo, reply, due>>

-----------------------------------------------------------------------------
(* upsert_discovery_items, cleanup_expired_discovery *)

Upsert(l) ==
  /\ pc[l] = "upsert" /\ Go(l, "clean")
  /\ stored' = stored \cup items[l]
  /\ born'   = [f \in Filings |-> IF f \in items[l] \ stored THEN day ELSE born[f]]
  /\ items'  = [items EXCEPT ![l] = {}]
  /\ UNCHANGED <<day, filed, themed, matches, saves, deleted, since, page, todo, reply, due,
                 whole>>

Expired == {f \in stored : day - born[f] >= Ttl}

Clean(l) ==
  /\ pc[l] = "clean" /\ Go(l, "list")
  /\ stored'  = stored \ Expired
  /\ born'    = [f \in Filings |-> IF f \in Expired THEN 0 ELSE born[f]]
  /\ themed'  = themed \ Expired
  /\ matches' = [f \in Filings |-> IF f \in Expired THEN {} ELSE matches[f]]
  /\ deleted' = deleted \cup Expired
  /\ UNCHANGED <<day, filed, saves, since, page, items, todo, reply, due, whole>>

-----------------------------------------------------------------------------
(* classify_new_discovery_items *)

Unthemed == stored \ (themed \cup Expired)

\* The newest rows without a verdict, up to the limit.
List(l) ==
  /\ pc[l] = "list" /\ Go(l, "classify")
  /\ todo'  = [todo EXCEPT ![l] = Top(Unthemed, MaxFilings)]
  /\ whole' = [whole EXCEPT ![l] = @ /\ Cardinality(Unthemed) <= MaxFilings]
  /\ UNCHANGED <<day, filed, feed, since, page, items, reply, due>>

\* No theme is active.
NoThemes(l) ==
  /\ pc[l] = "list" /\ Leave(l)
  /\ UNCHANGED <<day, filed, feed>>

NextRow(l) == CHOOSE f \in todo[l] : \A g \in todo[l] : g <= f

\* The model's reply, cut to the first MaxThemes known themes; and not cut.
Verdicts_Uncut == SUBSET Themes
Verdicts == {S \in SUBSET Themes : Cardinality(S) <= MaxThemes}

Classify(l) ==
  /\ pc[l] = "classify" /\ todo[l] # {}
  /\ Go(l, "save")
  /\ \E S \in Verdicts : reply' = [reply EXCEPT ![l] = S]
  /\ UNCHANGED <<day, filed, feed, since, page, items, todo, due, whole>>

\* The exception is swallowed and the row left for a later sweep.
CallFails(l) ==
  /\ pc[l] = "classify" /\ todo[l] # {}
  /\ todo'  = [todo EXCEPT ![l] = @ \ {NextRow(l)}]
  /\ whole' = [whole EXCEPT ![l] = FALSE]
  /\ UNCHANGED <<day, filed, feed, pc, since, page, items, reply, due>>

\* themed_at is set whatever the reply; and only if it has a match.
Marks_Matched(l) == reply[l] # {}
Marks(l) == TRUE

\* Matches and themed_at in one commit.  A row deleted meanwhile takes neither:
\* its matches raise (Die), its UPDATE finds nothing.
Save(l) ==
  LET f == NextRow(l)
  IN  /\ pc[l] = "save" /\ (f \in stored \/ reply[l] = {})
      /\ Go(l, "classify")
      /\ todo' = [todo EXCEPT ![l] = @ \ {f}] /\ reply' = [reply EXCEPT ![l] = {}]
      /\ IF f \in stored
           THEN /\ matches' = [matches EXCEPT ![f] = @ \cup reply[l]]
                /\ themed'  = IF Marks(l) THEN themed \cup {f} ELSE themed
                /\ saves'   = [saves EXCEPT ![f] = @ + 1]
           ELSE UNCHANGED <<matches, themed, saves>>
      /\ UNCHANGED <<day, filed, stored, born, deleted, since, page, items, due, whole>>

Finish(l) ==
  /\ pc[l] = "classify" /\ todo[l] = {}
  /\ Leave(l)
  /\ UNCHANGED <<day, filed, feed>>

\* An exception, or a kill; the queue runs the job again.
Die(l) ==
  /\ pc[l] # "idle" /\ Leave(l)
  /\ UNCHANGED <<day, filed, feed>>

Next ==
  \/ Publish \/ Midnight
  \/ \E l \in Loops :
       \/ (\E d \in 0 .. day - 1 : Begin(l, d)) \/ FetchPage(l) \/ PageFails(l)
       \/ Upsert(l) \/ Clean(l) \/ List(l) \/ NoThemes(l)
       \/ Classify(l) \/ CallFails(l) \/ Save(l) \/ Finish(l) \/ Die(l)

Spec == Init /\ [][Next]_vars

-----------------------------------------------------------------------------
\* A sweep that meets no error and no cap leaves none of the filings that were
\* at the site when it began without a verdict: the pages shift under it, and
\* filtered pages do not end it.
SweepDelivers ==
  \A l \in Loops :
    pc[l] = "classify" /\ todo[l] = {} /\ whole[l]
      => due[l] \subseteq themed \cup Expired \cup deleted

\* A row gets a verdict at most once from each loop, however sweeps fail and
\* overlap, and so at most MaxThemes matches for each ("so 0-match rows are
\* never re-classified").
OneVerdictPerLoop ==
  \A f \in Filings : saves[f] <= Cardinality(Loops)
                       /\ Cardinality(matches[f]) <= MaxThemes * saves[f]

\* What has expired is never fetched, stored and paid for again.
DeletedStaysDeleted == deleted \cap stored = {}
=============================================================================

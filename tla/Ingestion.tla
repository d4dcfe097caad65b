----------------------------- MODULE Ingestion ------------------------------
(***************************************************************************)
(* The filings of one source, from its public site to an extraction:       *)
(* crawls (workers/crawl_shared.py), the rows they write (db/filings.py),  *)
(* the sweep that enqueues what crawls left (enqueue_source_extracts.py)   *)
(* and the extract and refresh handlers (workers/extract.py).  A step is   *)
(* one commit or one outside call; exceptions and kills come between them. *)
(* Jobs are those of the queue: a handler that raises is run again or has  *)
(* used up its attempts, one that is killed is run again.                  *)
(***************************************************************************)
EXTENDS Integers, Sequences, FiniteSets, SequencesExt, FiniteSetsExt

CONSTANTS
  Procs,      \* worker processes: each has a loop per kind of job
  Filings,    \* external ids at the source
  Dockets,
  Listings,   \* what the site shows of a filing, one version after the other
  FiledOn,    \* the day of its filed_at
  LastDay, Weekend,
  Lookback,   \* MAX_LOOKBACK_DAYS
  Selective,  \* EXTRACTION_MODE is "selective", not "proactive"
  Curated,    \* the source skips triage
  CrossRefs,  \* proceedings an extraction may cite, per filing
  SweepDays, SweepCap,
  Docless,    \* filings with a "(doc-less)" title
  Manual,     \* crawls besides the scheduler's: /crawl/*, on demand
  MayFail, MayCrash,
  LateListing,\* the site may list a filing after its date
  MaxJobs,    \* bound: extract jobs per filing from the same origin
  None

\* A listing has a url, or 0 for an empty one, perhaps a ferc_file_id, the
\* dockets of its caption, primary first, and perhaps the document.
Forms == [url : Nat, file : BOOLEAN, refs : Seq(Dockets), body : BOOLEAN]

ASSUME IngestionAssumption ==
  /\ \A f \in Filings : Listings[f] \in Seq(Forms)
  /\ FiledOn \in [Filings -> Int]
  /\ CrossRefs \in [Filings -> SUBSET Dockets]
  /\ LastDay \in Nat \ {0} /\ MaxJobs \in Nat
  /\ None \notin Filings \cup Dockets

VARIABLES
  day, crawled,                    \* today; whether a crawl ended today
  site,                            \* the version the site shows, 0 for none
  tracked,                         \* dockets some user tracks
  known, stamped,                  \* rows of dockets; those with last_crawled_at
  row, docketOf, key,              \* filings: the version its source_url and metadata
                                   \* are from, 0 for no row; docket_id; r2_key set
  links,                           \* filing_dockets
  objects,                         \* filings with a document in R2
  extraction,                      \* extractions, one row per prompt version
  pending,                         \* extract jobs not settled
  offers, sweeps, refreshed,       \* history: jobs by crawls, by sweeps; refreshed
  pc, todo, cur, follows, touched, \* run_adapter, per process
  at, job, keyed                   \* handle_extract, per loop

rows    == <<row, docketOf, key>>
docs    == <<known, stamped, links>>
queue   == <<pending, offers, sweeps, refreshed>>
crawler == <<pc, todo, cur, follows, touched>>
handler == <<at, job, keyed>>
world   == <<day, crawled, site, tracked>>
vars    == <<world, rows, docs, objects, extraction, queue, crawler, handler>>

-----------------------------------------------------------------------------
Loops   == Procs \X {"extract", "refresh"}
Days    == 1 .. LastDay
Versions == UNION {{f} \X DOMAIN Listings[f] : f \in Filings}
Stored   == {f \in Filings : row[f] # 0}

Shown(f)     == {Listings[f][i].url : i \in 1 .. site[f]}
HasSource(f) == row[f] # 0 /\ (Listings[f][row[f]].url # 0 \/ Listings[f][row[f]].file)

\* Types, and the foreign keys of filings and filing_dockets.
TypeOK ==
  /\ day \in Days /\ crawled \in BOOLEAN
  /\ tracked \subseteq Dockets
  /\ site \in [Filings -> Nat] /\ \A f \in Filings : site[f] <= Len(Listings[f])
  /\ known \subseteq Dockets /\ stamped \subseteq known
  /\ row \in [Filings -> Nat] /\ \A f \in Filings : row[f] <= Len(Listings[f])
  /\ docketOf \in [Filings -> known \cup {None}]
  /\ key \in [Filings -> BOOLEAN]
  /\ links \subseteq Stored \X known
  /\ objects \subseteq Filings
  /\ extraction \in [Filings -> {"none", "irrelevant", "full", "raw"}]
  /\ pending \in [Filings -> Nat] /\ offers \in [Filings -> 0 .. MaxJobs]
  /\ sweeps \in [Filings -> 0 .. MaxJobs] /\ refreshed \subseteq Filings
  /\ pc \in [Procs -> {"idle", "next", "upload", "register", "upsert", "link", "enqueue"}]
  /\ todo \in [Procs -> SUBSET Versions]
  /\ cur \in [Procs -> Versions \cup {<<None, 0>>}]
  /\ follows \in [Procs -> SUBSET Dockets] /\ touched \in [Procs -> SUBSET Dockets]
  /\ at \in [Loops -> {"idle", "read", "skip", "dismiss", "upload", "setKey", "llm", "insert"}]
  /\ job \in [Loops -> Filings \cup {None}]
  /\ keyed \in [Loops -> BOOLEAN]

Init ==
  /\ day = 1 /\ crawled = FALSE
  /\ site = [f \in Filings |-> 0] /\ tracked = {}
  /\ known = {} /\ stamped = {}
  /\ row = [f \in Filings |-> 0]
  /\ docketOf = [f \in Filings |-> None]
  /\ key = [f \in Filings |-> FALSE]
  /\ links = {} /\ objects = {}
  /\ extraction = [f \in Filings |-> "none"]
  /\ pending = [f \in Filings |-> 0]
  /\ offers = [f \in Filings |-> 0] /\ sweeps = [f \in Filings |-> 0]
  /\ refreshed = {}
  /\ pc = [p \in Procs |-> "idle"]
  /\ todo = [p \in Procs |-> {}] /\ cur = [p \in Procs |-> <<None, 0>>]
  /\ follows = [p \in Procs |-> {}] /\ touched = [p \in Procs |-> {}]
  /\ at = [l \in Loops |-> "idle"] /\ job = [l \in Loops |-> None]
  /\ keyed = [l \in Loops |-> FALSE]

-----------------------------------------------------------------------------
(* The site, the users, the calendar *)

\* A filing is listed on its day, or later; its listing may be corrected.
List(f) ==
  /\ site[f] < Len(Listings[f])
  /\ site[f] = 0 => IF LateListing THEN day >= FiledOn[f] ELSE day = FiledOn[f]
  /\ site' = [site EXCEPT ![f] = @ + 1]
  /\ UNCHANGED <<day, crawled, tracked, rows, docs, objects, extraction, queue, crawler, handler>>

Track(d) ==
  /\ d \notin tracked
  /\ tracked' = tracked \cup {d}
  /\ UNCHANGED <<day, crawled, site, rows, docs, objects, extraction, queue, crawler, handler>>

\* Crawls are over by midnight; without kills a weekday does not end before
\* its crawl has.
NextDay ==
  /\ day < LastDay
  /\ \A p \in Procs : pc[p] = "idle"
  /\ crawled \/ day \in Weekend \/ MayCrash
  /\ day' = day + 1 /\ crawled' = FALSE
  /\ UNCHANGED <<site, tracked, rows, docs, objects, extraction, queue, crawler, handler>>

-----------------------------------------------------------------------------
(* run_adapter *)

Later(a, b) == IF a >= b THEN a ELSE b
Earliest    == day - Lookback

\* get_last_crawled_at: the newest filed_at of the source.
Watermark == Later(Earliest, Max({FiledOn[f] : f \in Stored} \cup {Earliest}))

Listed(since) == {<<f, site[f]>> : f \in {g \in Filings : site[g] > 0 /\ FiledOn[g] >= since}}

Begin(p, found) ==
  /\ pc[p] = "idle"
  /\ pc'      = [pc EXCEPT ![p] = "next"]
  /\ todo'    = [todo EXCEPT ![p] = found]
  /\ follows' = [follows EXCEPT ![p] = tracked]
  /\ UNCHANGED <<world, rows, docs, objects, extraction, queue, cur, touched, handler>>

\* The scheduler's job carries yesterday as since; the lookback can only
\* shorten it.
ScheduledCrawl(p) == day \notin Weekend /\ Begin(p, Listed(Later(day - 1, Earliest)))

\* Without since, from the newest stored filing; on demand, from long ago but
\* only the first max_filings of the list.
ManualCrawl(p) ==
  /\ Manual
  /\ \/ Begin(p, Listed(Watermark))
     \/ \E found \in SUBSET Listed(0) : Begin(p, found)

Move(p, place) == pc' = [pc EXCEPT ![p] = place]

\* The filing in hand, as its listing was fetched; and its primary docket.
Filing(p)  == cur[p][1]
Listing(p) == Listings[cur[p][1]][cur[p][2]]
Primary(l) == IF l.refs = <<>> THEN None ELSE l.refs[1]

\* Content is uploaded before anything is written; an adapter that defers it
\* brings none.
Take(p) ==
  /\ pc[p] = "next"
  /\ \E v \in todo[p] :
       /\ cur'  = [cur EXCEPT ![p] = v]
       /\ todo' = [todo EXCEPT ![p] = @ \ {v}]
       /\ Move(p, IF Listings[v[1]][v[2]].body THEN "upload" ELSE "register")
  /\ UNCHANGED <<world, rows, docs, objects, extraction, queue, follows, touched, handler>>

Upload(p) ==
  /\ pc[p] = "upload"
  /\ objects' = objects \cup {Filing(p)}
  /\ Move(p, "register")
  /\ UNCHANGED <<world, rows, docs, extraction, queue, todo, cur, follows, touched, handler>>

\* find_or_create_docket for every docket of the caption; and for the primary
\* one alone.
Created_Primary(p) == {d \in Dockets : d = Primary(Listing(p))}
Created(p) == ToSet(Listing(p).refs)

Register(p) ==
  /\ pc[p] = "register"
  /\ known'   = known \cup Created(p)
  /\ touched' = [touched EXCEPT ![p] = @ \cup Created(p)]
  /\ Move(p, "upsert")
  /\ UNCHANGED <<world, rows, stamped, links, objects, extraction, queue, todo, cur, follows, handler>>

\* upsert_filing returns an id for a new row, and for an old one when the
\* listing brings another URL.  And an upsert that always returns it.
Accepts_Always(f, l) == TRUE
Accepts(f, l) == row[f] = 0 \/ (l.url # 0 /\ Listings[f][row[f]].url # l.url)

\* r2_key is written on insert only; and by every upsert.
KeyAfter_Rewritten(f, l) == l.body
KeyAfter(f, l) == IF row[f] = 0 THEN l.body ELSE key[f]

\* So is docket_id, but a listing that changes nothing fills it in where it is
\* still NULL.
Upsert(p) ==
  LET f == Filing(p)
      l == Listing(p)
      fill == [docketOf EXCEPT ![f] = IF @ = None THEN Primary(l) ELSE @]
  IN
  /\ pc[p] = "upsert"
  /\ IF Accepts(f, l)
     THEN /\ row' = [row EXCEPT ![f] = cur[p][2]]
          /\ key' = [key EXCEPT ![f] = KeyAfter(f, l)]
          /\ docketOf' = IF row[f] = 0 THEN fill ELSE docketOf
          /\ Move(p, "link")
     ELSE /\ docketOf' = fill
          /\ Move(p, "next")
          /\ UNCHANGED <<row, key>>
  /\ UNCHANGED <<world, docs, objects, extraction, queue, todo, cur, follows, touched, handler>>

\* upsert_filing_dockets; then, in selective mode, only a docket that was
\* tracked when the crawl began earns an extract job.
Wanted(p) == ~Selective \/ ToSet(Listing(p).refs) \cap follows[p] # {}
Link(p) ==
  /\ pc[p] = "link"
  /\ links' = links \cup ({Filing(p)} \X ToSet(Listing(p).refs))
  /\ Move(p, IF Wanted(p) THEN "enqueue" ELSE "next")
  /\ UNCHANGED <<world, rows, known, stamped, objects, extraction, queue, todo, cur, follows, touched, handler>>

Offer(p) ==
  /\ pc[p] = "enqueue" /\ offers[Filing(p)] < MaxJobs
  /\ pending' = [pending EXCEPT ![Filing(p)] = @ + 1]
  /\ offers'  = [offers  EXCEPT ![Filing(p)] = @ + 1]
  /\ Move(p, "next")
  /\ UNCHANGED <<world, rows, docs, objects, extraction, sweeps, refreshed, todo, cur, follows, touched, handler>>

\* Register commits one docket after the other: an exception or a kill may come
\* after the first few.
RegisteredSome(p) ==
  IF pc[p] = "register"
  THEN \E n \in 0 .. Len(Listing(p).refs) :
         known' = known \cup {Listing(p).refs[i] : i \in 1 .. n}
  ELSE UNCHANGED known

\* An exception costs this filing its turn and the crawl goes on.
PersistFails(p) ==
  /\ MayFail /\ pc[p] \in {"upload", "register", "upsert", "link", "enqueue"}
  /\ RegisteredSome(p)
  /\ Move(p, "next")
  /\ UNCHANGED <<world, rows, stamped, links, objects, extraction, queue, todo, cur, follows, touched, handler>>

\* stamp_last_crawled_at, for the dockets met and, in a crawl that names its
\* dockets, for those; it is best effort.
Finish(p) ==
  /\ pc[p] = "next" /\ todo[p] = {}
  /\ Move(p, "idle")
  /\ \/ \E scope \in SUBSET known :
          /\ Manual \/ scope = {}
          /\ stamped' = stamped \cup touched[p] \cup scope
     \/ MayFail /\ UNCHANGED stamped
  /\ cur'     = [cur EXCEPT ![p] = <<None, 0>>]
  /\ touched' = [touched EXCEPT ![p] = {}]
  /\ follows' = [follows EXCEPT ![p] = {}]
  /\ crawled' = TRUE
  /\ UNCHANGED <<day, site, tracked, rows, known, links, objects, extraction, queue, todo, handler>>

-----------------------------------------------------------------------------
(* handle_enqueue_source_extracts: one INSERT ... SELECT *)

\* No extract job of any status.  And the test for a pending one alone.
Untried_NonePending(f) == pending[f] = 0
Untried(f) == offers[f] = 0 /\ sweeps[f] = 0

Fetchable(f) == HasSource(f) /\ ~key[f] /\ f \notin Docless

\* since_days; and a window that ends with today's filings.
InWindow_Today(f) == FiledOn[f] >= day
InWindow(f) == FiledOn[f] >= day - SweepDays

Unread == {f \in Stored : Fetchable(f) /\ InWindow(f) /\ extraction[f] = "none" /\ Untried(f)}

Sweep ==
  /\ Unread # {}
  /\ \E S \in SUBSET Unread :
       /\ Cardinality(S) = Min({SweepCap, Cardinality(Unread)})
       /\ \A f \in S, g \in Unread \ S : FiledOn[f] >= FiledOn[g]
       /\ \A f \in S : sweeps[f] < MaxJobs
       /\ pending' = [f \in Filings |-> IF f \in S THEN pending[f] + 1 ELSE pending[f]]
       /\ sweeps'  = [f \in Filings |-> IF f \in S THEN sweeps[f] + 1 ELSE sweeps[f]]
  /\ UNCHANGED <<world, rows, docs, objects, extraction, offers, refreshed, crawler, handler>>

-----------------------------------------------------------------------------
(* handle_extract, for jobs of either kind *)

Go(l, place) == at' = [at EXCEPT ![l] = place]

\* An extract job is pending, or an admin asked to refresh a stored filing.
Asked(l, f) == IF l[2] = "extract" THEN pending[f] > 0 ELSE f \in Stored

\* get_filing, and the choice of a source for the bytes.
ReadFiling(l, f) ==
  /\ at[l] = "idle" /\ Asked(l, f)
  /\ job'   = [job EXCEPT ![l] = f]
  /\ keyed' = [keyed EXCEPT ![l] = key[f]]
  /\ Go(l, IF key[f] \/ HasSource(f) THEN "read" ELSE "skip")
  /\ refreshed' = IF l[2] = "refresh" THEN refreshed \cup {f} ELSE refreshed
  /\ UNCHANGED <<world, rows, docs, objects, extraction, pending, offers, sweeps, crawler>>

\* The job is settled.
Settle(l) ==
  /\ Go(l, "idle")
  /\ job'   = [job EXCEPT ![l] = None]
  /\ keyed' = [keyed EXCEPT ![l] = FALSE]
  /\ pending' = IF l[2] = "extract" /\ pending[job[l]] > 0
                THEN [pending EXCEPT ![job[l]] = @ - 1] ELSE pending
  /\ UNCHANGED <<world, rows, offers, sweeps, refreshed, crawler>>

\* A ZIP, an oversize or restricted document, no source, no text.
Skip(l) ==
  /\ at[l] \in {"read", "skip"}
  /\ Settle(l) /\ UNCHANGED <<docs, objects, extraction>>

\* r2.download raises when there is no object; then Haiku's verdict, which a
\* reply that does not parse leaves at "uncertain".
Triage(l) ==
  /\ at[l] = "read" /\ (keyed[l] => job[l] \in objects)
  /\ \E relevant \in BOOLEAN :
       /\ Curated => relevant
       /\ Go(l, IF ~relevant THEN "dismiss" ELSE IF keyed[l] THEN "llm" ELSE "upload")
  /\ UNCHANGED <<world, rows, docs, objects, extraction, queue, crawler, job, keyed>>

Dismiss(l) ==
  /\ at[l] = "dismiss"
  /\ extraction' = [extraction EXCEPT ![job[l]] = "irrelevant"]
  /\ Settle(l) /\ UNCHANGED <<docs, objects>>

\* The document goes to R2 first, the row learns its key after; and the key
\* first.
UploadDoc_KeyFirst(l) ==
  /\ at[l] = "upload"
  /\ key' = [key EXCEPT ![job[l]] = TRUE]
  /\ Go(l, "setKey")
  /\ UNCHANGED <<world, row, docketOf, docs, objects, extraction, queue, crawler, job, keyed>>
UploadDoc(l) ==
  /\ at[l] = "upload"
  /\ objects' = objects \cup {job[l]}
  /\ Go(l, "setKey")
  /\ UNCHANGED <<world, rows, docs, extraction, queue, crawler, job, keyed>>

SetKey(l) ==
  /\ at[l] = "setKey"
  /\ key' = [key EXCEPT ![job[l]] = TRUE]
  /\ Go(l, "llm")
  /\ UNCHANGED <<world, row, docketOf, docs, objects, extraction, queue, crawler, job, keyed>>

\* Sonnet, and _write_cpuc_cross_refs of what it cites.
Extract(l) ==
  /\ at[l] = "llm"
  /\ \E cited \in SUBSET CrossRefs[job[l]] :
       /\ known' = known \cup cited
       /\ links' = links \cup ({job[l]} \X cited)
  /\ Go(l, "insert")
  /\ UNCHANGED <<world, rows, stamped, objects, extraction, queue, crawler, job, keyed>>

\* insert_extraction overwrites the row of this prompt version; a reply that
\* is no JSON is stored raw.
InsertExtraction(l) ==
  /\ at[l] = "insert"
  /\ \E payload \in {"full", "raw"} : extraction' = [extraction EXCEPT ![job[l]] = payload]
  /\ Settle(l) /\ UNCHANGED <<docs, objects>>

\* An exception: the queue runs the job again, or has no attempt left.
Raise(l) ==
  /\ MayFail /\ at[l] # "idle"
  /\ \/ Settle(l)
     \/ /\ Go(l, "idle")
        /\ job'   = [job EXCEPT ![l] = None]
        /\ keyed' = [keyed EXCEPT ![l] = FALSE]
        /\ UNCHANGED <<world, rows, queue, crawler>>
  /\ UNCHANGED <<docs, objects, extraction>>

\* A kill takes every loop of the process.
Crash(p) ==
  /\ MayCrash
  /\ pc[p] # "idle" \/ \E l \in Loops : l[1] = p /\ at[l] # "idle"
  /\ Move(p, "idle") /\ RegisteredSome(p)
  /\ todo'    = [todo EXCEPT ![p] = {}]
  /\ cur'     = [cur EXCEPT ![p] = <<None, 0>>]
  /\ follows' = [follows EXCEPT ![p] = {}]
  /\ touched' = [touched EXCEPT ![p] = {}]
  /\ at'    = [l \in Loops |-> IF l[1] = p THEN "idle" ELSE at[l]]
  /\ job'   = [l \in Loops |-> IF l[1] = p THEN None ELSE job[l]]
  /\ keyed' = [l \in Loops |-> IF l[1] = p THEN FALSE ELSE keyed[l]]
  /\ UNCHANGED <<world, rows, stamped, links, objects, extraction, queue>>

Next ==
  \/ NextDay \/ Sweep
  \/ \E f \in Filings : List(f)
  \/ \E d \in Dockets : Track(d)
  \/ \E p \in Procs :
       \/ ScheduledCrawl(p) \/ ManualCrawl(p) \/ Take(p) \/ Upload(p) \/ Register(p)
       \/ Upsert(p) \/ Link(p) \/ Offer(p) \/ PersistFails(p) \/ Finish(p) \/ Crash(p)
  \/ \E l \in Loops :
       \/ \E f \in Filings : ReadFiling(l, f)
       \/ Skip(l) \/ Triage(l) \/ Dismiss(l) \/ UploadDoc(l) \/ SetKey(l)
       \/ Extract(l) \/ InsertExtraction(l) \/ Raise(l)

Spec     == Init /\ [][Next]_vars
FairSpec == Spec /\ WF_vars(Sweep)

-----------------------------------------------------------------------------
\* r2_key names a document that is there: a handler or a crawl killed between
\* the upload and the commit never leaves a key without its document.
KeyMeansObject == \A f \in Filings : key[f] => f \in objects

\* A brief may cite what was extracted: an extraction that is not a dismissal
\* has its document in R2, whichever handlers and crawls met on the filing.
CitableExtraction ==
  \A f \in Filings : extraction[f] \in {"full", "raw"} => key[f] /\ f \in objects

\* What a brief cites can be opened: no crawl, handler or kill leaves a key or
\* an extraction that outruns its document.
SourcesExist == KeyMeansObject /\ CitableExtraction

\* Crawls pay for an extraction once per URL of a filing, however often the
\* filing is crawled again by retries, overlapping windows and manual crawls.
OneOfferPerUrl == \A f \in Filings : offers[f] <= Cardinality(Shown(f))

\* "One terminal attempt per filing": the daily sweep enqueues a filing once,
\* whatever became of its job.
SweptOnce == \A f \in Filings : sweeps[f] <= 1

\* In a source that is swept without a window (FERC), a stored filing no crawl
\* handed to extraction - not tracked, or the crawl was killed between the row
\* and the job - is handed to it in the end.
GivenToExtraction(f) == offers[f] > 0 \/ sweeps[f] > 0 \/ f \in refreshed
NothingForgotten == \A f \in Filings : f \in Stored /\ Fetchable(f) ~> GivenToExtraction(f)

=============================================================================

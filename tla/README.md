# nodalpulse-services: specification, model checking and proofs

This directory specifies the services behind nodalpulse in TLA+: the Postgres job queue and
its worker, the scheduler, the source adapters, the ingestion of filings from crawl to extraction, the composition
and delivery of the daily briefs, the market salience job, FERC discovery, and the quotas of
the API. Python paths below are relative to `src/src/nodalpulse/`.

## 1. The system

One Postgres database carries all state. Three kinds of process share it: the API
(`api/app.py`, FastAPI), the worker (`worker.py`, one asyncio loop per job kind) and the
scheduler (`cron.py`, a loop that wakes every minute). They never call each other: the
scheduler and the API insert rows into `jobs`, the worker takes them.

| Component | State it keeps | Operations | What makes it correct |
|---|---|---|---|
| Job queue, `queue/pg_queue.py` | `jobs`, `job_results` | enqueue, enqueue_idempotent, dequeue (crash-loop guard and claim), complete, fail, run_worker | a job is run by one loop at a time, at most `max_attempts` times, and is settled in the end; one row per idempotency key |
| Worker, `worker.py` | the loops in memory | gather of all loops; killed and restarted by the platform | a dead process leaves nothing that stays `running` |
| Admin purge, `api/app.py` | `jobs` | purge by kind and status | fails only jobs nobody can hold by the lock |
| Scheduler, `cron.py`, `db/scheduler.py` | `scheduler_daily_runs` | tick, start-up catch-up, the marks | each weekday's crawls and briefs enqueued, once; a mark means the work is in the queue |
| Briefs, `workers/compose_brief.py`, `db/briefs.py` | `briefs` | compose (window, select, insert, send, mark), trigger, recompose, unsubscribe | no filing in two sent briefs, none lost, one mail per brief, `sent` means delivered, silence for who left; the best filings the limits allow, and a row with an entry for each item of the mail |
| Salience, `workers/salience.py` | `market_salience` | rank, upsert, compare, write headlines | one whole ranking in the table, headlines about their dockets |
| Crawl persistence, `workers/crawl_shared.py`, `db/filings.py` | `filings`, `dockets`, `filing_dockets` | run_adapter | every filing linked and handed to extraction once |
| Source adapters, `crawlers/`, `workers/crawl*.py` | none | page through ten public sites, scope, dedup, cap | a crawl that complains of nothing brought its whole window, but for answers it took for empty; a filing is lost only to complaints and to such answers |
| Extraction, `workers/extract.py`, `refresh_extraction.py`, `enqueue_source_extracts.py`, `db/extractions.py` | `extractions`, `filings.r2_key` | extract, refresh, enqueue missing | one current extraction per filing, deadlines that can be trusted |
| FERC discovery, `workers/classify_discovery.py`, `db/discovery.py` | discovery tables | discover, classify, surface | every new docket classified once |
| Q&A, `api/qna.py`, `llm/client.py` | `llm_calls`, conversations | answer, count, log | the monthly quota |
| Rate limits, `api/app.py` | counts over `jobs`, lists in memory | refresh-docket, on-demand crawl, lead forms | the hourly caps |
| Email, storage, templates, saved searches, zones, taxonomy, settings | none | pure I/O, layout, tables | - |

How they interact: `scheduler -> jobs -> worker loop -> handler -> tables`, and
`API -> jobs`. A handler runs inside `run_worker`; what it commits stays when it raises or the
process dies, and the queue runs it again while attempts are left. The brief handler reads
what the crawl and extract handlers wrote; the trigger endpoint reads the briefs rows and live
jobs to decide whom to enqueue.

What is hard: nothing fences a worker that lost its lock; the scheduler marks a day between
two groups of enqueues; a brief's window depends on which earlier brief was *marked* sent,
after a mail that left in another call; several endpoints read and then enqueue in separate
transactions; each multi-step handler can stop between any two commits; the crawlers page through
lists that grow under them, swallow what fails, take an answer they cannot read for an empty one and
never look back further than yesterday. The full list, at its
lines, is under `hazards` in `PROJECT.json`.

## 2. Modules

| Module | Extends / instantiates | Contents |
|---|---|---|
| `LeaseQueue` | - | abstract queue: a job is absent, open or settled and held by at most one worker |
| `JobQueue` | instantiates `LeaseQueue` | the queue, its worker loops and processes, the purge |
| `JobQueueProofs` | `JobQueue`, TLAPS | inductive invariants and refinement of the queue |
| `Scheduler` | - | scheduler processes, catch-up, marks |
| `SchedulerProofs` | `Scheduler`, `Salience`, TLAPS | the inductive invariants of the two, the scheduled loop and the ranking job it enqueues |
| `BriefDelivery` | - | one user's briefs over several days |
| `BriefDeliveryProofs` | `BriefDelivery`, TLAPS | its inductive invariants, most of them for one composing worker |
| `Deadlines` | - | pure operators: the deadlines of an extraction and the score of a filing |
| `BriefContent` | `Deadlines` | one brief, from the window's rows to the items of the mail |
| `BriefContentProofs` | `BriefContent`, TLAPS | its inductive invariant, lemmas about ranks in a finite order |
| `Ingestion` | - | one source's filings: crawls, sweep, extract and refresh handlers |
| `IngestionProofs` | `Ingestion`, TLAPS | its inductive invariants |
| `Adapters` | - | the ten crawlers against a site that goes on publishing |
| `AdaptersProofs` | `Adapters`, TLAPS | its inductive invariant, lemmas about pages of a list that grows |
| `Salience` | - | one market's weekly ranking |
| `Discovery` | - | the FERC sweep: paging, rows, theme classification |
| `DiscoveryProofs` | `Discovery`, TLAPS | its inductive invariants |
| `Quotas` | - | the AI quota and the hourly caps over overlapping requests |
| `QuotasProofs` | `Quotas`, TLAPS | its inductive invariants |
| `MC*` | the module of that name | values of the constants for TLC |

Each module holds, next to a definition, the wrong forms of it that a slip in the code would
give (`Expired_LockIgnored` beside `Expired`, and so on). No specification uses them; each shows
that a checked property depends on that line of code.

### JobQueue

State: one function per column of `jobs` (`status`, `kind`, `prio`, `key`, `attempts`, and the
clocks `lock`, `wait`, `age` for `locked_until`, `run_after`, `updated_at`), the inserted
`job_results`, and per `run_worker` loop its place, its job and how long it has held it. Clocks
are relative to now, so time needs no bound. One action is one transaction:

| Code | Action |
|---|---|
| `enqueue` | `Enqueue` |
| `enqueue_idempotent`: SELECT, then INSERT | `LookupKey`, then `InsertKeyed` or `KeyConflict` |
| `dequeue`: guard and claim | `Dequeue`, or `PollEmpty` when nothing is due |
| `complete`, `fail` | `Complete`, `Fail`; `CompleteAckLost` when the commit succeeds and still raises |
| spend breaker, 24-hour pause on exhausted credit | `SpendBreaker`, `Fail` to `paused`, `WakeUp` |
| kill, redeploy, or an exception that leaves a loop (`asyncio.gather`) | `Crash`, `Restart` |
| `/admin/jobs/purge` | `PurgeRunning`, `PurgeOther` |

`SKIP LOCKED` is not a state: a poll that skips a row locked by another transaction behaves as
a poll that comes before or after it; the order between ready rows is that of the `ORDER BY`.
`HandlerMax` bounds how long a handler may run. The code has no such limit; runs choose a value
below the lock (the deployment's intent) or above it.

### Scheduler

State: a clock of minutes over `LastDay` days, the two marks per day in `scheduler_daily_runs`, what was
enqueued per day, and per scheduler process its place and the rest of its enqueue plan.
`_tick` is `CheckCrawl`, one `EnqueueCrawl` per crawl kind, `MarkCrawl`, one `EnqueueFollowUp`
per salience or extract job, then `CheckBrief`, `EnqueueBrief` per user, `MarkBrief`;
`_startup_catchup` is the same path without follow-ups and with `Due` testing the hour
instead of the five-minute window. `Raise` is an exception of any awaited database call,
`Crash` a kill. Sleeping is at most `MaxGap` minutes between two ticks. Histories remember the
days on which a call raised, the days the log promised to retry, and the parts of a day (crawl,
brief) that two schedulers began at once.

### BriefDelivery

State: the calendar, filings with the day of `created_at` and whether extracted, compose-brief
jobs and the handler's locals, `briefs` per date, and the history of accepted mails. The unit
of time is the UTC day, which is how both the window and `created_at` are compared. The
handler's awaited calls are separate steps: `Claim`, `ReadWindow`, `ReadFilings`,
`InsertBrief`, `SendAccepted`/`SendRejected`, `MarkSent`, `Complete`, with the exits `Maintenance`
(a failed evaluation) and `QuietDay`, and `Abort` from anywhere. `Claim` includes the read of the
entitlement, without which the job ends at once; `Leave` is an unsubscription, a hard bounce or a
complaint, and `strays` counts the mails after it. What
`BriefContent` models is here one choice of a subset. `Ask`/`Trigger` is the read-then-enqueue
of the scheduler and `/brief/trigger`; `Recompose` asks nothing. A 2xx answer of Brevo is taken
to carry a message id, as its API does. Each behaviour is either `orderly` - crawls and
extractions end before the day's briefs, and the composition leaves nothing out - or not;
`NothingLost` is about the orderly ones, all other properties about both, and
only the others meet a user who leaves.

### Deadlines and BriefContent

`Deadlines` has no state: `Enriched` is `_enrich_deadlines` of `workers/extract.py`, `ScoreFiling`
is `_score_filing` of `workers/compose_brief.py`. Dates count from the day of the brief; a date
that is missing or does not parse is the empty set.

`BriefContent` is the middle of `handle_compose_brief` for one user: the `N` rows of the window, numbered as the
query lists them, and per row what the steps look at. `get_filings_for_brief_user` joins the extractions of every
prompt version, and a filing may have several (the table is unique per filing, schema and prompt version), so
`FilingOf` says whose row each is. Rows compete for slots one by one; the document check and the model's
answers go by filing, as `r2_valid_ids` and `composed_by_id` do. `stage` says where the handler is:

| Code | Action |
|---|---|
| role filter, `dedup_candidates`, `filter_no_claims` | `Select` |
| `_score_filing` over extraction and matched predicates | `Score` |
| `allocate_brief`: top of mind; floor; one slot of the bonus loop | `TopOfMind`; `Floor`; `Bonus`, `BonusDone` |
| the flat brief of a user without tracked dockets | `Flat` |
| R2 existence check | `R2Check` |
| the model's reply, the second try, `_process_entry` for each | `Compose`, `Retry`, `Validate` |
| the fallback when every citation failed | `Fallback` |

Extraction lengths, claims, profiles, lost documents and replies are all choices. A stage forgets
what no later stage reads. Only rows with an `item_key` are collapsed, so a filing extracted twice can appear twice in one
mail and in `filing_ids` when it has none; no text of the repository says otherwise. What
`RowListsTheBrief` states is what the code does promise: no two items of one submission key, no row in two
places, and no filing both on top and in a tracked docket's section (`tom_ids`; the flat brief of a user
without dockets goes row by row and may do just that). A fallback puts each row where the first
entry of its filing is, so its top part may exceed `TOP_OF_MIND_COUNT`.

### Salience

State: the rows of `market_salience` (docket key and what the headline was written about, by
rank) and the handler's locals. Scores are left out: any order of the eligible dockets may be
the ranking. `Upsert`, `Compare`/`Skip`, one `Write` per entry, `UpdateFails`, `Commit` and `Die`
are the steps of `handle_compute_salience`.

### Ingestion

State: the calendar; the site (which version of a filing's listing it shows, since a listing may
be corrected); the columns of `filings` the code decides on (`row` is the version whose
`source_url` and `metadata` the row carries, 0 for no row; `docketOf`, `key` for `docket_id` and
`r2_key`), `dockets`, `filing_dockets`, the documents in R2, `extractions` of the current prompt
version, the unsettled extract jobs; and the locals of `run_adapter` per process and of
`handle_extract` per loop. One step is one commit or one outside call:

| Code | Action |
|---|---|
| `run_adapter`: since, fetch, tracked set | `ScheduledCrawl`, `ManualCrawl` (`Begin`) |
| per filing: upload, `find_or_create_docket`, `upsert_filing`, `upsert_filing_dockets`, enqueue | `Take`, `Upload`, `Register`, `Upsert`, `Link`, `Offer`; `PersistFails` for the swallowed exception |
| `stamp_last_crawled_at` | `Finish` |
| `handle_enqueue_source_extracts` | `Sweep` |
| `handle_extract`, `handle_refresh_extraction` | `ReadFiling`, `Skip`, `Triage`, `Dismiss`, `UploadDoc`, `SetKey`, `Extract`, `InsertExtraction`, `Raise` |
| kill or redeploy | `Crash` |

`find_or_create_docket` commits per docket, so an exception or a kill in `Register` leaves the first few
(`RegisteredSome`). Time is in days. A crawl is taken to end by midnight, and a listing's `filed_at` is its day. Of
a document only its presence is kept; the models' replies are choices. The queue is abstracted
to what `JobQueue` shows of it: a job that fails or is killed runs again, or is settled.

### Adapters

State: one source per behaviour with its site (per filing its `form` and its date, from which follows its
`Position` in a list, newest first), the filings stored, and of the running job its window, the units still to ask for, the
page in hand, the result so far and whether it has logged anything above INFO (`alarm`). One step is one
request. `Publish` comes between any two, with the date of the day or the day before. A result is
a set, since every adapter drops the rows it has seen; where a cap cuts it, VA SCC's sort leaves
the newest and the others any, which stands for the order the units came in.

| Code | Action |
|---|---|
| `cron._tick`, `handle_crawl_*`, the start of `run_adapter` | `Daily`; `Backfill` for a payload with `max_filings`, or PUCT's control numbers |
| `FercAdapter`, for FERC and PJM | `FercPage` per page, `FercLast` its three stops; `FercNull` for null hits |
| `CpucAdapter`, `NjBpuAdapter` | `OpenSession`, then `CpucSearch`/`CpucPage`, `NjbpuSearch`/`NjbpuPage`; `PageFails` |
| `MdPscAdapter`, `VaSccAdapter` | `MdpscWindow`, `VasccMonth`; their `_finalize` is `MdpscKept`, `VasccKept` |
| `ImmAdapter`, `CaisoAdapter` | `ImmFilings`, `ImmReports`, `CaisoIndex` |
| `ErcotNprrCrawler`, `ErcotMarketNoticesCrawler` | `NprrListing`/`NprrDocument`, `NoticeListing`/`NoticeDocument` |
| `PuctCrawler` | `PuctDockets`, `PuctItems`, `PuctNewItems`, `PuctDocuments` |
| an answer without its count, table, link to the next page, body or items, and a year not found | `CpucNothing`, `CpucNoTable`, `NjbpuNothing`, `NjbpuNoTable`, `NjbpuAfter`, `MdpscNothing`, `VasccNothing`, `ImmNothing`, `Listing`, `PuctNoItems`, `PuctNoDocuments`; `PuctNoDockets`, which warns |
| a unit logged and passed over; an exception that ends the job; a kill | `UnitFails`, `Raises`, `Kill` |
| the filters and the floor at the end; the cap and the persist loop | `Finalize`; `Persist`, which may lose any filing to an exception it logs |

The servers of CPUC and NJ BPU page over the result set of the search (`view`), FERC's over the
live list. What a parser reads off a row is the filing. A page that does not come, or is seen not to be the page
it was, is logged (`UnitFails`, `PageFails`); a page that a parser cannot tell from an empty one ends
its unit in silence (`PassOver`), and what was on it joins the history `unread`. The two ERCOT crawlers, one after the other
in one job, are two sources. What `run_adapter` does with a filing is one choice of a subset
here and `Ingestion` in detail: there `Listed` is what an adapter returns. Histories: `due`, what the
window held when the crawl began; `owed`, the scheduled crawls whose window has a filing; `clean`,
the days on which a crawl of no complaint ended; `torn`, the PUCT items stored in part; `unread`, what
was on answers taken for empty.

`QuietCrawlIsComplete` is about one crawl: no page that shifts, stop, case known only
from another window or docket row, or filing named twice loses a filing without a word. It excepts
(`Overlooked`) what was on an answer taken for empty and on no other (`Lost`), and in MD PSC the filings of a
case that only such filings would have made known: the code drops these in silence.
`MissedOnlyByComplaint` is about several: a crawl that lost a filing this way does not count as one that should have
brought it, the next one does. Yesterday's date as `since` makes two weekdays' windows overlap by a day,
which is what brings the filings dated a day before they are listed.

### Discovery

State: the calendar, the site's filings with their dates (a number is a filing's place in the order of
appearance, so a page is a slice counted from the newest), `discovery_feed` (`stored`, `born`,
`themed`), `discovery_matches`, and per loop its place and locals. `Electric` are the filings
that pass `_item_to_discovery` but for their date. The history `due`/`whole` records what a sweep began with and
whether it met an error, a cap or the limit.

| Code | Action |
|---|---|
| `fetch_ferc_discovery` | `Begin`, one `FetchPage` or `PageFails` per request; `Publish` in between |
| `upsert_discovery_items`, `cleanup_expired_discovery` | `Upsert`, `Clean`, a commit each |
| `classify_new_discovery_items` | `List` or `NoThemes`; per row `Classify` (the reply), `Save`, or `CallFails`; `Finish` |
| an exception, a kill, the retry | `Die`, then `Begin` again, with any earlier date |

New filings carry the day's date and come on top, as the code assumes of the site's order. A
sweep is taken to fetch and store within its day.

### Quotas

State: for one user, the requests the server handles at one time (their place, the jobs left of a
refresh, the source of a crawl), the metered rows of `llm_calls` this month, the inserts on
their way, the histories `answered` and `lost` (what the model gave the user this month, and the inserts that
failed or died), the user's refresh and crawl jobs of the last hour, the dockets, and the history
`peak`, the most requests of a kind under way at once.

| Code | Action |
|---|---|
| `handle_qna`, `handle_connector_ask` | `Ask`, `Context` or `NoContext`, `Answer`, `Patch` |
| `tracked_messages_create`, `_persist_llm_call` | `Answer` fires the insert, `Persist` commits it or swallows its exception |
| `refresh_docket` | `Refresh`, then one `EnqueueRefresh` per job |
| `crawl_on_demand` | `Crawl`, `Found` or `NotFound`, `CreateDocket`, `EnqueueCrawl` |
| the month, the hour | `NewMonth`, `RefreshesAge`, `CrawlsAge` |
| an exception; a redeploy | `Fail`, `Crash` |

Each cap reads a count in one transaction and writes what is counted in later ones, so a burst
can pass it. What is claimed is how far: the rows by no more than the requests that overlapped, and the
month's answers, which is what the quota is for, by that and one for each insert that was lost
(`_persist_llm_call` swallows its exception, a redeploy takes the task along). Nothing in the code bounds the
lost ones: a database that refuses every insert leaves the quota open. The run takes at most `MaxLost`.

## 3. Runs

Every bound is a constant of the configuration file; TLC explores each instance completely.

| Run | Instance | Shows |
|---|---|---|
| `queue_exclusive` | 2 jobs, 2 processes with a loop each, 2 keyed callers, 2 priorities, 2 attempts, handlers shorter than the lock | exclusive execution, one verdict per attempt, done is final, one row per key, refinement of `LeaseQueue` |
| `queue_faults` | as above without callers; handlers longer than lock and purge age, lost acknowledgements, fairness | retry cap, purge age, give-up only when spent, every job settles |
| `scheduler_overlap` | 2 schedulers, a weekday between two weekend days, 2 users, kills and exceptions | no weekday without an exception is missed, a mark is earned, only parts that two schedulers began at once are enqueued twice |
| `scheduler_retry` | 1 scheduler, exceptions | violated: a failure after the mark is never retried although the log says so |
| `brief_window` | 2 filings, 3 jobs, 3 days, aborts, dates asked in any order, day 1 recomposed at any time; orderly days or late work and dropped items | disjoint, final and delivered briefs, one mail each; on orderly days nothing lost; the user may leave on day 2 and then gets at most one mail |
| `brief_content` | 6 rows of 5 filings, two of them formats of one submission and one extracted by two prompts, 2 scores, 4 settings: a ceiling that bites, its override for one docket, more dockets than slots, a flat brief | the best filings the limits allow; the row has an entry for each item of the mail |
| `adapters_daily` | each of the 10 sources; 3 filings of up to 3 forms, pages of one, cap of 2 pages, windows, months and years of 2 days, 2 attempts; a weekend day and two weekdays, one backfill of 2 filings | a quiet crawl is complete but for answers it took for empty; a filing is missed only by crawls that complain or met such an answer |
| `ingestion_faults` | 1 filing whose listing is corrected once, 2 dockets, 1 process (crawl, extract and refresh loops), 2 days, exceptions and kills | keys have documents, extractions have their source, one offer per URL, one sweep, nothing forgotten |
| `discovery_sweeps` | 2 overlapping sweeps, 3 filings of which one is filtered, pages of one, cap 2, 3 days, rows that live 2 | an undisturbed sweep leaves nothing due without a verdict; at most a verdict a loop; nothing expired returns |
| `salience_week` | 4 dockets over 3 keys, top 3 | whole rankings, no missing headline after a clean job |
| `salience_stale` | the same | violated: a changed ranking keeps the old headline |
| `quotas_overlap` | 2 requests, 2 sources, quota and caps of 1 and 2, an insert on its way, at most 2 lost in a month, failures, redeploys, months and hours that pass | no cap is overrun by more than the overlap, the answers by no more than that and the lost inserts |

Why the bounds are enough. The queue's hazards need two loops on one row and a second row that
competes for the claim; a second attempt is the first one that can be the last. Lock, purge age
and handler time matter only by their order, which the two configurations put both ways. The
scheduler's hazards lie within one day and at its boundaries to a weekend: no state but the
marks, kept per day, outlives a day. A brief's window depends on the last sent date, so three dates give every order of sent,
rejected and unsent briefs around one; a third job is the first that can re-open a date. In a
brief of six rows an allocation of up to five slots has a top of two, a docket over its ceiling, one
that is empty, and a filing of no docket at once; two scores are enough since only their order
is read. The rows of two filings never meet except in the sweep's cap and order, so one filing with two
versions, handled by a crawl, an extract and a refresh loop at once, has every interleaving of
the commits; two days let a crawl come back to it. Four
dockets for three ranks let one docket displace another, and two share a key. A site of
three filings shifts by a page while one is read, and a filtered one fills a page of its own; rows
of day one expire on day three, when a payload's stale date could still reach them. Two requests are the
first that overlap, and with an insert on its way a third answer can pass the gate; two lost inserts
are the first that add up; two sources
tell one cap from a cap for each. For the crawlers, pages of one filing let every publication shift a
page, two pages reach the cap, three filings leave one for the other side of each stop; windows of
two days split a crawl's three, and two weekdays after a weekend day are the first with a window
that overlaps another and one that does not. A user who leaves (`Leaving`) on the second of three
days has jobs behind, a composition under way and jobs to come.

Deadlock is checked in the queue, salience, quotas, discovery and ingestion runs. The scheduler, adapter and brief
delivery instances end with their last day and a brief's content with its row, so there it is off.

Fairness (`JobQueue!Fairness`, used only for `EverySettles`): time passes, a loop that keeps
coming back to its poll is served by Postgres (strong, because a pause disables the poll),
handlers return, sleeps end, and the platform restarts a dead process. Nothing is
assumed of callers, of crashes, or of the purge. With an unbounded handler no queue could settle
its jobs; that handlers return is the deployment's property (HTTP timeouts in every client),
not the queue's.

`Ingestion!FairSpec` assumes only that a sweep that always finds a filing comes
(`WF_vars(Sweep)`): the scheduler enqueues one every weekday. `NothingForgotten` is about FERC,
the one source that is swept without a window: `SweepDays` lies beyond the run's two days.

## 4. Proofs

All theorems hold for every value of the constants under the modules' assumptions, which ask for
little more than types: numbers are naturals, the sets of jobs, loops, requests and dockets finite,
FERC rows kept longer than a sweep looks back, a user's settings a list of distinct dockets. The two
results that need more say so (one composing worker, one crawling process). Each inductive
invariant below was checked by TLC on its component's run before it was proved.

*Queue* (`JobQueueProofs`). One inductive invariant, `QueueInv`, carries the first four theorems:
`TypeOK`, `RetryBudget` and `LockDiscipline` (a running row has a lock, a pending one none) together with `AbsentRowsAreFresh` (a row not yet
inserted has no attempts and no lock), `HoldersHaveJobs` (a loop that holds something holds a
row that exists) and `LockTracksAge` (while a job runs, its lock is 0 or lock and age add up to
`LockTicks`, since both are written by the claim and move together). `Dequeue` may only count an
attempt because the guard removed the spent rows first, hence `RetryBudget` inside; the purge of
pending rows needs it too (`GivenUpOnlyWhenSpent`); the two together are `AttemptsAreCounted`. `OneJobPerKey` needs only the unique index.
`ExclusiveExecution` is not inductive: `LeaseInv` adds that the job of a busy loop is running and
that its lock has exactly the ticks left that the loop has not used up, so that with
`HandlerMax < LockTicks` no held job is ever due. From both invariants and without lost
acknowledgements (`ImplInv`: no loop is about to report a commit as failed) every step is a step
of `LeaseQueue` or stutters (`QueueImplementsLease`). `VerdictsAreEarlier` adds that the results
recorded for a job belong to earlier attempts than the one running, which gives
`OneVerdictPerAttempt` and `DoneIsFinal`.

*Scheduler* (`SchedulerProofs`). `MarksAreEarned` holds for any number of schedulers, with
crashes and exceptions. Its invariant says that the crawls and briefs a scheduler has not yet
enqueued are exactly the rest of its plan (`PlanInProgress`); what one scheduler enqueues can
only help another. `NoDoubleFiring` holds for any number of them too: two schedulers in one part of a
day are recorded in `overlap` when the second begins (`TogetherOverlap`), so a scheduler that is
still in a part when its mark appears, by another's hand, is in a recorded one (`LateOverlap`).
`NoWeekdayMissed` is a matter of time: `InTime` says, on a day on which nothing raised, that a window
already open has its mark or is `StillDue` to a loop on its way to it, and that a loop at rest has
marked all its last tick found open. Because the gap between two ticks is no longer than a window
(`WokenInTime`) none is stepped over; a loop that starts owes nothing yet, since its catch-up looks at
both windows, however late it is.

*Ingestion* (`IngestionProofs`). `IngestionInv` says what each process has left behind at each
place of its code: a crawl past its upload has its document, past `find_or_create_docket` its
dockets, past the upsert its row (`InHand`); a handler past `UploadDoc` has its document, past
`SetKey` its key (`InWork`). Steps of others cannot undo that, since rows, keys, dockets and
documents are only ever added (`Grows`), which is also what lets each action be proved on its
own. `KeyMeansObject`, `CitableExtraction` (together `SourcesExist`) and the types follow; `SweptOnce` is then a matter of
the sweep alone. `OneOfferPerUrl` has an invariant of its own, `OfferInv`: a crawl holds no listing
older than the row and no two of one filing (`InOrder`), and what a filing has cost, the job about
to be enqueued included, is at most the number of URLs it has had up to the row's version
(`Earned`), so that the upsert offers again only for a URL that is new. It is proved for one
crawling process, which the deployment has (`OneCrawler`): of two overlapping crawls one may write an
older listing over a newer, and the newer URL then counts as changed once more. And for URLs that
do not come back after being replaced (`UrlsDoNotReturn`): the upsert compares with the row only, not
with the URLs before it. The run's instance satisfies both.

*Quotas* (`QuotasProofs`). `Paid` counts the rows of the month and everything that will still
become one (requests past the gate and inserts on their way): that sum only grows at the gate,
which has seen fewer rows than the quota, and the history has seen the rest. `Metered` says that every
answer has become a row, is an insert on its way, or was lost. Hence
`QuotaOverrunIsOverlap`, for rows and for answers. The hourly caps go the same way: `RefreshPaid` counts the refresh rows of
the hour and the pairs of a request and a job it has yet to enqueue (`JobsLeft`), of which each request was
granted no more than the cap; `CrawlPaid` the crawl rows of all three kinds (`CrawlJobs`) and
the requests between gate and insert. Sums over sets are stated as cardinalities of sets of pairs, so
that one step adds or takes away one element.

*Brief delivery* (`BriefDeliveryProofs`). The types, with what a job may hold at each place
(`JobInOrder`), hold for any number of composing workers. The five properties of the briefs are
proved under `Parallel = FALSE`, one composing worker, which is what the deployment runs; with two
both may read one last sent date, and the windows of their briefs overlap (section 6). `DeliveryInv` says that the worker's window
starts at `Since` of its date until it is done and that the row in `pending` lists what it picked
(`HandlerInv`), which holds because no other job can send in between; that the sent briefs are
`Tiled` (what a brief lists was created after every earlier sent date and not after its own), which
gives `SentBriefsDisjoint` and, since a sent date's own window is empty, `SentIsFinal`; and that a
date's mails are one for each death before the mark and one that was marked or is about to be
(`MailsAreCounted`), which gives `MailsMatchRow`. `OneStrayAtMost` needs the count of the jobs that
may still send when the user leaves (`StraysAreOwed`, `OneWorker`). `NothingLost` is inductive only
with `OrderlyDays`: on orderly days every date that is asked for, waits, runs or was sent is
`Ready`, no filing of its days still to come or to be extracted, and the worker picked its whole
window.

*Brief content* (`BriefContentProofs`). `ContentInv` says what each stage finds: distinct
submissions and distinct places among the candidates (`CandidatesInv`, of rows, several of which may be of one filing), a top part nothing beats, a
body still empty (`StageInv`). `BonusInv` is the part that makes `BestWithinLimits` inductive while the
slots left over are handed out one by one: each docket's items are the first of its pool, every active docket has
its floor, and what a docket got beyond its floor beats all that is left of every docket still below
the ceiling. It rests on lemmas about any strict total order of a finite set: the ranks are a
bijection onto `0 .. n - 1` (`Numbering`), so the first `k` are `k` (`FirstFacts`). `RowListsTheBrief`
follows from the same invariant: `OnePlaceEach` is kept by everything that only takes items away (`KeptItems`)
and by the fallback, which moves them (`MovedItems`).

*Discovery* (`DiscoveryProofs`). `DiscoveryInv` has the site in order (`SiteInOrder`), every row no
older than its filing and every deleted filing too old for a sweep of today (`RowsAreDated`, where
the retention longer than the look-back is used), hence `DeletedStaysDeleted`. `VerdictBudget` adds
the verdicts a row has to the loops that still have it in hand: a row with a verdict is marked or
gone and listed by no later loop, so `OneVerdictPerLoop`. `SweepDelivers` needs to know where the
filings owed a verdict are at each place of the sweep (`Owed`): in the items fetched or on a page to
come, stored, in hand, or judged. New filings shift the list by as many places as there are,
so a filing not yet fetched can only move to a later page.

*Salience* (also in `SchedulerProofs`, next to the loop that enqueues it). The table is always one whole ranking of distinct dockets without
holes, no longer than the one in hand, nor than the eligible dockets, which only grow
(`OneRanking`): so an upsert of fewer rows than the table has never happens, and no row of an older
ranking stays under a newer one. `OneRowPerDocket` counts along the ranking; `NoneMissingAfterSuccess`
is inductive beside it.

*Adapters* (`AdaptersProofs`). `AdaptersInv` is one invariant in three layers, each proved over the one below
and checked by TLC on the run's instance first. `SiteInv` has the types, which unit state each source can be in (`Parts`: what the pager of CPUC and NJ BPU
has read are the rows of the earlier pages), PUCT's items listed whole, and every item stored
in part on the record (`Published`). `DeliveryInv` follows each filing that is due through the job: `Taken` says why the
filter at the end keeps it (for MD PSC a case may be electric only by another filing, which is
then due itself), and `Promises`, while nothing was logged, that it was lost with an answer taken for empty or is
`Coming`, which says where it is at each place of the code: in the
result, covered by a unit not yet asked for (`Covers`), in the result set the server pages, or `Ahead`
on FERC's live list. That list is read newest first while it grows at the top: a publication
pushes a row back, never to a page already read. The lemmas under it count: positions in a finite list
are a bijection onto `0 .. n - 1` (`Positions`), so a page is full when the list goes on
(`PageFacts`), and each of the three stops of `_fetch_docket` leaves nothing of the window behind (`LastPage`); windows, months
and years cover every day from `since` on (`UnitsCover`). `QuietCrawlIsComplete` is `Promises` at the end of the job. `Calendar`
adds the days: while a daily crawl runs, a filing that is listed and owed for its day is
one of those due, since one that appears later is not owed by an attempt already begun, and the rest follows from the layer
below (`MissedOnlyByComplaint`). The cap of pages, of rows and of `max_filings`, the page size and the lengths of
the windows are any numbers, so nothing of this hangs on those of the run.

Only model-checked: `EverySettles` and `NothingForgotten`, since liveness under fairness is out of
the prover's reach. `HeadlineDescribesItsDocket` and `FailureIsRetried` are false (section 5).

## 5. What the runs disagree with

The two violated properties state sentences of the code's own comments and logs; `findings` in
`PROJECT.json` quotes them. Seen while modelling and not given a run of their own: the caller of
`enqueue_idempotent` that loses the race gets the index's exception and not the existing job
(`KeyConflict`); a second `/brief/trigger` mails a quiet-day notice again, which leaves no row
that `get_already_enqueued_for_date` could see; a filing crawled or
extracted after its day's brief was sent is in no later window, although `get_filings_for_brief`
says that filings crawled today are always included; what a source publishes on Friday after the
crawl is outside Monday's window (`_tick` passes yesterday's date on weekdays only) and no
scheduled crawl stores it; two overlapping discovery loops can leave a filing with more than the
three themes G3 allows (`OneVerdictPerLoop` bounds it); the README says that a crawl "defaults to the
last 2 days" where `MAX_LOOKBACK_DAYS` is three; the README
speaks of five retries where the schema's default is three attempts; a purge of running jobs an
hour old can fail one whose handler is alive; `_startup_catchup` marks the day without the
salience and extract jobs `_tick` would have enqueued; the role filter of `handle_compose_brief` looks
for `role_tags` in `f["payload"]`, a key the query does not return (it is `extraction_payload`),
and so never drops a filing (`RoleMatch`); submissions are collapsed before documents without
claims are dropped, so one whose richest format claims nothing is lost with all its formats;
`_enrich_deadlines` calls itself idempotent, but a second application marks the certain entries
of the first as estimates; a rehearing date the model wrote, an estimate, keeps the certain one
from being added; an effective date within a week scores twice, by itself and as a deadline; and `_score_filing` gives 60 points
for any deadline of the next seven days without a look at its `estimated` flag, which
`_enrich_deadlines` sets to keep "these from driving the brief's +60 urgency score".

In the crawlers: a PUCT item of which a cap, a kill or an exception left a part counts as stored,
so its other documents are never fetched (`Masked`). The State of the Market reports carry the
end of their quarter as their date and are therefore in no daily window. Four handlers say that
without `max_filings` a crawl has a window of three days, but the scheduler's `since` is yesterday,
and the lookback only shortens it; so what is listed after Friday's crawl has no crawl at all. The
cap keeps the "N most recent" only where the adapter sorts (VA SCC): MD PSC returns its windows in ascending
order, IMM its years, NJ BPU its prefixes. NJ BPU's docstring names the prefix QX, which
`_QUERY_PREFIXES` does not query. Its `parse_results` says that the caller takes an absent results table for drift,
not silently for no new filings; the caller warns of it only on a first page that still shows a count
(`NjbpuNothing` and `NjbpuNoTable` are the others; `_finalize` warns only when all prefixes together bring nothing). The other crawlers claim no such thing, but CPUC, IMM, MD PSC, VA SCC, FERC, ERCOT and PUCT also end a
unit in silence when an answer lacks its table, count, body, year or hits, and PUCT an item whose page of
documents lacks its table. CPUC's docstring gives a short page as a stop, which the loop does not test.

## 6. Not modelled

Templates, zone lookup, settings and taxonomies are layout or constant tables without state of
their own; the probes of on-demand crawls, the brief history export and the PJM calendar (an
idempotent upsert of parsed entries) are one request and one write. Of the adapters the parsing of a row
is left out, and with it a change of a site's markup that costs single rows of a page or fields of a row.
Deadline badges, prompts and token counts are left out; replies of the models appear only as
choices, and the download behind an extraction with its retries is one step that may fail. Of
saved searches the tracked dockets and the number of matches are kept, not the SQL clause. Two
composing workers at once are possible in `BriefDelivery` (`Parallel`) but in no run: the
deployment has one worker, and with two both read one last sent date, so windows overlap. The
form limiters of the API count and append without an await between and cannot be overrun.

## 7. Plan

Modelled and checked: the queue, the scheduler, the source adapters, briefs (delivery and
content), ingestion, discovery, salience and quotas. Proved: every safety property the passing runs check.
Left: `NothingLost` stated for two composing workers, where a weaker bound may hold;
`OneOfferPerUrl` with a bound for overlapping crawls; a property for what a late crawl costs a brief (the
two hazards of `compose_brief.py` without a property).

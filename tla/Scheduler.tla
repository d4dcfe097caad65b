----------------------------- MODULE Scheduler -----------------------------
(***************************************************************************)
(* The weekday scheduler of src/nodalpulse/cron.py with its persistent     *)
(* marks (db/scheduler.py): the crawl window, the follow-up jobs behind    *)
(* it, the brief window, and the catch-up at start.  Each awaited database *)
(* call is a step of its own, so a crash, an exception or a second         *)
(* scheduler can come between any two of them.                             *)
(***************************************************************************)
EXTENDS Integers, Sequences, FiniteSets, SequencesExt

CONSTANTS
  Schedulers,   \* scheduler processes (two while a redeploy overlaps)
  Users,        \* users with an active daily_brief entitlement
  LastDay,      \* bound: the calendar days explored
  Weekend,      \* the days with weekday() >= 5
  DayLen,       \* minutes in the model's day
  CrawlAt,      \* first minute of the crawl window (05:00 CT)
  BriefAt,      \* first minute of the brief window (06:00 CT)
  Window,       \* _BRIEF_WINDOW_MIN
  MaxGap,       \* minutes from one tick to the next, sleep(60) plus the work
  MayRaise,     \* whether database calls may raise
  MayCrash      \* whether the process may be killed

ASSUME SchedulerAssumption ==
  /\ IsFiniteSet(Users)
  /\ LastDay \in Nat \ {0}
  /\ {CrawlAt, BriefAt, DayLen} \subseteq Nat /\ Window \in Nat \ {0}
  /\ CrawlAt + Window <= BriefAt
  /\ BriefAt + Window < DayLen
  /\ MaxGap \in 1 .. Window
  /\ MayRaise \in BOOLEAN /\ MayCrash \in BOOLEAN

VARIABLES
  day, minute,  \* the wall clock in America/Chicago
  subs,         \* optional markets with a subscriber
  crawlDone,    \* days with scheduler_daily_runs.crawl_enqueued_at set
  briefDone,    \* days with brief_enqueued_at set
  crawls,       \* per day, the crawl kinds enqueued
  followUps,    \* per day, the keyed follow-up jobs enqueued
  briefs,       \* per day, the users given a compose-brief job
  pc,           \* where each scheduler is
  starting,     \* whether it is in _startup_catchup rather than _tick
  todo,         \* what its current loop still has to enqueue
  gap,          \* minutes since its last tick
  late,         \* history: jobs enqueued for a day already marked
  promised,     \* history: days logged as "will retry next minute"
  raised,       \* history: days on which a database call raised
  overlap       \* history: parts of a day that two schedulers began at once

clock  == <<day, minute, subs>>
marks  == <<crawlDone, briefDone>>
queue  == <<crawls, followUps, briefs, late>>
procs  == <<pc, starting, todo, gap>>
history == <<promised, raised, overlap>>
vars   == <<clock, marks, queue, procs, history>>

-----------------------------------------------------------------------------
Days     == 1 .. LastDay
Optional == {"CAISO", "PJM"}

TexasCrawls == <<"crawl-puct", "crawl-ercot">>
FercCrawls  == <<"crawl-ferc", "crawl-ferc-discovery">>
CaisoCrawls == <<"crawl-caiso", "crawl-cpuc">>
PjmCrawls   == <<"crawl-pjm", "crawl-imm", "crawl-pjm-calendar",
                 "crawl-njbpu", "crawl-mdpsc", "crawl-vascc">>

If(test, list) == IF test THEN list ELSE <<>>

\* The crawl jobs of a day, in the order they are enqueued; crawl-ferc serves
\* the subscribers of either market.
CrawlPlan ==
  TexasCrawls \o If(subs # {}, FercCrawls)
              \o If("CAISO" \in subs, CaisoCrawls)
              \o If("PJM" \in subs, PjmCrawls)

\* The salience and extraction jobs enqueued behind the crawls.
FollowUpPlan ==
  <<"salience-PUCT", "salience-ERCOT">>
    \o If(subs # {}, <<"salience-FERC", "src-extracts-ferc">>)
    \o If("CAISO" \in subs, <<"salience-CAISO">>)
    \o If("PJM" \in subs, <<"salience-PJM", "src-extracts-vascc",
                            "src-extracts-njbpu">>)

AllCrawls    == ToSet(TexasCrawls \o FercCrawls \o CaisoCrawls \o PjmCrawls)
AllFollowUps == {"salience-PUCT", "salience-ERCOT", "salience-FERC",
                 "salience-CAISO", "salience-PJM", "src-extracts-ferc",
                 "src-extracts-vascc", "src-extracts-njbpu"}

Places == {"down", "asleep", "checkCrawl", "crawl", "followUp",
           "checkBrief", "brief"}

TypeOK ==
  /\ day \in Days /\ minute \in 0 .. DayLen - 1
  /\ subs \subseteq Optional
  /\ crawlDone \subseteq Days /\ briefDone \subseteq Days
  /\ crawls    \in [Days -> SUBSET AllCrawls]
  /\ followUps \in [Days -> SUBSET AllFollowUps]
  /\ briefs    \in [Days -> SUBSET Users]
  /\ pc        \in [Schedulers -> Places]
  /\ starting  \in [Schedulers -> BOOLEAN]
  /\ todo      \in [Schedulers -> Seq(AllCrawls \cup AllFollowUps \cup Users)]
  /\ gap       \in [Schedulers -> 0 .. MaxGap]
  /\ late      \subseteq Days \X {"crawl", "brief"}
  /\ promised  \subseteq Days /\ raised \subseteq Days
  /\ overlap   \subseteq Days \X {"crawl", "brief"}

\* The first deployment may start at any minute of the first day.
Init ==
  /\ day = 1 /\ minute \in 0 .. DayLen - 1
  /\ subs \in SUBSET Optional
  /\ crawlDone = {} /\ briefDone = {}
  /\ crawls    = [d \in Days |-> {}]
  /\ followUps = [d \in Days |-> {}]
  /\ briefs    = [d \in Days |-> {}]
  /\ pc        = [s \in Schedulers |-> "down"]
  /\ starting  = [s \in Schedulers |-> FALSE]
  /\ todo      = [s \in Schedulers |-> <<>>]
  /\ gap       = [s \in Schedulers |-> 0]
  /\ late = {} /\ promised = {} /\ raised = {} /\ overlap = {}

-----------------------------------------------------------------------------
Weekday == day \notin Weekend

Move(s, place, list) ==
  /\ pc'   = [pc EXCEPT ![s] = place]
  /\ todo' = [todo EXCEPT ![s] = list]

\* The process starts: _startup_catchup.
Start(s) ==
  /\ pc[s] = "down"
  /\ Move(s, "checkCrawl", <<>>)
  /\ starting' = [starting EXCEPT ![s] = TRUE]
  /\ gap'      = [gap EXCEPT ![s] = 0]
  /\ UNCHANGED <<clock, marks, queue, history>>

\* sleep(60) is over: _tick.
Wake(s) ==
  /\ pc[s] = "asleep" /\ gap[s] > 0
  /\ Move(s, "checkCrawl", <<>>)
  /\ gap' = [gap EXCEPT ![s] = 0]
  /\ UNCHANGED <<clock, marks, queue, starting, history>>

\* A tick fires within the window, a catch-up at any time after it opens; and
\* a tick that wants the exact first minute.
Due_ExactMinute(s, at) == IF starting[s] THEN minute >= at ELSE minute = at
Due(s, at) == IF starting[s] THEN minute >= at
              ELSE minute \in at .. at + Window - 1

\* Reading the mark of the day; and a check that does not read it.
Unmarked_Unread(done) == TRUE
Unmarked(done) == day \notin done

\* History: s begins a part that another scheduler is in.
Overlap(s, part) ==
  IF \E t \in Schedulers \ {s} : pc[t] = part THEN overlap \cup {<<day, part>>} ELSE overlap

CheckCrawl(s) ==
  /\ pc[s] = "checkCrawl"
  /\ IF Weekday /\ Due(s, CrawlAt) /\ Unmarked(crawlDone)
     THEN /\ Move(s, "crawl", CrawlPlan)
          /\ promised' = promised \ {day}
          /\ overlap'  = Overlap(s, "crawl")
     ELSE /\ Move(s, "checkBrief", <<>>)
          /\ UNCHANGED <<promised, overlap>>
  /\ UNCHANGED <<clock, marks, queue, starting, gap, raised>>

EnqueueCrawl(s) ==
  /\ pc[s] = "crawl" /\ todo[s] # <<>>
  /\ crawls' = [crawls EXCEPT ![day] = @ \cup {Head(todo[s])}]
  /\ late'   = IF day \in crawlDone THEN late \cup {<<day, "crawl">>} ELSE late
  /\ Move(s, "crawl", Tail(todo[s]))
  /\ UNCHANGED <<clock, marks, followUps, briefs, starting, gap, history>>

\* mark_crawl_done_for, before the follow-ups; the catch-up has none.  And a
\* mark that does not wait for the last enqueue.
MarkCrawl_Early(s) ==
  /\ pc[s] = "crawl"
  /\ crawlDone' = crawlDone \cup {day}
  /\ UNCHANGED <<clock, briefDone, queue, procs, history>>
MarkCrawl(s) ==
  /\ pc[s] = "crawl" /\ todo[s] = <<>>
  /\ crawlDone' = crawlDone \cup {day}
  /\ IF starting[s] THEN Move(s, "checkBrief", <<>>)
                    ELSE Move(s, "followUp", FollowUpPlan)
  /\ UNCHANGED <<clock, briefDone, queue, starting, gap, history>>

EnqueueFollowUp(s) ==
  /\ pc[s] = "followUp" /\ todo[s] # <<>>
  /\ followUps' = [followUps EXCEPT ![day] = @ \cup {Head(todo[s])}]
  /\ Move(s, "followUp", Tail(todo[s]))
  /\ UNCHANGED <<clock, marks, crawls, briefs, late, starting, gap, history>>

FollowUpsDone(s) ==
  /\ pc[s] = "followUp" /\ todo[s] = <<>>
  /\ Move(s, "checkBrief", <<>>)
  /\ UNCHANGED <<clock, marks, queue, starting, gap, history>>

\* _enqueue_briefs_for_date reads the active users, in whatever order the
\* database lists them, without those that get_already_enqueued_for_date still
\* sees: a job that is done and left no brief row is not seen.
Orders(S) == {list \in [1 .. Cardinality(S) -> S] : ToSet(list) = S}

CheckBrief(s) ==
  /\ pc[s] = "checkBrief"
  /\ IF Weekday /\ Due(s, BriefAt) /\ Unmarked(briefDone)
     THEN \E already \in SUBSET briefs[day] : \E list \in Orders(Users \ already) :
            /\ Move(s, "brief", list)
            /\ overlap' = Overlap(s, "brief")
            /\ UNCHANGED starting
     ELSE /\ Move(s, "asleep", <<>>)
          /\ starting' = [starting EXCEPT ![s] = FALSE]
          /\ UNCHANGED overlap
  /\ UNCHANGED <<clock, marks, queue, gap, promised, raised>>

EnqueueBrief(s) ==
  /\ pc[s] = "brief" /\ todo[s] # <<>>
  /\ briefs' = [briefs EXCEPT ![day] = @ \cup {Head(todo[s])}]
  /\ late'   = IF day \in briefDone THEN late \cup {<<day, "brief">>} ELSE late
  /\ Move(s, "brief", Tail(todo[s]))
  /\ UNCHANGED <<clock, marks, crawls, followUps, starting, gap, history>>

MarkBrief(s) ==
  /\ pc[s] = "brief" /\ todo[s] = <<>>
  /\ briefDone' = briefDone \cup {day}
  /\ Move(s, "asleep", <<>>)
  /\ starting' = [starting EXCEPT ![s] = FALSE]
  /\ UNCHANGED <<clock, crawlDone, queue, gap, history>>

\* An exception inside the crawl part is logged and the brief part follows;
\* one inside the brief part ends the tick.
Raise(s) ==
  /\ MayRaise
  /\ \/ /\ pc[s] \in {"crawl", "followUp"}
        /\ Move(s, "checkBrief", <<>>)
        /\ promised' = IF starting[s] THEN promised ELSE promised \cup {day}
        /\ UNCHANGED starting
     \/ /\ pc[s] = "brief"
        /\ Move(s, "asleep", <<>>)
        /\ starting' = [starting EXCEPT ![s] = FALSE]
        /\ UNCHANGED promised
  /\ raised' = raised \cup {day}
  /\ UNCHANGED <<clock, marks, queue, gap, overlap>>

\* Killed, or an exception in the reads outside the try blocks.
Crash(s) ==
  /\ MayCrash
  /\ pc[s] # "down"
  /\ Move(s, "down", <<>>)
  /\ starting' = [starting EXCEPT ![s] = FALSE]
  /\ gap' = [gap EXCEPT ![s] = 0]
  /\ UNCHANGED <<clock, marks, queue, history>>

\* A tick's work fits in its minute; a sleeping loop wakes within MaxGap.  And
\* a loop that oversleeps.
Minute_Oversleeps ==
  /\ \A s \in Schedulers : pc[s] \in {"down", "asleep"}
  /\ minute < DayLen - 1 /\ minute' = minute + 1
  /\ gap' = [s \in Schedulers |-> IF pc[s] = "asleep" THEN gap[s] + 1 ELSE 0]
  /\ UNCHANGED <<day, subs, marks, queue, pc, starting, todo, history>>
Minute ==
  /\ \A s \in Schedulers : \/ pc[s] = "down"
                           \/ pc[s] = "asleep" /\ gap[s] < MaxGap
  /\ IF minute < DayLen - 1
     THEN minute' = minute + 1 /\ UNCHANGED day
     ELSE day < LastDay /\ minute' = 0 /\ day' = day + 1
  /\ gap' = [s \in Schedulers |-> IF pc[s] = "asleep" THEN gap[s] + 1 ELSE 0]
  /\ UNCHANGED <<subs, marks, queue, pc, starting, todo, history>>

Next ==
  \/ \E s \in Schedulers :
       \/ Start(s) \/ Wake(s) \/ CheckCrawl(s) \/ EnqueueCrawl(s) \/ MarkCrawl(s)
       \/ EnqueueFollowUp(s) \/ FollowUpsDone(s) \/ CheckBrief(s)
       \/ EnqueueBrief(s) \/ MarkBrief(s) \/ Raise(s) \/ Crash(s)
  \/ Minute

Spec == Init /\ [][Next]_vars

-----------------------------------------------------------------------------
\* A mark is only set when the work behind it is in the queue: whatever
\* crashes, exceptions and second schedulers come between the enqueues of a
\* day, a marked day has all its crawls and a job for every user.
MarksAreEarned ==
  \A d \in Days :
    /\ d \in crawlDone => ToSet(CrawlPlan) \subseteq crawls[d]
    /\ d \in briefDone => briefs[d] = Users

\* A weekday on which no database call raises is not missed: when it is over,
\* a scheduler that is up - even one restarted at the last minute - has had both
\* windows served, by its ticks or by its catch-up.
Served(d) == d \in crawlDone /\ d \in briefDone
NoWeekdayMissed ==
  \A s \in Schedulers :
    pc[s] = "asleep" /\ gap[s] = 0 /\ minute = DayLen - 1 /\ Weekday /\ day \notin raised
      => Served(day)

\* "The DB mark prevents double-firing": jobs are enqueued for a part of a day
\* that is already marked only if two schedulers were in that part at once; one
\* that restarts, or follows another, never repeats it.
NoDoubleFiring == late \subseteq overlap

-----------------------------------------------------------------------------
(* Claims of the source that the code does not keep *)

\* "Failed to enqueue crawls for %s - will retry next minute": a day whose
\* crawl part raised in a tick is still open for the next tick.
FailureIsRetried == \A d \in promised : d \notin crawlDone
=============================================================================

--------------------------- MODULE BriefDelivery ---------------------------
(***************************************************************************)
(* One user's daily briefs: compose-brief jobs, the window of filings each *)
(* covers, the briefs table and the mails that leave through Brevo         *)
(* (workers/compose_brief.py handle_compose_brief, db/briefs.py, the       *)
(* /brief/trigger and /brief/recompose endpoints of api/app.py).  Each     *)
(* awaited call of the handler is a step: other jobs, the crawlers and     *)
(* crashes come between any two.                                           *)
(***************************************************************************)
EXTENDS Integers, FiniteSets, SequencesExt

CONSTANTS
  Filings,     \* relevant filings that may be crawled
  LastDay,     \* bound: the calendar days explored
  Lookback,    \* settings.max_lookback_days
  Jobs,        \* the compose-brief jobs the user may be given
  Callers,     \* the scheduler and /brief/trigger requests
  MaxAttempts, \* jobs.max_attempts
  Parallel,    \* whether two worker processes may compose at once
  MayAbort,    \* whether the handler may raise or its process die
  Leaving,     \* the days on which the user may leave
  Recomposed   \* the dates for which an admin may call /brief/recompose

ASSUME BriefAssumption ==
  /\ LastDay \in Nat \ {0}
  /\ Lookback \in Nat
  /\ MaxAttempts \in Nat \ {0} /\ IsFiniteSet(Jobs)
  /\ {Parallel, MayAbort} \subseteq BOOLEAN

VARIABLES
  orderly,     \* whether crawls and extractions keep to the hour before the
               \* briefs and no step of the composition leaves a filing out
  today,       \* the calendar day
  phase,       \* of an orderly day: "crawl", and "brief" from 06:00
  created,     \* per filing, the day of filings.created_at, or 0
  extracted,   \* filings with a row in extractions
  asking,      \* per caller, the date it found not enqueued yet, or 0
  date,        \* per job, payload brief_date
  state,       \* per job, jobs.status, "over" for done and failed
  tries,       \* per job, jobs.attempts
  pc,          \* per job, where its handler is
  since,       \* per job, window_since as a day
  picked,      \* per job, the filings its brief lists
  entitled,    \* an entitlement to the daily brief that has not expired
  status,      \* per date, briefs.send_status, "none" without a row
  listed,      \* per date, briefs.filing_ids
  mails,       \* history: per date, the filings of each brief Brevo accepted
  lost,        \* history: per date, acceptances that died before the mark
  strays       \* history: mails of any kind since the user left

world == <<orderly, today, phase, created, extracted>>
user  == <<entitled, strays>>
job   == <<date, state, tries, pc, since, picked>>
rows  == <<status, listed>>
sent  == <<mails, lost>>
vars  == <<world, user, asking, job, rows, sent>>

-----------------------------------------------------------------------------
Days   == 1 .. LastDay
Places == {"idle", "window", "filings", "insert", "send", "accepted", "finished"}

TypeOK ==
  /\ orderly \in BOOLEAN
  /\ today \in Days /\ phase \in {"crawl", "brief"}
  /\ created \in [Filings -> 0 .. LastDay]
  /\ extracted \subseteq Filings
  /\ asking \in [Callers -> 0 .. LastDay]
  /\ date   \in [Jobs -> 0 .. LastDay]
  /\ state  \in [Jobs -> {"absent", "pending", "running", "over"}]
  /\ tries  \in [Jobs -> 0 .. MaxAttempts]
  /\ pc     \in [Jobs -> Places]
  /\ since  \in [Jobs -> (0 - Lookback) .. LastDay + 1]
  /\ picked \in [Jobs -> SUBSET Filings]
  /\ status \in [Days -> {"none", "pending", "sent"}]
  /\ listed \in [Days -> SUBSET Filings]
  /\ mails   \in [Days -> Seq(SUBSET Filings)]
  /\ lost    \in [Days -> Nat]
  /\ entitled \in BOOLEAN /\ strays \in 0 .. Cardinality(Jobs)

Init ==
  /\ orderly \in BOOLEAN
  /\ today = 1 /\ phase = "crawl"
  /\ created = [f \in Filings |-> 0] /\ extracted = {}
  /\ asking = [c \in Callers |-> 0]
  /\ date   = [j \in Jobs |-> 0]
  /\ state  = [j \in Jobs |-> "absent"]
  /\ tries  = [j \in Jobs |-> 0]
  /\ pc     = [j \in Jobs |-> "idle"]
  /\ since  = [j \in Jobs |-> 0]
  /\ picked = [j \in Jobs |-> {}]
  /\ status = [d \in Days |-> "none"]
  /\ listed = [d \in Days |-> {}]
  /\ mails   = [d \in Days |-> <<>>]
  /\ lost    = [d \in Days |-> 0]
  /\ entitled = TRUE /\ strays = 0

-----------------------------------------------------------------------------
(* The surroundings: crawlers, extraction, the calendar *)

\* Else a crawl or an extraction may come after the briefs.
InTime == ~orderly \/ phase = "crawl"

Crawl(f) ==
  /\ created[f] = 0 /\ InTime
  /\ created' = [created EXCEPT ![f] = today]
  /\ UNCHANGED <<orderly, today, phase, extracted, user, asking, job, rows, sent>>

Extract(f) ==
  /\ created[f] # 0 /\ f \notin extracted /\ InTime
  /\ extracted' = extracted \cup {f}
  /\ UNCHANGED <<orderly, today, phase, created, user, asking, job, rows, sent>>

\* 06:00: the hour the scheduler leaves the crawls before the briefs.
BriefTime ==
  /\ orderly /\ phase = "crawl"
  /\ \A f \in Filings : created[f] # 0 => f \in extracted
  /\ phase' = "brief"
  /\ UNCHANGED <<orderly, today, created, extracted, user, asking, job, rows, sent>>

Midnight ==
  /\ orderly => phase = "brief"
  /\ today < LastDay
  /\ today' = today + 1 /\ phase' = "crawl"
  /\ UNCHANGED <<orderly, created, extracted, user, asking, job, rows, sent>>

\* /unsubscribe, or a hard bounce or complaint that Brevo reports: the
\* entitlement expires now.
Leave ==
  /\ entitled /\ ~orderly /\ today \in Leaving
  /\ entitled' = FALSE
  /\ UNCHANGED <<world, strays, asking, job, rows, sent>>

\* A mail of any kind leaves for the user.
Mailed == strays' = IF entitled THEN strays ELSE strays + 1

-----------------------------------------------------------------------------
(* Enqueueing *)

\* get_already_enqueued_for_date.
AlreadyEnqueued(d) ==
  \/ status[d] # "none"
  \/ \E j \in Jobs : date[j] = d /\ state[j] \in {"pending", "running"}

NewJob(j, d) ==
  /\ state[j] = "absent"
  /\ date'  = [date  EXCEPT ![j] = d]
  /\ state' = [state EXCEPT ![j] = "pending"]
  /\ UNCHANGED <<tries, pc, since, picked>>

\* The scheduler and /brief/trigger read, and enqueue in a later transaction.
\* Either takes any date, and may come before the day's crawls.
Ready(d) == ~orderly \/ d < today \/ (d = today /\ phase = "brief")

Ask(c, d) ==
  /\ asking[c] = 0 /\ Ready(d)
  /\ entitled /\ ~AlreadyEnqueued(d)
  /\ asking' = [asking EXCEPT ![c] = d]
  /\ UNCHANGED <<world, user, job, rows, sent>>

Trigger(c, j) ==
  /\ asking[c] # 0
  /\ NewJob(j, asking[c])
  /\ asking' = [asking EXCEPT ![c] = 0]
  /\ UNCHANGED <<world, user, rows, sent>>

\* /brief/recompose with a fresh idempotency key asks nothing of the briefs.
Recompose(j, d) ==
  /\ d \in Recomposed /\ Ready(d)
  /\ NewJob(j, d)
  /\ UNCHANGED <<world, user, asking, rows, sent>>

-----------------------------------------------------------------------------
(* The handler *)

At(j, place) == state[j] = "running" /\ pc[j] = place
Go(j, place) == pc' = [pc EXCEPT ![j] = place]

\* get_user_for_brief: without an active entitlement the job ends.  And one
\* that asks for it only on the first attempt.
Admits_Once(j) == entitled \/ tries[j] > 0
Admits(j) == entitled

\* The worker dequeues the job, and the handler reads its user: nothing else
\* looks at the job between the two.
Claim(j) ==
  /\ state[j] = "pending"
  /\ Parallel \/ \A i \in Jobs : state[i] # "running"
  /\ state' = [state EXCEPT ![j] = "running"]
  /\ tries' = [tries EXCEPT ![j] = @ + 1]
  /\ Go(j, IF Admits(j) THEN "window" ELSE "finished")
  /\ UNCHANGED <<world, user, asking, date, since, picked, rows, sent>>

\* A maintenance notice because the last evaluation failed: the job ends
\* without a row.
Maintenance(j) ==
  /\ At(j, "window") /\ Go(j, "finished")
  /\ Mailed
  /\ UNCHANGED <<world, entitled, asking, date, state, tries, since, picked, rows, sent>>

\* get_last_brief_date, and one that forgets send_status = 'sent'.
Latest(S) == CHOOSE d \in S \cup {0} : \A e \in S : e <= d
LastBriefDate_AnyRow == Latest({d \in Days : status[d] # "none"})
LastBriefDate        == Latest({d \in Days : status[d] = "sent"})

\* window_since; one that starts on the last brief's own day; and one that
\* looks only at briefs before this one, as a re-send would.
Since_LastDayAgain(d) ==
  IF LastBriefDate = 0 THEN d - Lookback ELSE LastBriefDate
Since_EarlierOnly(d) ==
  LET last == Latest({e \in Days : e < d /\ status[e] = "sent"})
  IN  IF last = 0 THEN d - Lookback ELSE last + 1
Since(d) == IF LastBriefDate = 0 THEN d - Lookback ELSE LastBriefDate + 1

ReadWindow(j) ==
  /\ At(j, "window") /\ Go(j, "filings")
  /\ since' = [since EXCEPT ![j] = Since(date[j])]
  /\ UNCHANGED <<world, user, asking, date, state, tries, picked, rows, sent>>

\* get_filings_for_brief: created_at in [window_since, brief_date + 1).
InWindow(j) == {f \in extracted : created[f] \in since[j] .. date[j]}

\* Nothing in the window: a quiet-day or market-signal mail, and no row.
QuietDay(j) ==
  /\ At(j, "filings") /\ InWindow(j) = {}
  /\ Go(j, "finished")
  /\ Mailed
  /\ UNCHANGED <<world, entitled, asking, date, state, tries, since, picked, rows, sent>>

\* Dedup, allocation, R2 check, the model's answer and citation validation may
\* leave filings out; when nothing is left there is neither row nor mail.
ReadFilings(j) ==
  /\ At(j, "filings") /\ InWindow(j) # {}
  /\ \E kept \in SUBSET InWindow(j) :
       /\ ~orderly \/ kept = InWindow(j)
       /\ picked' = [picked EXCEPT ![j] = kept]
       /\ Go(j, IF kept = {} THEN "finished" ELSE "insert")
  /\ UNCHANGED <<world, user, asking, date, state, tries, since, rows, sent>>

\* insert_brief, an upsert on (user_id, date).
InsertBrief(j) ==
  /\ At(j, "insert") /\ Go(j, "send")
  /\ status' = [status EXCEPT ![date[j]] = "pending"]
  /\ listed' = [listed EXCEPT ![date[j]] = picked[j]]
  /\ UNCHANGED <<world, user, asking, date, state, tries, since, picked, sent>>

SendAccepted(j) ==
  /\ At(j, "send") /\ Go(j, "accepted")
  /\ mails' = [mails EXCEPT ![date[j]] = Append(@, picked[j])]
  /\ Mailed
  /\ UNCHANGED <<world, entitled, asking, date, state, tries, since, picked, rows, lost>>

\* send_email returned None: the row stays pending and the job is done.  And a
\* handler that does not look at msg_id.
SendRejected_Ignored(j) ==
  /\ At(j, "send") /\ Go(j, "accepted")
  /\ UNCHANGED <<world, user, asking, date, state, tries, since, picked, rows, sent>>
SendRejected(j) ==
  /\ At(j, "send") /\ Go(j, "finished")
  /\ UNCHANGED <<world, user, asking, date, state, tries, since, picked, rows, sent>>

\* mark_brief_sent.
MarkSent(j) ==
  /\ At(j, "accepted") /\ Go(j, "finished")
  /\ status' = [status EXCEPT ![date[j]] = "sent"]
  /\ UNCHANGED <<world, user, asking, date, state, tries, since, picked, listed, sent>>

\* What a job that is over leaves: its row is not read again.
Close(j) ==
  /\ date'  = [date  EXCEPT ![j] = 0]
  /\ tries' = [tries EXCEPT ![j] = 0]
  /\ state' = [state EXCEPT ![j] = "over"]

LeaveHandler(j) ==
  /\ Go(j, "idle")
  /\ since'  = [since  EXCEPT ![j] = 0]
  /\ picked' = [picked EXCEPT ![j] = {}]

\* The worker completes the job.
Complete(j) ==
  /\ At(j, "finished")
  /\ LeaveHandler(j)
  /\ Close(j)
  /\ UNCHANGED <<world, user, asking, rows, sent>>

\* The handler raises, or the process dies and the lock expires: the job is
\* pending again while attempts are left.  And a queue without the budget.
Reopen(j, again) ==
  /\ MayAbort /\ state[j] = "running"
  /\ LeaveHandler(j)
  /\ IF again THEN state' = [state EXCEPT ![j] = "pending"] /\ UNCHANGED <<date, tries>>
              ELSE Close(j)
  /\ lost'  = IF pc[j] = "accepted" THEN [lost EXCEPT ![date[j]] = @ + 1]
                                    ELSE lost
  /\ UNCHANGED <<world, user, asking, rows, mails>>
Abort_NoBudget(j) == Reopen(j, TRUE)
Abort(j) == Reopen(j, tries[j] < MaxAttempts)

Next ==
  \/ \E f \in Filings : Crawl(f) \/ Extract(f)
  \/ BriefTime
  \/ Midnight
  \/ Leave
  \/ \E c \in Callers, d \in Days : Ask(c, d)
  \/ \E c \in Callers, j \in Jobs : Trigger(c, j)
  \/ \E j \in Jobs, d \in Days : Recompose(j, d)
  \/ \E j \in Jobs :
       \/ Claim(j) \/ Maintenance(j) \/ ReadWindow(j)
       \/ QuietDay(j) \/ ReadFilings(j)
       \/ InsertBrief(j) \/ SendAccepted(j) \/ SendRejected(j) \/ MarkSent(j)
       \/ Complete(j) \/ Abort(j)

Spec == Init /\ [][Next]_vars

-----------------------------------------------------------------------------
SentDates == {d \in Days : status[d] = "sent"}
Briefed   == UNION {listed[d] : d \in SentDates}

\* "Window: last_brief_date+1 -> brief_date": when one worker composes, no
\* filing is listed in two briefs that were sent, whatever was retried,
\* rejected, recomposed or triggered out of order in between.
SentBriefsDisjoint ==
  \A d, e \in SentDates : d # e => listed[d] \cap listed[e] = {}

\* A brief that was sent is never reopened or rewritten, not even by a
\* recompose of its date (which finds an empty window).
SentIsFinal ==
  [][\A d \in SentDates : status'[d] = "sent" /\ listed'[d] = listed[d]]_vars

\* A date's row and its mails agree: a brief marked sent was accepted by Brevo
\* and its row lists what the last mail listed; and two mails for one date need
\* an acceptance whose handler died before mark_brief_sent, not some
\* interleaving of triggers, recomposes and retries.
MailsMatchRow ==
  /\ \A d \in SentDates : mails[d] # <<>> /\ Last(mails[d]) = listed[d]
  /\ \A d \in Days : Len(mails[d]) <= 1 + lost[d]

\* Rejected mails, failed jobs, quiet days and skipped days lose nothing: once
\* a brief is sent for a date, every filing crawled up to it, back to the
\* first brief's look-back, is listed in a brief that was sent.
NothingLost ==
  orderly => \A d \in SentDates, f \in Filings :
    created[f] # 0 /\ created[f] <= d
      /\ (\A e \in SentDates : created[f] >= e - Lookback \/ \E b \in SentDates : b < e)
      => f \in Briefed

\* A user who left is mailed by the composition that had begun, and by no other:
\* not by its retry, by jobs that wait, by triggers or by a recompose.
OneStrayAtMost == strays <= 1

=============================================================================

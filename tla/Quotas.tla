------------------------------- MODULE Quotas -------------------------------
(***************************************************************************)
(* What one user may cost: the monthly quota of AI answers (api/qna.py,    *)
(* llm/client.py) and the hourly caps of refresh-docket and on-demand      *)
(* crawls (api/app.py).  Each endpoint counts rows, decides, and writes    *)
(* the rows it will be counted by only after further awaits; the row of an *)
(* answer is written by a task nobody waits for.  The server runs several  *)
(* requests at once.                                                       *)
(***************************************************************************)
EXTENDS Integers, FiniteSets

CONSTANTS
  Requests,   \* requests of the user that the server handles at one time
  Sources,    \* sources that can be crawled on demand
  Limit,      \* limit_per_day: the month's AI answers
  RefreshCap, PerPin, CrawlCap,
  MaxTasks,   \* bound: inserts on their way
  MaxLost,    \* bound: inserts that are lost in a month
  MayFail, MayCrash, None

ASSUME QuotasAssumption ==
  /\ IsFiniteSet(Requests) /\ IsFiniteSet(Sources) /\ None \notin Sources
  /\ Limit \in Nat /\ RefreshCap \in Nat /\ PerPin \in Nat /\ CrawlCap \in Nat
  /\ MaxTasks \in Nat /\ MaxLost \in Nat

VARIABLES
  pc, left, source,   \* per request: its place, refresh jobs to go, its source
  logged,             \* llm_calls of the user this month, app and connector
  tasks,              \* inserts into llm_calls on their way
  answered,           \* history: answers the model gave the user this month
  lost,               \* history: inserts that failed or died this month
  refreshes,          \* refresh-extraction jobs of the user in the last hour
  crawls,             \* per source, its crawl jobs for the user in the last hour
  dockets,            \* sources whose proceeding has a row
  peak                \* history: most requests of a kind under way at once

request == <<pc, left, source>>
meter   == <<tasks, answered, lost>>
rows    == <<logged, refreshes, crawls, dockets>>
vars    == <<request, meter, rows, peak>>

-----------------------------------------------------------------------------
Places == [ask |-> {"context", "model"}, refresh |-> {"jobs"}, crawl |-> {"probe", "docket", "job"}]
Kinds  == DOMAIN Places

TypeOK ==
  /\ pc \in [Requests -> {"idle", "patch"} \cup UNION {Places[k] : k \in Kinds}]
  /\ left \in [Requests -> 0 .. PerPin]
  /\ \A r \in Requests : pc[r] = "jobs" <=> left[r] > 0
  /\ source \in [Requests -> Sources \cup {None}]
  /\ logged \in Nat /\ tasks \in 0 .. MaxTasks /\ answered \in Nat /\ lost \in 0 .. MaxLost
  /\ refreshes \in Nat /\ crawls \in [Sources -> Nat] /\ dockets \subseteq Sources
  /\ peak \in [Kinds -> Nat]

Init ==
  /\ pc = [r \in Requests |-> "idle"]
  /\ left = [r \in Requests |-> 0] /\ source = [r \in Requests |-> None]
  /\ logged = 0 /\ tasks = 0 /\ answered = 0 /\ lost = 0
  /\ refreshes = 0 /\ crawls = [s \in Sources |-> 0] /\ dockets = {}
  /\ peak = [k \in Kinds |-> 0]

\* Requests of a kind past their check and, of answers, not yet in llm_calls.
UnderWay(k) == Cardinality({r \in Requests : pc[r] \in Places[k]})
               + IF k = "ask" THEN tasks ELSE 0

Higher(a, b) == IF a > b THEN a ELSE b

\* A request passes its check.
Admit(r, k, place) ==
  /\ pc[r] = "idle"
  /\ pc'   = [pc EXCEPT ![r] = place]
  /\ peak' = [peak EXCEPT ![k] = Higher(@, UnderWay(k) + 1)]

Leave(r) ==
  /\ pc'     = [pc     EXCEPT ![r] = "idle"]
  /\ left'   = [left   EXCEPT ![r] = 0]
  /\ source' = [source EXCEPT ![r] = None]

-----------------------------------------------------------------------------
(* handle_qna and handle_connector_ask *)

\* The quota gate; and one that lets the last answer be asked once more.
Spent_OneMore == Limit = 0 \/ logged > Limit
Spent == Limit = 0 \/ logged >= Limit

Ask(r) ==
  /\ ~Spent
  /\ Admit(r, "ask", "context")
  /\ UNCHANGED <<left, source, meter, rows>>

\* No predicate, docket or filing: an answer that no model gave, not metered.
NoContext(r) ==
  /\ pc[r] = "context"
  /\ Leave(r) /\ UNCHANGED <<meter, rows, peak>>

Context(r) ==
  /\ pc[r] = "context"
  /\ pc' = [pc EXCEPT ![r] = "model"]
  /\ UNCHANGED <<left, source, meter, rows, peak>>

\* tracked_messages_create: answered or failed, the call fires its insert.
\* /qna goes on to its UPDATE of the conversation, the connector answers.
Answer(r) ==
  /\ pc[r] = "model" /\ tasks < MaxTasks
  /\ tasks' = tasks + 1
  /\ \/ answered' = answered + 1
        /\ pc' = [pc EXCEPT ![r] = "patch"] /\ UNCHANGED <<left, source>>
     \/ answered' \in {answered, answered + 1} /\ Leave(r)
  /\ UNCHANGED <<lost, rows, peak>>

\* The UPDATE finds the row or not; conversation_id decides nothing.
Patch(r) ==
  /\ pc[r] = "patch"
  /\ Leave(r) /\ UNCHANGED <<meter, rows, peak>>

\* _persist_llm_call commits, or swallows its exception, and the answer is not
\* metered.
Persist ==
  /\ tasks > 0
  /\ tasks' = tasks - 1
  /\ \/ logged' = logged + 1 /\ UNCHANGED lost
     \/ MayFail /\ lost < MaxLost /\ lost' = lost + 1 /\ UNCHANGED logged
  /\ UNCHANGED <<request, answered, refreshes, crawls, dockets, peak>>

\* The first of the month in Chicago.
NewMonth ==
  /\ logged + answered + lost > 0
  /\ logged' = 0 /\ answered' = 0 /\ lost' = 0
  /\ UNCHANGED <<request, tasks, refreshes, crawls, dockets, peak>>

-----------------------------------------------------------------------------
(* refresh_docket *)

\* effective_max; and one that forgets what the hour has used.
Allowance_PerPin == {n \in 0 .. PerPin : refreshes < RefreshCap}
Allowance == {n \in 0 .. PerPin : n <= RefreshCap - refreshes}

\* As many jobs as it finds filings without an extraction; none is no step.
Refresh(r) ==
  \E n \in Allowance \ {0} :
    /\ Admit(r, "refresh", "jobs")
    /\ left' = [left EXCEPT ![r] = n]
    /\ UNCHANGED <<source, meter, rows>>

\* The loop breaks at effective_max; and one job later.
More_OneLate(r) == left[r] > 0
More(r) == left[r] > 1

EnqueueRefresh(r) ==
  /\ pc[r] = "jobs"
  /\ refreshes' = refreshes + 1
  /\ left' = [left EXCEPT ![r] = @ - 1]
  /\ pc'   = [pc EXCEPT ![r] = IF More(r) THEN "jobs" ELSE "idle"]
  /\ UNCHANGED <<source, meter, logged, crawls, dockets, peak>>

-----------------------------------------------------------------------------
(* crawl_on_demand *)

\* The user's crawl jobs of the last hour, numbered by source, and their count.
CrawlJobs == UNION {{s} \X (1 .. crawls[s]) : s \in Sources}
AllCrawls == Cardinality(CrawlJobs)

\* One cap for the three kinds of crawl; and one for each.
Recent_OneKind(s) == crawls[s]
Recent(s) == AllCrawls

Crawl(r, s) ==
  /\ Recent(s) < CrawlCap
  /\ Admit(r, "crawl", "probe")
  /\ source' = [source EXCEPT ![r] = s]
  /\ UNCHANGED <<left, meter, rows>>

\* The probe finds nothing, or the source has no row.
NotFound(r) ==
  /\ pc[r] = "probe"
  /\ Leave(r) /\ UNCHANGED <<meter, rows, peak>>

Found(r) ==
  /\ pc[r] = "probe"
  /\ pc' = [pc EXCEPT ![r] = "docket"]
  /\ UNCHANGED <<left, source, meter, rows, peak>>

CreateDocket(r) ==
  /\ pc[r] = "docket"
  /\ dockets' = dockets \cup {source[r]}
  /\ pc' = [pc EXCEPT ![r] = "job"]
  /\ UNCHANGED <<left, source, meter, logged, refreshes, crawls, peak>>

EnqueueCrawl(r) ==
  /\ pc[r] = "job"
  /\ crawls' = [crawls EXCEPT ![source[r]] = @ + 1]
  /\ Leave(r)
  /\ UNCHANGED <<meter, logged, refreshes, dockets, peak>>

-----------------------------------------------------------------------------
\* Jobs grow older than an hour.
RefreshesAge ==
  /\ refreshes' \in 0 .. refreshes - 1
  /\ UNCHANGED <<request, meter, logged, crawls, dockets, peak>>
CrawlsAge(s) ==
  /\ \E n \in 0 .. crawls[s] - 1 : crawls' = [crawls EXCEPT ![s] = n]
  /\ UNCHANGED <<request, meter, logged, refreshes, dockets, peak>>

\* An awaited call raises; a failed model call has been metered by Answer.
Fail(r) ==
  /\ MayFail /\ pc[r] \notin {"idle", "model"}
  /\ Leave(r) /\ UNCHANGED <<meter, rows, peak>>

\* A redeploy drops the requests and the inserts on their way.
Crash ==
  /\ MayCrash /\ lost + tasks <= MaxLost
  /\ pc'     = [r \in Requests |-> "idle"]
  /\ left'   = [r \in Requests |-> 0]
  /\ source' = [r \in Requests |-> None]
  /\ tasks'  = 0 /\ lost' = lost + tasks
  /\ UNCHANGED <<answered, rows, peak>>

Next ==
  \/ Persist \/ NewMonth \/ RefreshesAge \/ Crash
  \/ \E s \in Sources : CrawlsAge(s)
  \/ \E r \in Requests :
       \/ Ask(r) \/ NoContext(r) \/ Context(r) \/ Answer(r) \/ Patch(r)
       \/ Refresh(r) \/ EnqueueRefresh(r)
       \/ (\E s \in Sources : Crawl(r, s)) \/ NotFound(r) \/ Found(r)
       \/ CreateDocket(r) \/ EnqueueCrawl(r) \/ Fail(r)

Spec == Init /\ [][Next]_vars

-----------------------------------------------------------------------------
(* A count that is read before it is acted upon can be overrun, but only by *)
(* requests that overlap, and the quota by rows that are lost: a user who   *)
(* waits, and whose calls are all logged, stays within each cap.            *)

\* The rows the quota is read from exceed it at most by what was asked while an
\* answer was under way or its row on its way; the answers themselves by that and
\* one for each row of the month that was lost, and by nothing else.
QuotaOverrunIsOverlap ==
  /\ logged > 0   => logged <= Limit - 1 + peak["ask"]
  /\ answered > 0 => answered <= Limit - 1 + peak["ask"] + lost

\* Every refresh of a docket overlapping others brings at most a cap of jobs.
RefreshOverrunIsOverlap == refreshes <= RefreshCap * peak["refresh"]

\* The three kinds of on-demand crawl share one cap.
CrawlOverrunIsOverlap == AllCrawls > 0 => AllCrawls <= CrawlCap - 1 + peak["crawl"]

\* The hourly caps, read long before their jobs are written, give way to
\* overlap alone.
HourlyOverrunIsOverlap == RefreshOverrunIsOverlap /\ CrawlOverrunIsOverlap
=============================================================================

---------------------------- MODULE QuotasProofs ----------------------------
(* What overlapping requests can cost, for any number of them.               *)
EXTENDS Quotas, FiniteSetTheorems, TLAPS

\* The requests past the quota gate whose call has not been made.
Asking == {q \in Requests : pc[q] \in {"context", "model"}}

\* A crawl that is under way has its source.
CrawlInHand ==
  \A r \in Requests : pc[r] \in {"probe", "docket", "job"} => source[r] \in Sources

\* What has been asked is paid for: rows and requests under way fit the quota
\* and the overlap that was seen.
Paid ==
  /\ UnderWay("ask") <= peak["ask"]
  /\ Limit = 0 => logged + UnderWay("ask") = 0
  /\ Limit > 0 => logged + UnderWay("ask") <= Limit - 1 + peak["ask"]

\* Each answer of the month has a row, or an insert on its way, or one that was
\* lost.
Metered ==
  /\ answered <= logged + tasks + lost
  /\ Limit = 0 => answered = 0

LEMMA PlacesFacts ==
  /\ Kinds = {"ask", "refresh", "crawl"}
  /\ Places["ask"] = {"context", "model"}
  /\ Places["refresh"] = {"jobs"} /\ Places["crawl"] = {"probe", "docket", "job"}
BY DEF Kinds, Places

\* Requests under way are counted by a natural number.
LEMMA UnderWayType ==
  ASSUME tasks \in Nat, NEW k \in Kinds
  PROVE  UnderWay(k) \in Nat
<1>1. Cardinality({q \in Requests : pc[q] \in Places[k]}) \in Nat
  BY QuotasAssumption, FS_Subset, FS_CardinalityType,
     {q \in Requests : pc[q] \in Places[k]} \subseteq Requests DEF QuotasAssumption
<1> QED BY <1>1 DEF UnderWay

LEMMA AskingCount ==
  /\ IsFiniteSet(Asking) /\ Cardinality(Asking) \in Nat
  /\ IsFiniteSet(Asking') /\ Cardinality(Asking') \in Nat
  /\ UnderWay("ask") = Cardinality(Asking) + tasks
  /\ UnderWay("ask")' = Cardinality(Asking') + tasks'
<1>1. IsFiniteSet(Asking) /\ IsFiniteSet(Asking')
  BY QuotasAssumption, FS_Subset, Asking \subseteq Requests, Asking' \subseteq Requests
  DEF Asking, QuotasAssumption
<1>2. /\ UnderWay("ask") = Cardinality(Asking) + tasks
      /\ UnderWay("ask")' = Cardinality(Asking') + tasks'
  BY PlacesFacts DEF UnderWay, Asking
<1> QED BY <1>1, <1>2, FS_CardinalityType

\* A request that goes elsewhere enters or leaves the set.
LEMMA Goes ==
  ASSUME TypeOK, NEW r \in Requests, NEW p, pc' = [pc EXCEPT ![r] = p]
  PROVE  Asking' = IF p \in {"context", "model"} THEN Asking \cup {r} ELSE Asking \ {r}
BY DEF Asking, TypeOK

-----------------------------------------------------------------------------
\* The places of a request, listed.
LEMMA PlaceSet ==
  {"idle", "patch"} \cup UNION {Places[k] : k \in Kinds}
    = {"idle", "patch", "context", "model", "jobs", "probe", "docket", "job"}
BY DEF Places, Kinds

LEMMA TypeInit == Init => TypeOK
<1> SUFFICES ASSUME Init PROVE TypeOK OBVIOUS
<1>1. pc \in [Requests -> {"idle", "patch"} \cup UNION {Places[k] : k \in Kinds}]
  BY PlaceSet DEF Init
<1>2. peak \in [Kinds -> Nat] BY DEF Init
<1> QED BY <1>1, <1>2, QuotasAssumption DEF Init, TypeOK, QuotasAssumption

LEMMA AdmitType ==
  ASSUME TypeOK, NEW r \in Requests, NEW k \in Kinds, NEW p \in Places[k], Admit(r, k, p)
  PROVE  /\ pc' \in [Requests -> {"idle", "patch"} \cup UNION {Places[j] : j \in Kinds}]
         /\ peak' \in [Kinds -> Nat]
<1>1. UnderWay(k) \in Nat BY UnderWayType DEF TypeOK
<1>2. Higher(peak[k], UnderWay(k) + 1) \in Nat BY <1>1 DEF TypeOK, Higher
<1> QED BY <1>2 DEF Admit, TypeOK

LEMMA TypeStep == TypeOK /\ CrawlInHand /\ [Next]_vars => TypeOK'
<1> SUFFICES ASSUME TypeOK, CrawlInHand, [Next]_vars PROVE TypeOK' OBVIOUS
<1> USE QuotasAssumption DEF QuotasAssumption, meter
<1>1. ASSUME NEW r \in Requests, Ask(r) PROVE TypeOK'
  <2>1. "ask" \in Kinds /\ "context" \in Places["ask"] BY PlacesFacts
  <2>2. Admit(r, "ask", "context") BY <1>1 DEF Ask
  <2> QED BY <1>1, <2>1, <2>2, AdmitType DEF Ask, Admit, TypeOK, rows
<1>2. ASSUME NEW r \in Requests, NEW n \in Allowance \ {0},
             Admit(r, "refresh", "jobs"), left' = [left EXCEPT ![r] = n],
             UNCHANGED <<source, meter, rows>>
      PROVE TypeOK'
  <2>1. "refresh" \in Kinds /\ "jobs" \in Places["refresh"] BY PlacesFacts
  <2>2. n \in 0 .. PerPin /\ n > 0 BY DEF Allowance
  <2> QED BY <1>2, <2>1, <2>2, AdmitType DEF Admit, TypeOK, rows
<1>3. ASSUME NEW r \in Requests, NEW s \in Sources, Crawl(r, s) PROVE TypeOK'
  <2>1. "crawl" \in Kinds /\ "probe" \in Places["crawl"] BY PlacesFacts
  <2>2. Admit(r, "crawl", "probe") BY <1>3 DEF Crawl
  <2> QED BY <1>3, <2>1, <2>2, AdmitType DEF Crawl, Admit, TypeOK, rows
<1> USE PlaceSet
<1>4. ASSUME NEW r \in Requests, Leave(r), UNCHANGED <<meter, rows, peak>> PROVE TypeOK'
  BY <1>4 DEF Leave, TypeOK, rows
<1>5. ASSUME NEW r \in Requests, Context(r) PROVE TypeOK'
  BY <1>5 DEF Context, TypeOK, rows
<1>6. ASSUME NEW r \in Requests, Answer(r) PROVE TypeOK'
  <2>1. tasks' \in 0 .. MaxTasks BY <1>6 DEF Answer, TypeOK
  <2> QED BY <1>6, <2>1 DEF Answer, Leave, TypeOK, rows
<1>7. ASSUME NEW r \in Requests, EnqueueRefresh(r) PROVE TypeOK'
  <2>1. left[r] \in 0 .. PerPin /\ left[r] > 0 BY <1>7 DEF EnqueueRefresh, TypeOK
  <2>2. left'[r] = left[r] - 1 /\ (More(r) <=> left[r] - 1 > 0)
    BY <1>7, <2>1 DEF EnqueueRefresh, More, TypeOK
  <2> QED BY <1>7, <2>1, <2>2 DEF EnqueueRefresh, TypeOK
<1>8. ASSUME NEW r \in Requests, Found(r) PROVE TypeOK'
  BY <1>8 DEF Found, TypeOK, rows
<1>9. ASSUME NEW r \in Requests, CreateDocket(r) PROVE TypeOK'
  <2>1. dockets' \subseteq Sources BY <1>9 DEF CreateDocket, CrawlInHand, TypeOK
  <2> QED BY <1>9, <2>1 DEF CreateDocket, TypeOK, rows
<1>10. ASSUME NEW r \in Requests, EnqueueCrawl(r) PROVE TypeOK'
  BY <1>10 DEF EnqueueCrawl, Leave, CrawlInHand, TypeOK
<1>11. CASE Persist
  <2>1. tasks' \in 0 .. MaxTasks /\ lost' \in 0 .. MaxLost /\ logged' \in Nat
    BY <1>11 DEF Persist, TypeOK
  <2> QED BY <1>11, <2>1 DEF Persist, TypeOK, request
<1>12. CASE NewMonth BY <1>12 DEF NewMonth, TypeOK, request
<1>13. CASE RefreshesAge BY <1>13 DEF RefreshesAge, TypeOK, request
<1>14. ASSUME NEW s \in Sources, CrawlsAge(s) PROVE TypeOK'
  BY <1>14 DEF CrawlsAge, TypeOK, request
<1>15. CASE Crash
  <2>1. lost' \in 0 .. MaxLost BY <1>15 DEF Crash, TypeOK
  <2> QED BY <1>15, <2>1 DEF Crash, TypeOK, rows
<1>16. CASE UNCHANGED vars BY <1>16 DEF vars, request, rows, TypeOK
<1> QED
  BY <1>1, <1>2, <1>3, <1>4, <1>5, <1>6, <1>7, <1>8, <1>9, <1>10, <1>11, <1>12, <1>13, <1>14,
     <1>15, <1>16
  DEF Next, NoContext, Patch, Refresh, NotFound, Fail

-----------------------------------------------------------------------------
LEMMA CrawlStep ==
  TypeOK /\ CrawlInHand /\ [Next]_vars => CrawlInHand'
<1> SUFFICES ASSUME TypeOK, CrawlInHand, [Next]_vars
             PROVE  CrawlInHand'
  OBVIOUS
<1> USE DEF CrawlInHand, TypeOK, meter
<1>1. ASSUME NEW r \in Requests, NEW p, p \notin {"probe", "docket", "job"},
             pc' = [pc EXCEPT ![r] = p],
             source' = source \/ source' = [source EXCEPT ![r] = None],
             UNCHANGED <<crawls, dockets>>
      PROVE  CrawlInHand'
  BY <1>1
<1>2. ASSUME NEW r \in Requests, NEW s \in Sources, Crawl(r, s)
      PROVE  CrawlInHand'
  BY <1>2 DEF Crawl, Admit, rows
<1>3. ASSUME NEW r \in Requests, Found(r) PROVE CrawlInHand'
  BY <1>3 DEF Found, rows
<1>4. ASSUME NEW r \in Requests, CreateDocket(r) PROVE CrawlInHand'
  BY <1>4 DEF CreateDocket
<1>5. ASSUME NEW r \in Requests, EnqueueCrawl(r) PROVE CrawlInHand'
  BY <1>5 DEF EnqueueCrawl, Leave
<1>6. ASSUME NEW s \in Sources, CrawlsAge(s) PROVE CrawlInHand'
  BY <1>6 DEF CrawlsAge, request
<1>7. CASE Crash BY <1>7 DEF Crash, rows
<1>8. CASE UNCHANGED <<request, crawls, dockets>> BY <1>8 DEF request
<1>9. ASSUME NEW r \in Requests,
             Ask(r) \/ NoContext(r) \/ Context(r) \/ Answer(r) \/ Patch(r) \/ Refresh(r)
               \/ EnqueueRefresh(r) \/ NotFound(r) \/ Fail(r)
      PROVE  CrawlInHand'
  <2>1. CASE Ask(r) BY <2>1, <1>1 DEF Ask, Admit, rows
  <2>2. CASE NoContext(r) \/ Patch(r) \/ NotFound(r) \/ Fail(r)
    BY <2>2, <1>1 DEF NoContext, Patch, NotFound, Fail, Leave, rows
  <2>3. CASE Context(r) BY <2>3, <1>1 DEF Context, rows
  <2>4. CASE Answer(r) BY <2>4, <1>1 DEF Answer, Leave, rows
  <2>5. CASE Refresh(r) BY <2>5, <1>1 DEF Refresh, Admit, rows
  <2>6. CASE EnqueueRefresh(r) BY <2>6, <1>1 DEF EnqueueRefresh
  <2> QED BY <1>9, <2>1, <2>2, <2>3, <2>4, <2>5, <2>6
<1> QED
  BY <1>2, <1>3, <1>4, <1>5, <1>6, <1>7, <1>8, <1>9
  DEF Next, vars, rows, Persist, NewMonth, RefreshesAge

-----------------------------------------------------------------------------
\* Rows written by inserts that were under way, or a new month, add up to no
\* more than before.
LEMMA Sums ==
  ASSUME NEW L \in Nat, NEW p \in Nat, NEW n \in Nat,
         NEW t \in Nat, NEW tt \in Nat, NEW g \in Nat, NEW gg \in Nat,
         tt <= t, gg = 0 \/ gg + tt <= g + t, n + t <= p
  PROVE  /\ n + tt <= p
         /\ g + (n + t) = 0 => gg + (n + tt) = 0
         /\ L > 0 /\ g + (n + t) <= L - 1 + p => gg + (n + tt) <= L - 1 + p
OBVIOUS

\* One step per action: only Ask adds to what is under way, and it has seen
\* fewer rows than the quota.
LEMMA PaidStep == TypeOK /\ Paid /\ [Next]_vars => Paid'
<1> SUFFICES ASSUME TypeOK, Paid, [Next]_vars PROVE Paid' OBVIOUS
<1> USE QuotasAssumption DEF QuotasAssumption, meter
<1> DEFINE n == Cardinality(Asking)
<1>1. /\ IsFiniteSet(Asking) /\ n \in Nat /\ UnderWay("ask") = n + tasks
      /\ n' \in Nat /\ UnderWay("ask")' = n' + tasks'
  BY AskingCount
<1>2. tasks \in Nat /\ logged \in Nat /\ peak["ask"] \in Nat
  BY PlacesFacts DEF TypeOK
<1> HIDE DEF n
<1>3. ASSUME NEW r \in Requests, NEW p, p \notin {"context", "model"},
             pc' = [pc EXCEPT ![r] = p], UNCHANGED <<logged, tasks>>, peak'["ask"] = peak["ask"]
      PROVE  Paid'
  <2>1. Asking' = Asking \ {r} BY <1>3, Goes
  <2>2. n' <= n BY <1>1, <2>1, FS_RemoveElement, n' = IF r \in Asking THEN n - 1 ELSE n DEF n
  <2> QED BY <1>1, <1>2, <1>3, <2>2 DEF Paid
<1>4. ASSUME NEW r \in Requests, Ask(r) PROVE Paid'
  <2>1. pc[r] = "idle" /\ r \notin Asking /\ Asking' = Asking \cup {r}
    BY <1>4, Goes DEF Ask, Admit, Asking
  <2>2. n' = n + 1 BY <1>1, <2>1, FS_AddElement DEF n
  <2>3. peak'["ask"] = Higher(peak["ask"], n + tasks + 1)
    BY <1>1, <1>4, PlacesFacts DEF Ask, Admit, TypeOK
  <2>4. peak'["ask"] >= peak["ask"] /\ peak'["ask"] >= n + tasks + 1 /\ peak'["ask"] \in Nat
    BY <1>1, <1>2, <2>3 DEF Higher
  <2>5. Limit > 0 /\ logged < Limit /\ logged' = logged /\ tasks' = tasks
    BY <1>2, <1>4 DEF Ask, Spent, rows
  <2> QED BY <1>1, <1>2, <2>2, <2>4, <2>5 DEF Paid
<1>5. ASSUME NEW r \in Requests, Context(r) PROVE Paid'
  <2>1. Asking' = Asking BY <1>5, Goes DEF Context, Asking
  <2> QED BY <1>1, <1>2, <1>5, <2>1 DEF Paid, Context, rows, n
<1>6. ASSUME NEW r \in Requests, Answer(r) PROVE Paid'
  <2>0. \E p \in {"patch", "idle"} : pc' = [pc EXCEPT ![r] = p] BY <1>6 DEF Answer, Leave
  <2>1. r \in Asking /\ Asking' = Asking \ {r} BY <1>6, <2>0, Goes DEF Answer, Asking
  <2>2. n' = n - 1 BY <1>1, <2>1, FS_RemoveElement DEF n
  <2> QED BY <1>1, <1>2, <1>6, <2>2 DEF Paid, Answer, rows
<1>7. ASSUME NEW t \in Nat, NEW g \in Nat, tasks' = t, logged' = g, pc' = pc, peak' = peak,
             t <= tasks, g = 0 \/ g + t <= logged + tasks
      PROVE  Paid'
  <2>1. n' = n BY <1>7 DEF n, Asking
  <2>2. UnderWay("ask")' = n + t BY <1>1, <1>7, <2>1
  <2>3. peak'["ask"] = peak["ask"] BY <1>7
  <2>4. n + tasks <= peak["ask"] BY <1>1 DEF Paid
  <2>5. /\ n + t <= peak["ask"]
        /\ logged + (n + tasks) = 0 => g + (n + t) = 0
        /\ Limit > 0 /\ logged + (n + tasks) <= Limit - 1 + peak["ask"]
             => g + (n + t) <= Limit - 1 + peak["ask"]
    BY <1>1, <1>2, <1>7, <2>4, Sums
  <2> QED BY <1>1, <1>2, <1>7, <2>2, <2>3, <2>5 DEF Paid
<1>8. CASE Crash
  <2>1. Asking' = {} BY <1>8 DEF Crash, Asking
  <2>2. n' = 0 BY <2>1, FS_EmptySet DEF n
  <2>3. tasks' = 0 /\ logged' = logged /\ peak' = peak BY <1>8 DEF Crash, rows
  <2>4. UnderWay("ask")' = 0 BY <1>1, <2>2, <2>3
  <2>5. n + tasks \in Nat BY <1>1, <1>2
  <2>6. /\ Limit = 0 => logged + (n + tasks) = 0
        /\ Limit > 0 => logged + (n + tasks) <= Limit - 1 + peak["ask"]
    BY <1>1 DEF Paid
  <2>7. /\ Limit = 0 => logged = 0
        /\ Limit > 0 => logged <= Limit - 1 + peak["ask"]
    BY <1>2, <2>5, <2>6
  <2> QED BY <1>2, <2>3, <2>4, <2>7 DEF Paid
<1>9. CASE Persist
  <2>1. tasks' \in Nat /\ logged' \in Nat BY <1>2, <1>9 DEF Persist
  <2>2. tasks' <= tasks /\ logged' + tasks' <= logged + tasks BY <1>2, <1>9 DEF Persist
  <2> QED BY <1>7, <1>9, <2>1, <2>2 DEF Persist, request
<1>10. CASE UNCHANGED <<pc, tasks, peak>> /\ logged' \in {0, logged}
  <2>1. tasks' = tasks /\ (logged' = 0 \/ logged' = logged) BY <1>10
  <2>2. tasks <= tasks /\ logged + tasks <= logged + tasks BY <1>2
  <2>3. pc' = pc /\ peak' = peak BY <1>10
  <2>4. CASE logged' = 0 BY <1>2, <1>7, <2>1, <2>2, <2>3, <2>4
  <2>5. CASE logged' = logged BY <1>2, <1>7, <2>1, <2>2, <2>3, <2>5
  <2> QED BY <2>1, <2>4, <2>5
<1>11. ASSUME NEW r \in Requests,
              NoContext(r) \/ Patch(r) \/ NotFound(r) \/ Found(r) \/ CreateDocket(r)
                \/ EnqueueCrawl(r) \/ EnqueueRefresh(r) \/ Fail(r)
       PROVE  Paid'
  <2>1. \E p \in {"idle", "docket", "job", "jobs"} : pc' = [pc EXCEPT ![r] = p]
    BY <1>11 DEF NoContext, Patch, NotFound, Found, CreateDocket, EnqueueCrawl, EnqueueRefresh,
                 Fail, Leave
  <2>2. UNCHANGED <<logged, tasks, peak>>
    BY <1>11 DEF NoContext, Patch, NotFound, Found, CreateDocket, EnqueueCrawl, EnqueueRefresh,
                 Fail, Leave, rows
  <2> QED BY <1>3, <2>1, <2>2
<1>12. ASSUME NEW r \in Requests, Refresh(r) PROVE Paid'
  <2>1. Admit(r, "refresh", "jobs") /\ UNCHANGED <<tasks, logged>> BY <1>12 DEF Refresh, rows
  <2> QED BY <1>3, <2>1, PlacesFacts DEF Admit, TypeOK
<1>13. ASSUME NEW r \in Requests, NEW s \in Sources, Crawl(r, s) PROVE Paid'
  <2>1. Admit(r, "crawl", "probe") /\ UNCHANGED <<tasks, logged>> BY <1>13 DEF Crawl, rows
  <2> QED BY <1>3, <2>1, PlacesFacts DEF Admit, TypeOK
<1> QED
  BY <1>4, <1>5, <1>6, <1>8, <1>9, <1>10, <1>11, <1>12, <1>13
  DEF Next, vars, rows, request, NewMonth, RefreshesAge, CrawlsAge

\* The sum is kept by every step that moves a call from one place to the next;
\* without a quota nothing is asked.
LEMMA MeteredStep == TypeOK /\ Paid /\ Metered /\ [Next]_vars => Metered'
<1> SUFFICES ASSUME TypeOK, Paid, Metered, [Next]_vars PROVE Metered' OBVIOUS
<1>1. /\ tasks \in Nat /\ logged \in Nat /\ answered \in Nat /\ lost \in Nat
      /\ MaxTasks \in Nat /\ MaxLost \in Nat
  BY QuotasAssumption DEF TypeOK, QuotasAssumption
<1>2. ASSUME UNCHANGED <<tasks, logged, answered, lost>> PROVE Metered'
  BY <1>2 DEF Metered
<1>3. ASSUME NEW r \in Requests, Answer(r) PROVE Metered'
  <2>1. /\ tasks' = tasks + 1 /\ UNCHANGED <<lost, logged>>
        /\ answered' = answered \/ answered' = answered + 1
    BY <1>3 DEF Answer, rows
  <2>2. Limit # 0
    <3>1. IsFiniteSet(Asking) /\ Cardinality(Asking) \in Nat /\ r \in Asking
          /\ UnderWay("ask") = Cardinality(Asking) + tasks
      BY <1>3, AskingCount DEF Answer, Asking
    <3>2. Cardinality(Asking) # 0 BY <3>1, FS_EmptySet
    <3> QED BY <1>1, <3>1, <3>2 DEF Paid
  <2> QED BY <1>1, <2>1, <2>2 DEF Metered
<1>4. CASE Persist
  <2>1. /\ tasks' = tasks - 1 /\ answered' = answered
        /\ \/ logged' = logged + 1 /\ lost' = lost
           \/ lost' = lost + 1 /\ logged' = logged
    BY <1>4 DEF Persist
  <2> QED BY <1>1, <2>1 DEF Metered
<1>5. CASE NewMonth BY <1>1, <1>5 DEF NewMonth, Metered
<1>6. CASE Crash BY <1>1, <1>6 DEF Crash, Metered, rows
<1>7. ASSUME NEW r \in Requests,
             Ask(r) \/ NoContext(r) \/ Context(r) \/ Patch(r) \/ Refresh(r) \/ EnqueueRefresh(r)
               \/ (\E s \in Sources : Crawl(r, s)) \/ NotFound(r) \/ Found(r)
               \/ CreateDocket(r) \/ EnqueueCrawl(r) \/ Fail(r)
      PROVE  Metered'
  <2>1. UNCHANGED <<tasks, logged, answered, lost>>
    BY <1>7 DEF Ask, NoContext, Context, Patch, Refresh, EnqueueRefresh, Crawl, NotFound, Found,
                CreateDocket, EnqueueCrawl, Fail, meter, rows
  <2> QED BY <1>2, <2>1
<1>8. CASE UNCHANGED vars \/ RefreshesAge \/ \E s \in Sources : CrawlsAge(s)
  BY <1>2, <1>8 DEF vars, meter, rows, RefreshesAge, CrawlsAge
<1> QED BY <1>3, <1>4, <1>5, <1>6, <1>7, <1>8 DEF Next

-----------------------------------------------------------------------------
(* The refresh jobs of an hour *)

\* The jobs that requests have yet to enqueue: none of more than a cap, and
\* with the hour's rows no more than the overlap that was seen has caps.
JobsLeft   == {j \in Requests \X (1 .. PerPin) : j[2] <= left[j[1]]}
Refreshing == {q \in Requests : pc[q] = "jobs"}
RefreshPaid ==
  /\ \A r \in Requests : left[r] <= RefreshCap
  /\ refreshes + Cardinality(JobsLeft) <= RefreshCap * peak["refresh"]

LEMMA JobsLeftFacts ==
  /\ IsFiniteSet(JobsLeft) /\ Cardinality(JobsLeft) \in Nat
  /\ IsFiniteSet(JobsLeft') /\ Cardinality(JobsLeft') \in Nat
<1>1. IsFiniteSet(Requests) /\ IsFiniteSet(1 .. PerPin)
  BY QuotasAssumption, FS_Interval DEF QuotasAssumption
<1>2. IsFiniteSet(Requests \X (1 .. PerPin)) BY <1>1, FS_Product
<1>3. JobsLeft \subseteq Requests \X (1 .. PerPin) /\ JobsLeft' \subseteq Requests \X (1 .. PerPin)
  BY DEF JobsLeft
<1> QED BY <1>2, <1>3, FS_Subset, FS_CardinalityType

LEMMA Times ==
  ASSUME NEW c \in Nat, NEW m \in Nat, NEW n \in Nat, m <= n
  PROVE  c * m \in Nat /\ c * n \in Nat /\ c * m <= c * n /\ c * (m + 1) = c * m + c
<1>1. PICK d \in Nat : n = m + d BY n - m \in Nat
<1>2. c * d \in Nat /\ c * (m + d) = c * m + c * d OBVIOUS
<1> QED BY <1>1, <1>2

\* What is in hand fits a cap for each request that has some.
LEMMA InHandFits ==
  ASSUME TypeOK, RefreshPaid
  PROVE  /\ IsFiniteSet(Refreshing) /\ Cardinality(Refreshing) \in Nat
         /\ Cardinality(JobsLeft) <= RefreshCap * Cardinality(Refreshing)
<1> DEFINE R == Refreshing
           C == 1 .. RefreshCap
<1>1. IsFiniteSet(R) /\ Cardinality(R) \in Nat
  BY QuotasAssumption, FS_Subset, FS_CardinalityType, R \subseteq Requests
  DEF Refreshing, QuotasAssumption
<1>2. IsFiniteSet(C) /\ Cardinality(C) = RefreshCap
  <2>1. 1 \in Int /\ RefreshCap \in Nat BY QuotasAssumption DEF QuotasAssumption
  <2> QED BY <2>1, FS_Interval
<1>3. JobsLeft \subseteq R \X C
  <2> SUFFICES ASSUME NEW j \in JobsLeft PROVE j \in R \X C OBVIOUS
  <2>1. PICK r \in Requests, i \in 1 .. PerPin : j = <<r, i>> /\ i <= left[r] BY DEF JobsLeft
  <2>2. /\ left[r] \in 0 .. PerPin /\ left[r] <= RefreshCap /\ (pc[r] = "jobs" <=> left[r] > 0)
        /\ PerPin \in Nat /\ RefreshCap \in Nat
    BY QuotasAssumption DEF TypeOK, RefreshPaid, QuotasAssumption
  <2>3. i \in C /\ pc[r] = "jobs" BY <2>1, <2>2
  <2> QED BY <2>1, <2>3 DEF Refreshing
<1> HIDE DEF R, C
<1>4. IsFiniteSet(R \X C) /\ Cardinality(R \X C) = Cardinality(R) * Cardinality(C)
  BY <1>1, <1>2, FS_Product
<1>5. Cardinality(JobsLeft) <= Cardinality(R \X C) BY <1>3, <1>4, FS_Subset
<1>6. Cardinality(R) * RefreshCap = RefreshCap * Cardinality(R)
  BY <1>1, QuotasAssumption DEF QuotasAssumption
<1> QED BY <1>1, <1>2, <1>4, <1>5, <1>6 DEF R

LEMMA RefreshesLess ==
  ASSUME TypeOK, TypeOK', RefreshPaid, \A r \in Requests : left'[r] <= left[r],
         refreshes' <= refreshes, peak'["refresh"] = peak["refresh"]
  PROVE  RefreshPaid'
<1>0. /\ \A r \in Requests : left[r] \in Nat /\ left'[r] \in Nat
      /\ refreshes \in Nat /\ refreshes' \in Nat /\ peak["refresh"] \in Nat /\ RefreshCap \in Nat
  BY PlacesFacts, QuotasAssumption DEF TypeOK, QuotasAssumption
<1>1. \A r \in Requests : left'[r] <= RefreshCap BY <1>0 DEF RefreshPaid
<1>2. JobsLeft' \subseteq JobsLeft
  <2> SUFFICES ASSUME NEW j \in JobsLeft' PROVE j \in JobsLeft OBVIOUS
  <2>1. PICK r \in Requests, i \in 1 .. PerPin : j = <<r, i>> /\ i <= left'[r] BY DEF JobsLeft
  <2>2. i <= left[r] BY <1>0, <2>1
  <2> QED BY <2>1, <2>2 DEF JobsLeft
<1>3. Cardinality(JobsLeft') <= Cardinality(JobsLeft) BY <1>2, JobsLeftFacts, FS_Subset
<1>4. RefreshCap * peak["refresh"] \in Nat BY <1>0
<1> QED BY <1>0, <1>1, <1>3, <1>4, JobsLeftFacts DEF RefreshPaid

LEMMA RefreshAdmitted ==
  ASSUME TypeOK, TypeOK', RefreshPaid, NEW r \in Requests, NEW n \in Allowance \ {0},
         Admit(r, "refresh", "jobs"), left' = [left EXCEPT ![r] = n], refreshes' = refreshes
  PROVE  RefreshPaid'
<1> DEFINE w == Cardinality(Refreshing)
           b == Cardinality(JobsLeft)
           bb == Cardinality(JobsLeft')
           New == {r} \X (1 .. n)
<1>0. /\ n \in Nat /\ n <= PerPin /\ n <= RefreshCap - refreshes /\ refreshes \in Nat
      /\ RefreshCap \in Nat /\ PerPin \in Nat /\ peak'["refresh"] \in Nat
  BY PlacesFacts, QuotasAssumption DEF TypeOK, QuotasAssumption, Allowance
<1>1. \A q \in Requests : left'[q] <= RefreshCap BY <1>0 DEF RefreshPaid, TypeOK
<1>2. w \in Nat /\ b \in Nat /\ bb \in Nat /\ b <= RefreshCap * w
  BY InHandFits, JobsLeftFacts
<1>3. w + 1 <= peak'["refresh"]
  <2>1. UnderWay("refresh") = w
    <3>1. {q \in Requests : pc[q] \in Places["refresh"]} = Refreshing
      BY PlacesFacts DEF Refreshing
    <3>2. UnderWay("refresh") = Cardinality(Refreshing) + 0 BY <3>1 DEF UnderWay
    <3>3. UnderWay("refresh") = w + 0 BY <3>2
    <3> HIDE DEF w
    <3> QED BY <1>2, <3>3
  <2>2. peak'["refresh"] = Higher(peak["refresh"], w + 1) /\ peak["refresh"] \in Nat
    BY <2>1, PlacesFacts DEF Admit, TypeOK
  <2> HIDE DEF w
  <2> QED BY <1>2, <2>2 DEF Higher
<1>4. bb <= b + n
  <2>1. JobsLeft' \subseteq JobsLeft \cup New
    <3> SUFFICES ASSUME NEW j \in JobsLeft' PROVE j \in JobsLeft \cup New OBVIOUS
    <3>1. PICK q \in Requests, i \in 1 .. PerPin : j = <<q, i>> /\ i <= left'[q] BY DEF JobsLeft
    <3>2. CASE q = r
      <4>1. left'[q] = n BY <3>2 DEF TypeOK
      <4>2. i \in 1 .. n BY <1>0, <3>1, <4>1
      <4> QED BY <3>1, <3>2, <4>2
    <3>3. CASE q # r
      <4>1. i <= left[q] BY <3>1, <3>3 DEF TypeOK
      <4> QED BY <3>1, <4>1 DEF JobsLeft
    <3> QED BY <3>2, <3>3
  <2>2. IsFiniteSet(New) /\ Cardinality(New) = n
    <3>1. IsFiniteSet({r}) /\ Cardinality({r}) = 1 BY FS_Singleton
    <3>2. IsFiniteSet(1 .. n) /\ Cardinality(1 .. n) = n
      <4>1. 1 \in Int /\ n \in Int BY <1>0
      <4> QED BY <1>0, <4>1, FS_Interval
    <3>3. Cardinality(New) = 1 * n BY <3>1, <3>2, FS_Product
    <3>4. IsFiniteSet(New) BY <3>1, <3>2, FS_Product
    <3> QED BY <1>0, <3>3, <3>4
  <2> HIDE DEF New
  <2>3. /\ IsFiniteSet(JobsLeft \cup New) /\ Cardinality(JobsLeft \cup New) \in Nat
        /\ Cardinality(JobsLeft \cap New) \in Nat
        /\ Cardinality(JobsLeft \cup New)
             = Cardinality(JobsLeft) + Cardinality(New) - Cardinality(JobsLeft \cap New)
    BY <2>2, JobsLeftFacts, FS_Union, FS_Intersection, FS_CardinalityType
  <2>4. bb <= Cardinality(JobsLeft \cup New) BY <2>1, <2>3, FS_Subset
  <2> QED BY <1>0, <1>2, <2>2, <2>3, <2>4
<1> HIDE DEF w, b, bb
<1>5. /\ RefreshCap * w \in Nat /\ RefreshCap * (w + 1) = RefreshCap * w + RefreshCap
      /\ RefreshCap * (w + 1) <= RefreshCap * peak'["refresh"]
      /\ RefreshCap * peak'["refresh"] \in Nat
  <2>1. w + 1 \in Nat /\ w <= w BY <1>2
  <2> QED BY <1>0, <1>2, <1>3, <2>1, Times
<1>6. refreshes + bb <= RefreshCap * w + RefreshCap BY <1>0, <1>2, <1>4, <1>5
<1>7. refreshes + bb <= RefreshCap * peak'["refresh"] BY <1>0, <1>2, <1>5, <1>6
<1> QED BY <1>1, <1>7 DEF RefreshPaid, bb

LEMMA RefreshEnqueued ==
  ASSUME TypeOK, TypeOK', RefreshPaid, NEW r \in Requests, EnqueueRefresh(r)
  PROVE  RefreshPaid'
<1> DEFINE i == left[r]
<1>0. /\ i \in 1 .. PerPin /\ refreshes \in Nat /\ RefreshCap \in Nat /\ PerPin \in Nat
      /\ peak["refresh"] \in Nat /\ \A q \in Requests : left[q] \in Nat
  BY PlacesFacts, QuotasAssumption DEF TypeOK, QuotasAssumption, EnqueueRefresh
<1>1. /\ refreshes' = refreshes + 1 /\ peak' = peak
      /\ \A q \in Requests : left'[q] = IF q = r THEN i - 1 ELSE left[q]
  BY DEF EnqueueRefresh, TypeOK
<1>2. \A q \in Requests : left'[q] <= RefreshCap BY <1>0, <1>1 DEF RefreshPaid
<1>3. JobsLeft' = JobsLeft \ {<<r, i>>}
  <2>1. ASSUME NEW q \in Requests, NEW k \in 1 .. PerPin
        PROVE  k <= left'[q] <=> k <= left[q] /\ <<q, k>> # <<r, i>>
    <3>1. CASE q = r
      <4>1. k \in Int /\ i \in Int /\ left'[q] = i - 1 /\ left[q] = i
        BY <1>0, <1>1, <2>1, <3>1
      <4>2. k <= i - 1 <=> k <= i /\ k # i
        <5> HIDE DEF i
        <5> QED BY <4>1
      <4> QED BY <3>1, <4>1, <4>2
    <3>2. CASE q # r BY <1>1, <3>2
    <3> QED BY <3>1, <3>2
  <2>2. \A j \in Requests \X (1 .. PerPin) : j = <<j[1], j[2]>> /\ j[1] \in Requests
                                              /\ j[2] \in 1 .. PerPin
    OBVIOUS
  <2> HIDE DEF i
  <2>3. \A j \in Requests \X (1 .. PerPin) : j \in JobsLeft' <=> j \in JobsLeft /\ j # <<r, i>>
    BY <2>1, <2>2 DEF JobsLeft
  <2>4. JobsLeft \subseteq Requests \X (1 .. PerPin) /\ JobsLeft' \subseteq Requests \X (1 .. PerPin)
    BY DEF JobsLeft
  <2> QED BY <2>3, <2>4
<1>4. <<r, i>> \in JobsLeft BY <1>0 DEF JobsLeft
<1>5. Cardinality(JobsLeft') = Cardinality(JobsLeft) - 1
  BY <1>3, <1>4, JobsLeftFacts, FS_RemoveElement
<1>6. RefreshCap * peak["refresh"] \in Nat BY <1>0
<1>7. refreshes' + Cardinality(JobsLeft') <= RefreshCap * peak["refresh"]
  BY <1>0, <1>1, <1>5, <1>6, JobsLeftFacts DEF RefreshPaid
<1> QED BY <1>1, <1>2, <1>7 DEF RefreshPaid

-----------------------------------------------------------------------------
(* The crawls of an hour *)

Crawling == {q \in Requests : pc[q] \in {"probe", "docket", "job"}}
CrawlPaid ==
  /\ IsFiniteSet(CrawlJobs)
  /\ Cardinality(Crawling) <= peak["crawl"]
  /\ CrawlCap = 0 => AllCrawls + Cardinality(Crawling) = 0
  /\ CrawlCap > 0 => AllCrawls + Cardinality(Crawling) <= CrawlCap - 1 + peak["crawl"]

LEMMA CrawlingCount ==
  /\ IsFiniteSet(Crawling) /\ Cardinality(Crawling) \in Nat
  /\ IsFiniteSet(Crawling') /\ Cardinality(Crawling') \in Nat
  /\ UnderWay("crawl") = Cardinality(Crawling)
<1>1. IsFiniteSet(Crawling) /\ IsFiniteSet(Crawling')
  BY QuotasAssumption, FS_Subset, Crawling \subseteq Requests, Crawling' \subseteq Requests
  DEF Crawling, QuotasAssumption
<1>2. Cardinality(Crawling) \in Nat /\ Cardinality(Crawling') \in Nat
  BY <1>1, FS_CardinalityType
<1>3. {q \in Requests : pc[q] \in Places["crawl"]} = Crawling BY PlacesFacts DEF Crawling
<1>4. UnderWay("crawl") = Cardinality(Crawling) + 0 BY <1>3 DEF UnderWay
<1> QED BY <1>1, <1>2, <1>4

LEMMA CrawlsLess ==
  ASSUME TypeOK, CrawlPaid, Crawling' \subseteq Crawling, CrawlJobs' \subseteq CrawlJobs,
         peak'["crawl"] = peak["crawl"]
  PROVE  CrawlPaid'
<1> DEFINE c == Cardinality(Crawling)
           cc == Cardinality(Crawling')
           a == AllCrawls
           aa == AllCrawls'
<1>1. c \in Nat /\ cc \in Nat /\ cc <= c BY CrawlingCount, FS_Subset
<1>2. IsFiniteSet(CrawlJobs') /\ a \in Nat /\ aa \in Nat /\ aa <= a
  BY FS_Subset, FS_CardinalityType DEF CrawlPaid, AllCrawls
<1>3. peak["crawl"] \in Nat /\ CrawlCap \in Nat
  BY PlacesFacts, QuotasAssumption DEF TypeOK, QuotasAssumption
<1>4. /\ c <= peak["crawl"] /\ (CrawlCap = 0 => a + c = 0)
      /\ (CrawlCap > 0 => a + c <= CrawlCap - 1 + peak["crawl"])
  BY DEF CrawlPaid
<1> HIDE DEF c, cc, a, aa
<1>5. /\ cc <= peak["crawl"] /\ (CrawlCap = 0 => aa + cc = 0)
      /\ (CrawlCap > 0 => aa + cc <= CrawlCap - 1 + peak["crawl"])
  BY <1>1, <1>2, <1>3, <1>4
<1> QED BY <1>2, <1>5 DEF CrawlPaid, cc, aa

LEMMA CrawlAdmitted ==
  ASSUME TypeOK, CrawlPaid, NEW r \in Requests, NEW s \in Sources, Crawl(r, s)
  PROVE  CrawlPaid'
<1> DEFINE c == Cardinality(Crawling)
           a == AllCrawls
<1>1. pc[r] = "idle" /\ crawls' = crawls /\ a < CrawlCap BY DEF Crawl, Admit, Recent, rows
<1>2. Crawling' = Crawling \cup {r} /\ r \notin Crawling
  BY <1>1 DEF Crawl, Admit, Crawling, TypeOK
<1>3. c \in Nat /\ Cardinality(Crawling') = c + 1 BY <1>2, CrawlingCount, FS_AddElement
<1>4. CrawlJobs' = CrawlJobs /\ AllCrawls' = a BY <1>1 DEF CrawlJobs, AllCrawls
<1>5. a \in Nat BY FS_CardinalityType DEF CrawlPaid, AllCrawls
<1>6. /\ peak'["crawl"] = Higher(peak["crawl"], c + 1) /\ peak["crawl"] \in Nat
      /\ CrawlCap \in Nat
  BY CrawlingCount, PlacesFacts, QuotasAssumption DEF Crawl, Admit, TypeOK, QuotasAssumption
<1> HIDE DEF c, a
<1>7. c + 1 <= peak'["crawl"] /\ peak'["crawl"] \in Nat BY <1>3, <1>6 DEF Higher
<1>8. a + (c + 1) <= CrawlCap - 1 + peak'["crawl"] /\ CrawlCap > 0
  BY <1>1, <1>3, <1>5, <1>6, <1>7
<1> QED BY <1>3, <1>4, <1>6, <1>7, <1>8 DEF CrawlPaid

LEMMA CrawlEnqueued ==
  ASSUME TypeOK, CrawlInHand, CrawlPaid, NEW r \in Requests, EnqueueCrawl(r)
  PROVE  CrawlPaid'
<1> DEFINE c == Cardinality(Crawling)
           a == AllCrawls
           s == source[r]
           j == <<s, crawls[s] + 1>>
<1>1. /\ pc[r] = "job" /\ s \in Sources /\ crawls[s] \in Nat /\ peak' = peak
      /\ crawls' = [crawls EXCEPT ![s] = @ + 1] /\ pc' = [pc EXCEPT ![r] = "idle"]
  BY DEF EnqueueCrawl, Leave, CrawlInHand, TypeOK
<1>2. Crawling' = Crawling \ {r} /\ r \in Crawling BY <1>1 DEF Crawling, TypeOK
<1>3. c \in Nat /\ Cardinality(Crawling') = c - 1 /\ Cardinality(Crawling') \in Nat
  BY <1>2, CrawlingCount, FS_RemoveElement
<1>4. CrawlJobs' = CrawlJobs \cup {j} /\ j \notin CrawlJobs
  <2>1. \A t \in Sources : crawls'[t] = IF t = s THEN crawls[t] + 1 ELSE crawls[t]
    BY <1>1 DEF TypeOK
  <2>2. \A t \in Sources : crawls[t] \in Nat BY DEF TypeOK
  <2>3. \A t, i : <<t, i>> \in CrawlJobs  <=> t \in Sources /\ i \in 1 .. crawls[t]
    BY DEF CrawlJobs
  <2>4. \A t, i : <<t, i>> \in CrawlJobs' <=> t \in Sources /\ i \in 1 .. crawls'[t]
    BY DEF CrawlJobs
  <2>5. \A x \in CrawlJobs \cup CrawlJobs' : \E t, i : x = <<t, i>> BY DEF CrawlJobs
  <2>6. \A t \in Sources : \A i :
          i \in 1 .. crawls'[t] <=> i \in 1 .. crawls[t] \/ (t = s /\ i = crawls[s] + 1)
    <3> SUFFICES ASSUME NEW t \in Sources, NEW i
                 PROVE  i \in 1 .. crawls'[t]
                          <=> i \in 1 .. crawls[t] \/ (t = s /\ i = crawls[s] + 1)
      OBVIOUS
    <3>1. crawls[t] \in Nat BY <2>2
    <3>2. CASE t = s BY <2>1, <3>1, <3>2
    <3>3. CASE t # s BY <2>1, <3>1, <3>3
    <3> QED BY <3>2, <3>3
  <2>7. crawls[s] + 1 \notin 1 .. crawls[s] BY <1>1
  <2> HIDE DEF s
  <2>8. j \notin CrawlJobs /\ j \in CrawlJobs' BY <1>1, <2>3, <2>4, <2>6, <2>7
  <2>9. \A t, i : <<t, i>> \in CrawlJobs' <=> <<t, i>> \in CrawlJobs \/ <<t, i>> = j
    BY <1>1, <2>3, <2>4, <2>6
  <2> HIDE DEF j
  <2> QED BY <2>5, <2>8, <2>9
<1>5. IsFiniteSet(CrawlJobs) BY DEF CrawlPaid
<1>6. a \in Nat /\ AllCrawls' = a + 1 /\ IsFiniteSet(CrawlJobs')
  <2> HIDE DEF j
  <2> QED BY <1>4, <1>5, FS_AddElement, FS_CardinalityType DEF AllCrawls
<1>7. peak["crawl"] \in Nat /\ CrawlCap \in Nat
  BY PlacesFacts, QuotasAssumption DEF TypeOK, QuotasAssumption
<1>8. /\ c <= peak["crawl"] /\ (CrawlCap = 0 => a + c = 0)
      /\ (CrawlCap > 0 => a + c <= CrawlCap - 1 + peak["crawl"])
  BY DEF CrawlPaid
<1>9. c >= 1 BY <1>3
<1> HIDE DEF c, a
<1>10. /\ c - 1 <= peak["crawl"] /\ (CrawlCap = 0 => (a + 1) + (c - 1) = 0)
       /\ (CrawlCap > 0 => (a + 1) + (c - 1) <= CrawlCap - 1 + peak["crawl"])
  BY <1>3, <1>6, <1>7, <1>8, <1>9
<1> QED BY <1>1, <1>3, <1>6, <1>10 DEF CrawlPaid

-----------------------------------------------------------------------------
LEMMA HourlyStep ==
  ASSUME TypeOK, TypeOK', CrawlInHand, RefreshPaid, CrawlPaid, [Next]_vars
  PROVE  RefreshPaid' /\ CrawlPaid'
<1> USE DEF meter
<1>0. /\ pc \in [Requests -> {"idle", "patch", "context", "model", "jobs", "probe", "docket", "job"}]
      /\ left \in [Requests -> 0 .. PerPin] /\ peak \in [Kinds -> Nat]
      /\ \A r \in Requests : left[r] \in Nat /\ 0 <= left[r] /\ left[r] <= left[r]
      /\ refreshes \in Nat /\ refreshes <= refreshes /\ crawls \in [Sources -> Nat]
  BY PlaceSet, QuotasAssumption DEF TypeOK, QuotasAssumption
<1>1. ASSUME UNCHANGED <<left, refreshes>>, peak'["refresh"] = peak["refresh"]
      PROVE  RefreshPaid'
  BY <1>0, <1>1, RefreshesLess
<1>2. ASSUME crawls' = crawls, peak'["crawl"] = peak["crawl"], Crawling' \subseteq Crawling
      PROVE  CrawlPaid'
  <2>1. CrawlJobs' = CrawlJobs BY <1>2 DEF CrawlJobs
  <2> QED BY <1>2, <2>1, CrawlsLess
<1>3. ASSUME NEW r \in Requests, NEW p \in {"idle", "patch", "context", "model", "jobs"},
             pc' = [pc EXCEPT ![r] = p]
      PROVE  Crawling' \subseteq Crawling
  BY <1>0, <1>3 DEF Crawling
<1>4. ASSUME NEW r \in Requests, Ask(r) PROVE RefreshPaid' /\ CrawlPaid'
  <2>1. /\ UNCHANGED <<left, refreshes, crawls>> /\ pc' = [pc EXCEPT ![r] = "context"]
        /\ peak'["refresh"] = peak["refresh"] /\ peak'["crawl"] = peak["crawl"]
    BY <1>0, <1>4, PlacesFacts DEF Ask, Admit, rows
  <2> QED BY <1>1, <1>2, <1>3, <2>1
<1>5. ASSUME NEW r \in Requests, Leave(r), UNCHANGED <<refreshes, crawls, peak>>
      PROVE RefreshPaid' /\ CrawlPaid'
  <2>1. pc' = [pc EXCEPT ![r] = "idle"] /\ left' = [left EXCEPT ![r] = 0] BY <1>5 DEF Leave
  <2>2. \A q \in Requests : left'[q] <= left[q] BY <1>0, <2>1
  <2>3. RefreshPaid' BY <1>0, <1>5, <2>2, RefreshesLess
  <2> QED BY <1>2, <1>3, <1>5, <2>1, <2>3
<1>6. ASSUME NEW r \in Requests, Context(r) \/ Answer(r) PROVE RefreshPaid' /\ CrawlPaid'
  <2>1. UNCHANGED <<refreshes, crawls, peak>> BY <1>6 DEF Context, Answer, rows
  <2>2. Leave(r) \/ (left' = left /\ \E p \in {"model", "patch"} : pc' = [pc EXCEPT ![r] = p])
    BY <1>6 DEF Context, Answer
  <2> QED BY <1>1, <1>2, <1>3, <1>5, <2>1, <2>2
<1>7. ASSUME NEW r \in Requests, Refresh(r) PROVE RefreshPaid' /\ CrawlPaid'
  <2>1. PICK n \in Allowance \ {0} :
          /\ Admit(r, "refresh", "jobs") /\ left' = [left EXCEPT ![r] = n]
          /\ UNCHANGED <<source, meter, rows>>
    BY <1>7 DEF Refresh
  <2>2. RefreshPaid' BY <2>1, RefreshAdmitted DEF rows
  <2>3. pc' = [pc EXCEPT ![r] = "jobs"] /\ crawls' = crawls /\ peak'["crawl"] = peak["crawl"]
    BY <1>0, <2>1, PlacesFacts DEF Admit, rows
  <2> QED BY <1>2, <1>3, <2>2, <2>3
<1>8. ASSUME NEW r \in Requests, EnqueueRefresh(r) PROVE RefreshPaid' /\ CrawlPaid'
  <2>1. /\ \E p \in {"jobs", "idle"} : pc' = [pc EXCEPT ![r] = p]
        /\ crawls' = crawls /\ peak' = peak
    BY <1>8 DEF EnqueueRefresh
  <2> QED BY <1>2, <1>3, <1>8, <2>1, RefreshEnqueued
<1>9. ASSUME NEW r \in Requests, NEW s \in Sources, Crawl(r, s)
      PROVE  RefreshPaid' /\ CrawlPaid'
  <2>1. UNCHANGED <<left, refreshes>> /\ peak'["refresh"] = peak["refresh"]
    BY <1>0, <1>9, PlacesFacts DEF Crawl, Admit, rows
  <2> QED BY <1>1, <1>9, <2>1, CrawlAdmitted
<1>10. ASSUME NEW r \in Requests, Found(r) \/ CreateDocket(r) PROVE RefreshPaid' /\ CrawlPaid'
  <2>1. /\ UNCHANGED <<left, refreshes, crawls, peak>> /\ pc[r] \in {"probe", "docket"}
        /\ \E p \in {"docket", "job"} : pc' = [pc EXCEPT ![r] = p]
    BY <1>10 DEF Found, CreateDocket, rows
  <2>2. Crawling' \subseteq Crawling BY <1>0, <2>1 DEF Crawling
  <2> QED BY <1>1, <1>2, <2>1, <2>2
<1>11. ASSUME NEW r \in Requests, EnqueueCrawl(r) PROVE RefreshPaid' /\ CrawlPaid'
  <2>1. left' = [left EXCEPT ![r] = 0] /\ UNCHANGED <<refreshes, peak>>
    BY <1>11 DEF EnqueueCrawl, Leave
  <2>2. \A q \in Requests : left'[q] <= left[q] BY <1>0, <2>1
  <2> QED BY <1>0, <1>11, <2>1, <2>2, RefreshesLess, CrawlEnqueued
<1>12. ASSUME NEW s \in Sources, CrawlsAge(s) PROVE RefreshPaid' /\ CrawlPaid'
  <2>1. /\ UNCHANGED <<left, refreshes, peak, pc>>
        /\ \A t \in Sources : crawls[t] \in Nat /\ crawls'[t] \in Nat /\ crawls'[t] <= crawls[t]
    BY <1>0, <1>12 DEF CrawlsAge, request
  <2>2. \A t \in Sources : 1 .. crawls'[t] \subseteq 1 .. crawls[t] BY <2>1
  <2>3. CrawlJobs' \subseteq CrawlJobs BY <2>2 DEF CrawlJobs
  <2>4. Crawling' = Crawling BY <2>1 DEF Crawling
  <2> QED BY <1>1, <2>1, <2>3, <2>4, CrawlsLess
<1>13. CASE RefreshesAge
  <2>1. /\ UNCHANGED <<left, pc, crawls, peak>> /\ refreshes' <= refreshes
    BY <1>0, <1>13 DEF RefreshesAge, request
  <2>2. Crawling' = Crawling BY <2>1 DEF Crawling
  <2> QED BY <1>0, <1>2, <2>1, <2>2, RefreshesLess
<1>14. CASE Crash
  <2>1. /\ \A r \in Requests : left'[r] = 0 /\ pc'[r] = "idle"
        /\ UNCHANGED <<refreshes, crawls, peak>>
    BY <1>14 DEF Crash, rows
  <2>2. \A r \in Requests : left'[r] <= left[r] BY <1>0, <2>1
  <2>3. Crawling' \subseteq Crawling BY <2>1 DEF Crawling
  <2> QED BY <1>0, <1>2, <2>1, <2>2, <2>3, RefreshesLess
<1>15. CASE UNCHANGED <<left, refreshes, crawls, peak, pc>>
  <2>1. Crawling' = Crawling BY <1>15 DEF Crawling
  <2> QED BY <1>1, <1>2, <1>15, <2>1
<1>16. Persist \/ NewMonth \/ UNCHANGED vars => UNCHANGED <<left, refreshes, crawls, peak, pc>>
  BY DEF Persist, NewMonth, vars, request, rows
<1>17. ASSUME NEW r \in Requests, NoContext(r) \/ Patch(r) \/ NotFound(r) \/ Fail(r)
       PROVE  RefreshPaid' /\ CrawlPaid'
  BY <1>5, <1>17 DEF NoContext, Patch, NotFound, Fail, rows
<1> QED
  BY <1>4, <1>6, <1>7, <1>8, <1>9, <1>10, <1>11, <1>12, <1>13, <1>14, <1>15, <1>16, <1>17
  DEF Next

LEMMA HourlyInit == Init => RefreshPaid /\ CrawlPaid
<1> SUFFICES ASSUME Init PROVE RefreshPaid /\ CrawlPaid OBVIOUS
<1>1. /\ RefreshCap \in Nat /\ CrawlCap \in Nat /\ peak["refresh"] = 0 /\ peak["crawl"] = 0
  BY QuotasAssumption, PlacesFacts DEF Init, QuotasAssumption
<1>2. JobsLeft = {}
  <2> SUFFICES ASSUME NEW r \in Requests, NEW i \in 1 .. PerPin PROVE ~(i <= left[r])
    BY DEF JobsLeft
  <2> QED BY DEF Init
<1>3. CrawlJobs = {} BY DEF Init, CrawlJobs
<1>4. Crawling = {} BY DEF Init, Crawling
<1>5. Cardinality({}) = 0 /\ IsFiniteSet({}) BY FS_EmptySet
<1>6. RefreshCap * 0 = 0 BY <1>1
<1> QED BY <1>1, <1>2, <1>3, <1>4, <1>5, <1>6 DEF Init, RefreshPaid, CrawlPaid, AllCrawls

-----------------------------------------------------------------------------
QuotasInv == TypeOK /\ CrawlInHand /\ Paid /\ Metered

LEMMA InvInit == Init => QuotasInv
<1> SUFFICES ASSUME Init PROVE QuotasInv OBVIOUS
<1>1. Asking = {} BY DEF Init, Asking
<1>2. UnderWay("ask") = 0 BY <1>1, AskingCount, FS_EmptySet DEF Init
<1>3. peak["ask"] = 0 BY PlacesFacts DEF Init
<1> QED
  BY <1>2, <1>3, TypeInit, QuotasAssumption
  DEF Init, Paid, Metered, CrawlInHand, QuotasInv, QuotasAssumption

\* The inductive invariant.
THEOREM QuotasInvariant == Spec => []QuotasInv
<1>1. Init => QuotasInv BY InvInit
<1>2. QuotasInv /\ [Next]_vars => QuotasInv'
  BY TypeStep, CrawlStep, PaidStep, MeteredStep DEF QuotasInv
<1> QED BY <1>1, <1>2, PTL DEF Spec

\* TypeOK holds for any number of requests and sources.
THEOREM QuotasTypeCorrect == Spec => []TypeOK
<1>1. QuotasInv => TypeOK BY DEF QuotasInv
<1> QED BY <1>1, QuotasInvariant, PTL

\* The month's metered rows exceed the quota by at most the overlap seen, less
\* one, and its AI answers by at most that and the rows that were lost.
THEOREM QuotaOverrunIsOverlapHolds == Spec => []QuotaOverrunIsOverlap
<1>1. QuotasInv => QuotaOverrunIsOverlap
  <2> SUFFICES ASSUME QuotasInv PROVE QuotaOverrunIsOverlap OBVIOUS
  <2> USE DEF QuotasInv
  <2>1. UnderWay("ask") = Cardinality(Asking) + tasks /\ Cardinality(Asking) \in Nat
    BY AskingCount
  <2>2. /\ logged \in Nat /\ peak["ask"] \in Nat /\ Limit \in Nat
        /\ tasks \in Nat /\ answered \in Nat /\ lost \in Nat
    BY PlacesFacts, QuotasAssumption DEF TypeOK, QuotasAssumption
  <2>3. logged > 0 \/ answered > 0 => logged + tasks <= Limit - 1 + peak["ask"]
    BY <2>1, <2>2 DEF Paid, Metered
  <2> QED BY <2>2, <2>3 DEF Metered, QuotaOverrunIsOverlap
<1> QED BY <1>1, QuotasInvariant, PTL

\* The hourly caps are overrun by overlap alone: a cap of refresh jobs for
\* each refresh that was under way at once, and one crawl for each crawl.
THEOREM HourlyOverrunIsOverlapHolds == Spec => []HourlyOverrunIsOverlap
<1>1. Init => RefreshPaid /\ CrawlPaid BY HourlyInit
<1>2. ASSUME TypeOK, CrawlInHand, RefreshPaid, CrawlPaid, [Next]_vars
      PROVE  RefreshPaid' /\ CrawlPaid'
  <2>1. TypeOK' BY <1>2, TypeStep
  <2> QED BY <1>2, <2>1, HourlyStep
<1>3. QuotasInv => TypeOK /\ CrawlInHand BY DEF QuotasInv
<1>4. TypeOK /\ RefreshPaid /\ CrawlPaid => HourlyOverrunIsOverlap
  <2> SUFFICES ASSUME TypeOK, RefreshPaid, CrawlPaid PROVE HourlyOverrunIsOverlap OBVIOUS
  <2>1. /\ refreshes \in Nat /\ RefreshCap \in Nat /\ CrawlCap \in Nat
        /\ peak["refresh"] \in Nat /\ peak["crawl"] \in Nat
    BY PlacesFacts, QuotasAssumption DEF TypeOK, QuotasAssumption
  <2>2. RefreshCap * peak["refresh"] \in Nat BY <2>1
  <2>3. RefreshOverrunIsOverlap
    BY <2>1, <2>2, JobsLeftFacts DEF RefreshPaid, RefreshOverrunIsOverlap
  <2>4. AllCrawls \in Nat BY FS_CardinalityType DEF CrawlPaid, AllCrawls
  <2>5. CrawlOverrunIsOverlap
    BY <2>1, <2>4, CrawlingCount DEF CrawlPaid, CrawlOverrunIsOverlap
  <2> QED BY <2>3, <2>5 DEF HourlyOverrunIsOverlap
<1> QED BY <1>1, <1>2, <1>3, <1>4, QuotasInvariant, PTL DEF Spec
=============================================================================

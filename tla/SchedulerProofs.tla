--------------------------- MODULE SchedulerProofs ---------------------------
(***************************************************************************)
(* Theorems about Scheduler, for any number of schedulers, users and days. *)
(* What a loop has enqueued and what it still has on its list always make  *)
(* up the whole plan of the day, and the day cannot change under a loop    *)
(* that is not asleep: that is what makes the mark at the end safe.        *)
(* And, at the end, about the ranking job of Salience that it enqueues     *)
(* every weekday: for any number of dockets, however many share a docket   *)
(* number, and any TOP_N.                                                  *)
(***************************************************************************)
EXTENDS Scheduler, Salience, FiniteSetTheorems, TLAPS

\* ToSet of a list is its head and the ToSet of its tail.
LEMMA HeadAndTail ==
  ASSUME NEW S, NEW l \in Seq(S), l # <<>>
  PROVE  /\ Tail(l) \in Seq(S)
         /\ ToSet(l) = {Head(l)} \cup ToSet(Tail(l))
         /\ Head(l) \in S
<1>1. /\ Len(l) \in Nat \ {0} /\ DOMAIN l = 1 .. Len(l)
      /\ Tail(l) \in Seq(S) /\ Len(Tail(l)) = Len(l) - 1
      /\ DOMAIN Tail(l) = 1 .. Len(Tail(l))
      /\ \A i \in 1 .. Len(Tail(l)) : Tail(l)[i] = l[i + 1]
      /\ Head(l) = l[1] /\ Head(l) \in S
  OBVIOUS
<1>2. ToSet(l) \subseteq {Head(l)} \cup ToSet(Tail(l))
  <2> SUFFICES ASSUME NEW i \in 1 .. Len(l)
               PROVE  l[i] \in {Head(l)} \cup ToSet(Tail(l))
    BY <1>1 DEF ToSet
  <2>1. CASE i = 1
    BY <1>1, <2>1
  <2>2. CASE i # 1
    <3>1. i - 1 \in 1 .. Len(Tail(l)) /\ l[i] = Tail(l)[i - 1]
      BY <1>1, <2>2
    <3> QED
      BY <1>1, <3>1 DEF ToSet
  <2> QED
    BY <2>1, <2>2
<1>3. {Head(l)} \cup ToSet(Tail(l)) \subseteq ToSet(l)
  <2>1. Head(l) \in ToSet(l)
    BY <1>1 DEF ToSet
  <2>2. ASSUME NEW i \in 1 .. Len(Tail(l))
        PROVE  Tail(l)[i] \in ToSet(l)
    <3>1. i + 1 \in 1 .. Len(l)
      BY <1>1
    <3> QED
      BY <1>1, <3>1 DEF ToSet
  <2> QED
    BY <1>1, <2>1, <2>2 DEF ToSet
<1> QED
  BY <1>1, <1>2, <1>3

\* Concatenation is union.
LEMMA Concatenation ==
  ASSUME NEW S, NEW a \in Seq(S), NEW b \in Seq(S)
  PROVE  a \o b \in Seq(S) /\ ToSet(a \o b) = ToSet(a) \cup ToSet(b)
<1> DEFINE ab == a \o b
<1>1. /\ ab \in Seq(S) /\ Len(ab) = Len(a) + Len(b)
      /\ Len(a) \in Nat /\ Len(b) \in Nat
      /\ DOMAIN a = 1 .. Len(a) /\ DOMAIN b = 1 .. Len(b)
      /\ DOMAIN ab = 1 .. Len(a) + Len(b)
      /\ \A i \in 1 .. Len(a) + Len(b) :
           ab[i] = IF i <= Len(a) THEN a[i] ELSE b[i - Len(a)]
  OBVIOUS
<1> HIDE DEF ab
<1>2. ASSUME NEW i \in 1 .. Len(a) + Len(b)
      PROVE  ab[i] \in ToSet(a) \cup ToSet(b)
  <2>1. CASE i <= Len(a)
    <3>1. i \in 1 .. Len(a) /\ ab[i] = a[i]
      BY <1>1, <2>1
    <3> QED
      BY <1>1, <3>1 DEF ToSet
  <2>2. CASE ~(i <= Len(a))
    <3>1. i - Len(a) \in 1 .. Len(b) /\ ab[i] = b[i - Len(a)]
      BY <1>1, <2>2
    <3> QED
      BY <1>1, <3>1 DEF ToSet
  <2> QED
    BY <2>1, <2>2
<1>3. ASSUME NEW i \in 1 .. Len(a)
      PROVE  a[i] \in ToSet(ab)
  <2>1. i \in 1 .. Len(a) + Len(b) /\ ab[i] = a[i]
    BY <1>1
  <2> QED
    BY <1>1, <2>1 DEF ToSet
<1>4. ASSUME NEW i \in 1 .. Len(b)
      PROVE  b[i] \in ToSet(ab)
  <2>1. i + Len(a) \in 1 .. Len(a) + Len(b) /\ ab[i + Len(a)] = b[i]
    BY <1>1
  <2> QED
    BY <1>1, <2>1 DEF ToSet
<1>5. ToSet(ab) = ToSet(a) \cup ToSet(b)
  BY <1>1, <1>2, <1>3, <1>4 DEF ToSet
<1> QED
  BY <1>1, <1>5 DEF ab

-----------------------------------------------------------------------------
LEMMA FourLists ==
  ASSUME NEW S, NEW a \in Seq(S), NEW b \in Seq(S), NEW c \in Seq(S), NEW d \in Seq(S)
  PROVE  /\ a \o b \o c \o d \in Seq(S)
         /\ ToSet(a \o b \o c \o d) = ToSet(a) \cup ToSet(b) \cup ToSet(c) \cup ToSet(d)
<1> DEFINE ab == a \o b
           abc == ab \o c
<1>1. ab \in Seq(S) /\ ToSet(ab) = ToSet(a) \cup ToSet(b)
  BY Concatenation
<1> HIDE DEF ab
<1>2. abc \in Seq(S) /\ ToSet(abc) = ToSet(ab) \cup ToSet(c)
  BY <1>1, Concatenation
<1> HIDE DEF abc
<1>3. abc \o d \in Seq(S) /\ ToSet(abc \o d) = ToSet(abc) \cup ToSet(d)
  BY <1>2, Concatenation
<1> QED
  BY <1>1, <1>2, <1>3 DEF ab, abc

-----------------------------------------------------------------------------
\* The lists the plans are made of.
Names ==
  {"crawl-puct", "crawl-ercot", "crawl-ferc", "crawl-ferc-discovery",
   "crawl-caiso", "crawl-cpuc", "crawl-pjm", "crawl-imm", "crawl-pjm-calendar",
   "crawl-njbpu", "crawl-mdpsc", "crawl-vascc"}

LEMMA Lists ==
  /\ TexasCrawls \in Seq(Names) /\ FercCrawls \in Seq(Names)
  /\ CaisoCrawls \in Seq(Names) /\ PjmCrawls \in Seq(Names)
<1>1. /\ TexasCrawls \in Seq(Names) /\ FercCrawls \in Seq(Names)
      /\ CaisoCrawls \in Seq(Names)
  BY DEF TexasCrawls, FercCrawls, CaisoCrawls, Names
<1>2. PjmCrawls \in Seq(Names)
  BY DEF PjmCrawls, Names
<1> QED
  BY <1>1, <1>2

\* An optional list is the list or empty.
LEMMA OptionalList ==
  ASSUME NEW S, NEW l \in Seq(S), NEW test \in BOOLEAN
  PROVE  /\ If(test, l) \in Seq(S)
         /\ ToSet(If(test, l)) = IF test THEN ToSet(l) ELSE {}
<1>1. <<>> \in Seq(S) /\ ToSet(<<>>) = {}
  BY DEF ToSet
<1> QED
  BY <1>1 DEF If

\* A list is a list of its elements.
LEMMA ListOfElements ==
  ASSUME NEW S, NEW T, NEW l \in Seq(S), ToSet(l) \subseteq T
  PROVE  l \in Seq(T)
<1>1. Len(l) \in Nat /\ l \in [1 .. Len(l) -> S] /\ DOMAIN l = 1 .. Len(l)
  OBVIOUS
<1>2. \A i \in 1 .. Len(l) : l[i] \in T
  BY <1>1 DEF ToSet
<1>3. l \in [1 .. Len(l) -> T]
  BY <1>1, <1>2
<1> QED
  BY <1>1, <1>3

\* The crawl plan of a day is a list of crawl jobs.
LEMMA CrawlPlanJobs == CrawlPlan \in Seq(AllCrawls)
<1> DEFINE ferc  == If(subs # {}, FercCrawls)
           caiso == If("CAISO" \in subs, CaisoCrawls)
           pjm   == If("PJM" \in subs, PjmCrawls)
<1>1. ferc \in Seq(Names) /\ ToSet(ferc) = IF subs # {} THEN ToSet(FercCrawls) ELSE {}
  BY Lists, OptionalList
<1>2. caiso \in Seq(Names) /\ ToSet(caiso) \subseteq ToSet(CaisoCrawls)
  <2>1. ("CAISO" \in subs) \in BOOLEAN
    OBVIOUS
  <2> QED
    BY <2>1, Lists, OptionalList
<1>3. pjm \in Seq(Names) /\ ToSet(pjm) \subseteq ToSet(PjmCrawls)
  <2>1. ("PJM" \in subs) \in BOOLEAN
    OBVIOUS
  <2> QED
    BY <2>1, Lists, OptionalList
<1>4. CrawlPlan = TexasCrawls \o ferc \o caiso \o pjm
  BY DEF CrawlPlan
<1> HIDE DEF ferc, caiso, pjm
<1>5. /\ CrawlPlan \in Seq(Names)
      /\ ToSet(CrawlPlan)
           = ToSet(TexasCrawls) \cup ToSet(ferc) \cup ToSet(caiso) \cup ToSet(pjm)
  <2>1. /\ TexasCrawls \o ferc \o caiso \o pjm \in Seq(Names)
        /\ ToSet(TexasCrawls \o ferc \o caiso \o pjm)
             = ToSet(TexasCrawls) \cup ToSet(ferc) \cup ToSet(caiso) \cup ToSet(pjm)
    <3>1. /\ TexasCrawls \in Seq(Names) /\ ferc \in Seq(Names)
          /\ caiso \in Seq(Names) /\ pjm \in Seq(Names)
      BY <1>1, <1>2, <1>3, Lists
    <3> QED
      BY <3>1, FourLists
  <2> QED
    BY <1>4, <2>1
<1>6. AllCrawls = ToSet(TexasCrawls) \cup ToSet(FercCrawls)
                    \cup ToSet(CaisoCrawls) \cup ToSet(PjmCrawls)
  BY Lists, FourLists DEF AllCrawls
<1>7. ToSet(CrawlPlan) \subseteq AllCrawls
  BY <1>1, <1>2, <1>3, <1>5, <1>6
<1>8. CrawlPlan \in Seq(AllCrawls)
  BY <1>5, <1>7, ListOfElements
<1> QED
  BY <1>8

\* The follow-up plan of a day.
LEMMA FollowUpPlanJobs == FollowUpPlan \in Seq(AllFollowUps)
<1> DEFINE texas == <<"salience-PUCT", "salience-ERCOT">>
           fercs == <<"salience-FERC", "src-extracts-ferc">>
           pjms  == <<"salience-PJM", "src-extracts-vascc", "src-extracts-njbpu">>
           ferc  == If(subs # {}, fercs)
           caiso == If("CAISO" \in subs, <<"salience-CAISO">>)
           pjm   == If("PJM" \in subs, pjms)
<1>1. /\ texas \in Seq(AllFollowUps) /\ fercs \in Seq(AllFollowUps)
      /\ pjms \in Seq(AllFollowUps) /\ <<"salience-CAISO">> \in Seq(AllFollowUps)
  BY DEF AllFollowUps
<1>2. FollowUpPlan = texas \o ferc \o caiso \o pjm
  BY DEF FollowUpPlan
<1> HIDE DEF texas, fercs, pjms
<1>3. ferc \in Seq(AllFollowUps)
  BY <1>1, OptionalList
<1>4. caiso \in Seq(AllFollowUps)
  <2>1. ("CAISO" \in subs) \in BOOLEAN
    OBVIOUS
  <2> QED
    BY <1>1, <2>1, OptionalList
<1>5. pjm \in Seq(AllFollowUps)
  <2>1. ("PJM" \in subs) \in BOOLEAN
    OBVIOUS
  <2> QED
    BY <1>1, <2>1, OptionalList
<1> HIDE DEF ferc, caiso, pjm
<1>6. texas \o ferc \o caiso \o pjm \in Seq(AllFollowUps)
  BY <1>1, <1>3, <1>4, <1>5, FourLists
<1> QED
  BY <1>2, <1>6

\* An order of a set lists its elements.
LEMMA OrdersOfASet ==
  ASSUME NEW S, IsFiniteSet(S), NEW list \in Orders(S)
  PROVE  list \in Seq(S) /\ ToSet(list) = S
<1>1. Cardinality(S) \in Nat
  BY FS_CardinalityType
<1> QED
  BY <1>1 DEF Orders

-----------------------------------------------------------------------------
\* What a scheduler has enqueued and what is left on its list make up the
\* plan of the day.
PlanInProgress ==
  \A s \in Schedulers :
    /\ pc[s] = "crawl" =>
         /\ todo[s] \in Seq(AllCrawls)
         /\ ToSet(CrawlPlan) \subseteq crawls[day] \cup ToSet(todo[s])
    /\ pc[s] = "followUp" => todo[s] \in Seq(AllFollowUps)
    /\ pc[s] = "brief" =>
         /\ todo[s] \in Seq(Users)
         /\ Users = briefs[day] \cup ToSet(todo[s])

Inv == TypeOK /\ PlanInProgress /\ MarksAreEarned

LEMMA ListWidens ==
  ASSUME NEW S, NEW T, S \subseteq T, NEW l \in Seq(S)
  PROVE  l \in Seq(T)
<1>1. Len(l) \in Nat /\ l \in [1 .. Len(l) -> S]
  OBVIOUS
<1>2. l \in [1 .. Len(l) -> T]
  BY <1>1
<1> QED
  BY <1>1, <1>2

\* The types of the history variables.
HistoryOK ==
  /\ promised \subseteq Days /\ raised \subseteq Days
  /\ overlap \subseteq Days \X {"crawl", "brief"}

LEMMA InitInv == Init => Inv
<1> SUFFICES ASSUME Init PROVE Inv
  OBVIOUS
<1>1. TypeOK
  <2>1. <<>> \in Seq(AllCrawls \cup AllFollowUps \cup Users) /\ 1 \in Days /\ 0 \in 0 .. MaxGap /\ "down" \in Places
    BY SchedulerAssumption DEF Days, Places
  <2> QED
    BY <2>1 DEF Init, TypeOK
<1>2. PlanInProgress
  BY DEF Init, PlanInProgress
<1>3. MarksAreEarned
  BY DEF Init, MarksAreEarned
<1> QED
  BY <1>1, <1>2, <1>3 DEF Inv

\* The plans depend on the subscribers alone.
LEMMA PlansStay ==
  ASSUME UNCHANGED subs
  PROVE  CrawlPlan' = CrawlPlan /\ FollowUpPlan' = FollowUpPlan
BY DEF CrawlPlan, FollowUpPlan

\* A scheduler that moves to a place without a list, when nothing else that
\* the plans speak of changes.
LEMMA MoveToRest ==
  ASSUME Inv, NEW s \in Schedulers,
         NEW place \in {"down", "asleep", "checkCrawl", "checkBrief"},
         Move(s, place, <<>>),
         UNCHANGED <<clock, queue>>, UNCHANGED marks,
         starting' \in [Schedulers -> BOOLEAN],
         gap' \in [Schedulers -> 0 .. MaxGap],
         HistoryOK'
  PROVE  Inv'
<1> USE DEF Move, clock, queue, marks, HistoryOK
<1>1. TypeOK'
  <2>1. place \in Places /\ <<>> \in Seq(AllCrawls \cup AllFollowUps \cup Users)
    BY DEF Places
  <2> QED
    BY <2>1 DEF Inv, TypeOK
<1>2. PlanInProgress'
  BY PlansStay DEF Inv, TypeOK, PlanInProgress
<1>3. MarksAreEarned'
  BY PlansStay DEF Inv, MarksAreEarned
<1> QED
  BY <1>1, <1>2, <1>3 DEF Inv

LEMMA NextInv == Inv /\ [Next]_vars => Inv'
<1> SUFFICES ASSUME Inv, [Next]_vars PROVE Inv'
  OBVIOUS
<1> USE SchedulerAssumption DEF history, HistoryOK
<1> DEFINE All == AllCrawls \cup AllFollowUps \cup Users
<1>1. ASSUME NEW s \in Schedulers, Start(s) PROVE Inv'
  <2>1. 0 \in 0 .. MaxGap
    OBVIOUS
  <2> QED
    BY <1>1, <2>1, MoveToRest DEF Start, Inv, TypeOK, marks, queue, clock
<1>2. ASSUME NEW s \in Schedulers, Wake(s) PROVE Inv'
  <2>1. 0 \in 0 .. MaxGap
    OBVIOUS
  <2> QED
    BY <1>2, <2>1, MoveToRest DEF Wake, Inv, TypeOK, marks, queue, clock
<1>3. ASSUME NEW s \in Schedulers, CheckCrawl(s) PROVE Inv'
  <2>1. CASE Weekday /\ Due(s, CrawlAt) /\ Unmarked(crawlDone)
    <3>1. /\ Move(s, "crawl", CrawlPlan)
          /\ HistoryOK' /\ UNCHANGED <<clock, marks, queue, starting, gap>>
      BY <1>3, <2>1 DEF CheckCrawl, Overlap, Inv, TypeOK, HistoryOK
    <3>2. CrawlPlan \in Seq(AllCrawls) /\ CrawlPlan \in Seq(All) /\ "crawl" \in Places
      BY CrawlPlanJobs, ListWidens DEF Places
    <3>3. TypeOK'
      BY <3>1, <3>2 DEF Inv, TypeOK, Move, clock, marks, queue
    <3>4. PlanInProgress'
      BY <3>1, <3>2, PlansStay DEF Inv, TypeOK, PlanInProgress, Move, clock, queue
    <3>5. MarksAreEarned'
      BY <3>1, PlansStay DEF Inv, MarksAreEarned, clock, marks, queue
    <3> QED
      BY <3>3, <3>4, <3>5 DEF Inv
  <2>2. CASE ~(Weekday /\ Due(s, CrawlAt) /\ Unmarked(crawlDone))
    BY <1>3, <2>2, MoveToRest DEF CheckCrawl, Inv, TypeOK, marks, queue, clock
  <2> QED
    BY <2>1, <2>2
<1>4. ASSUME NEW s \in Schedulers, EnqueueCrawl(s) PROVE Inv'
  <2> USE DEF EnqueueCrawl, Move
  <2>1. /\ todo[s] \in Seq(AllCrawls)
        /\ ToSet(CrawlPlan) \subseteq crawls[day] \cup ToSet(todo[s])
    BY <1>4 DEF Inv, PlanInProgress
  <2>2. /\ Tail(todo[s]) \in Seq(AllCrawls) /\ Head(todo[s]) \in AllCrawls
        /\ ToSet(todo[s]) = {Head(todo[s])} \cup ToSet(Tail(todo[s]))
    BY <1>4, <2>1, HeadAndTail
  <2>3. Tail(todo[s]) \in Seq(All)
    BY <2>2, ListWidens
  <2>4. /\ day' = day /\ UNCHANGED subs /\ day \in Days
        /\ crawls' \in [Days -> SUBSET AllCrawls]
        /\ \A d \in Days : crawls[d] \subseteq crawls'[d]
        /\ crawls'[day] = crawls[day] \cup {Head(todo[s])}
    BY <1>4, <2>2 DEF Inv, TypeOK, clock
  <2>5. TypeOK'
    <3>1. late' \subseteq Days \X {"crawl", "brief"}
      BY <1>4 DEF Inv, TypeOK
    <3> QED
      BY <1>4, <2>3, <2>4, <3>1 DEF Inv, TypeOK, clock, marks, Places
  <2>6. PlanInProgress'
    BY <1>4, <2>1, <2>2, <2>4, PlansStay DEF Inv, TypeOK, PlanInProgress
  <2>7. MarksAreEarned'
    BY <1>4, <2>4, PlansStay DEF Inv, MarksAreEarned, marks
  <2> QED
    BY <2>5, <2>6, <2>7 DEF Inv
<1>5. ASSUME NEW s \in Schedulers, MarkCrawl(s) PROVE Inv'
  <2>1. ToSet(<<>>) = {} /\ day \in Days
    BY DEF ToSet, Inv, TypeOK
  <2>2. /\ crawlDone' = crawlDone \cup {day} /\ ToSet(CrawlPlan) \subseteq crawls[day]
        /\ UNCHANGED <<clock, briefDone, queue, starting, gap, history>>
    BY <1>5, <2>1 DEF MarkCrawl, Inv, PlanInProgress
  <2>3. PICK place \in {"checkBrief", "followUp"}, list \in Seq(AllFollowUps) :
          Move(s, place, list)
    <3>1. <<>> \in Seq(AllFollowUps)
      OBVIOUS
    <3> QED
      BY <1>5, <3>1, FollowUpPlanJobs DEF MarkCrawl
  <2>4. TypeOK'
    <3>1. list \in Seq(All) /\ place \in Places
      BY <2>3, ListWidens DEF Places
    <3> QED
      BY <2>1, <2>2, <2>3, <3>1 DEF Inv, TypeOK, Move, clock, queue
  <2>5. PlanInProgress'
    BY <2>2, <2>3, PlansStay DEF Inv, TypeOK, PlanInProgress, Move, clock, queue
  <2>6. MarksAreEarned'
    BY <2>2, PlansStay DEF Inv, MarksAreEarned, clock, queue
  <2> QED
    BY <2>4, <2>5, <2>6 DEF Inv
<1>6. ASSUME NEW s \in Schedulers, EnqueueFollowUp(s) PROVE Inv'
  <2> USE DEF EnqueueFollowUp, Move
  <2>1. todo[s] \in Seq(AllFollowUps)
    BY <1>6 DEF Inv, PlanInProgress
  <2>2. Tail(todo[s]) \in Seq(AllFollowUps) /\ Head(todo[s]) \in AllFollowUps
    BY <1>6, <2>1, HeadAndTail
  <2>3. Tail(todo[s]) \in Seq(All)
    BY <2>2, ListWidens
  <2>4. TypeOK'
    BY <1>6, <2>2, <2>3 DEF Inv, TypeOK, clock, marks, Places
  <2>5. PlanInProgress'
    BY <1>6, <2>2, PlansStay DEF Inv, TypeOK, PlanInProgress, clock
  <2>6. MarksAreEarned'
    BY <1>6, PlansStay DEF Inv, MarksAreEarned, clock, marks
  <2> QED
    BY <2>4, <2>5, <2>6 DEF Inv
<1>7. ASSUME NEW s \in Schedulers, FollowUpsDone(s) PROVE Inv'
  BY <1>7, MoveToRest DEF FollowUpsDone, Inv, TypeOK, marks, queue, clock
<1>8. ASSUME NEW s \in Schedulers, CheckBrief(s) PROVE Inv'
  <2>1. CASE Weekday /\ Due(s, BriefAt) /\ Unmarked(briefDone)
    <3>0. PICK already \in SUBSET briefs[day] : \E list \in Orders(Users \ already) :
            Move(s, "brief", list) /\ UNCHANGED starting
      BY <1>8, <2>1 DEF CheckBrief
    <3>1. PICK list \in Orders(Users \ already) :
            Move(s, "brief", list) /\ UNCHANGED starting
      BY <3>0
    <3>2. day \in Days /\ briefs[day] \subseteq Users
      BY DEF Inv, TypeOK
    <3>3. list \in Seq(Users \ already) /\ ToSet(list) = Users \ already
      BY FS_Subset, OrdersOfASet
    <3>4. list \in Seq(Users) /\ list \in Seq(All) /\ "brief" \in Places
      BY <3>3, ListWidens DEF Places
    <3>5. Users = briefs[day] \cup ToSet(list)
      BY <3>2, <3>3
    <3>6. HistoryOK' /\ UNCHANGED <<clock, marks, queue, gap>>
      <4>1. UNCHANGED <<clock, marks, queue, gap, promised, raised>>
        BY <1>8 DEF CheckBrief
      <4>2. overlap' = Overlap(s, "brief")
        BY <1>8, <2>1 DEF CheckBrief
      <4>3. overlap' \subseteq Days \X {"crawl", "brief"}
        BY <4>2 DEF Overlap, Inv, TypeOK
      <4> QED
        BY <4>1, <4>3 DEF Inv, TypeOK
    <3>7. TypeOK'
      BY <3>1, <3>4, <3>6 DEF Inv, TypeOK, Move, clock, marks, queue
    <3>8. PlanInProgress'
      BY <3>1, <3>4, <3>5, <3>6, PlansStay
         DEF Inv, TypeOK, PlanInProgress, Move, clock, queue
    <3>9. MarksAreEarned'
      BY <3>6, PlansStay DEF Inv, MarksAreEarned, clock, marks, queue
    <3> QED
      BY <3>7, <3>8, <3>9 DEF Inv
  <2>2. CASE ~(Weekday /\ Due(s, BriefAt) /\ Unmarked(briefDone))
    BY <1>8, <2>2, MoveToRest DEF CheckBrief, Inv, TypeOK, marks, queue, clock
  <2> QED
    BY <2>1, <2>2
<1>9. ASSUME NEW s \in Schedulers, EnqueueBrief(s) PROVE Inv'
  <2> USE DEF EnqueueBrief, Move
  <2>1. todo[s] \in Seq(Users) /\ Users = briefs[day] \cup ToSet(todo[s])
    BY <1>9 DEF Inv, PlanInProgress
  <2>2. /\ Tail(todo[s]) \in Seq(Users) /\ Head(todo[s]) \in Users
        /\ ToSet(todo[s]) = {Head(todo[s])} \cup ToSet(Tail(todo[s]))
    BY <1>9, <2>1, HeadAndTail
  <2>3. Tail(todo[s]) \in Seq(All)
    BY <2>2, ListWidens
  <2>4. /\ day' = day /\ UNCHANGED subs /\ day \in Days
        /\ briefs' \in [Days -> SUBSET Users]
        /\ \A d \in Days : briefs[d] \subseteq briefs'[d]
        /\ briefs'[day] = briefs[day] \cup {Head(todo[s])}
    BY <1>9, <2>2 DEF Inv, TypeOK, clock
  <2>5. TypeOK'
    <3>1. late' \subseteq Days \X {"crawl", "brief"}
      BY <1>9 DEF Inv, TypeOK
    <3> QED
      BY <1>9, <2>3, <2>4, <3>1 DEF Inv, TypeOK, clock, marks, Places
  <2>6. PlanInProgress'
    <3>1. ASSUME NEW t \in Schedulers, pc'[t] = "brief"
          PROVE  todo'[t] \in Seq(Users) /\ Users = briefs'[day] \cup ToSet(todo'[t])
      <4>1. CASE t = s
        <5>1. todo'[s] = Tail(todo[s])
          BY <1>9 DEF Inv, TypeOK
        <5> QED
          BY <2>1, <2>2, <2>4, <4>1, <5>1
      <4>2. CASE t # s
        <5>1. /\ todo'[t] = todo[t] /\ todo[t] \in Seq(Users)
              /\ Users = briefs[day] \cup ToSet(todo[t])
          BY <1>9, <3>1, <4>2 DEF Inv, TypeOK, PlanInProgress
        <5> QED
          BY <2>2, <2>4, <5>1
      <4> QED
        BY <4>1, <4>2
    <3>2. ASSUME NEW t \in Schedulers, pc'[t] \in {"crawl", "followUp"}
          PROVE  pc'[t] = pc[t] /\ todo'[t] = todo[t]
      BY <1>9, <3>2 DEF Inv, TypeOK
    <3> QED
      BY <1>9, <2>4, <3>1, <3>2, PlansStay DEF Inv, PlanInProgress
  <2>7. MarksAreEarned'
    BY <1>9, <2>2, <2>4, PlansStay DEF Inv, TypeOK, MarksAreEarned, marks
  <2> QED
    BY <2>5, <2>6, <2>7 DEF Inv
<1>10. ASSUME NEW s \in Schedulers, MarkBrief(s) PROVE Inv'
  <2>1. ToSet(<<>>) = {} /\ day \in Days
    BY DEF ToSet, Inv, TypeOK
  <2>2. /\ briefDone' = briefDone \cup {day} /\ briefs[day] = Users
        /\ Move(s, "asleep", <<>>) /\ starting' = [starting EXCEPT ![s] = FALSE]
        /\ UNCHANGED <<clock, crawlDone, queue, gap, history>>
    BY <1>10, <2>1 DEF MarkBrief, Inv, PlanInProgress
  <2>3. TypeOK'
    <3>1. <<>> \in Seq(All) /\ "asleep" \in Places
      BY DEF Places
    <3> QED
      BY <2>1, <2>2, <3>1 DEF Inv, TypeOK, Move, clock, queue
  <2>4. PlanInProgress'
    BY <2>2, PlansStay DEF Inv, TypeOK, PlanInProgress, Move, clock, queue
  <2>5. MarksAreEarned'
    BY <2>2, PlansStay DEF Inv, MarksAreEarned, clock, queue
  <2> QED
    BY <2>3, <2>4, <2>5 DEF Inv
<1>11. ASSUME NEW s \in Schedulers, Raise(s) PROVE Inv'
  <2>1. PICK place \in {"checkBrief", "asleep"} : Move(s, place, <<>>)
    BY <1>11 DEF Raise
  <2>2. /\ starting' \in [Schedulers -> BOOLEAN] /\ HistoryOK'
        /\ gap' \in [Schedulers -> 0 .. MaxGap]
        /\ UNCHANGED <<clock, queue>> /\ UNCHANGED marks
    BY <1>11 DEF Raise, Inv, TypeOK
  <2> QED
    BY <2>1, <2>2, MoveToRest
<1>12. ASSUME NEW s \in Schedulers, Crash(s) PROVE Inv'
  <2>1. 0 \in 0 .. MaxGap
    OBVIOUS
  <2>2. /\ Move(s, "down", <<>>) /\ UNCHANGED <<clock, queue>> /\ UNCHANGED marks
        /\ starting' \in [Schedulers -> BOOLEAN] /\ HistoryOK'
        /\ gap' \in [Schedulers -> 0 .. MaxGap]
    BY <1>12, <2>1 DEF Crash, Inv, TypeOK
  <2> QED
    BY <2>2, MoveToRest
<1>13. CASE Minute
  <2>1. /\ \A s \in Schedulers : pc[s] \in {"down", "asleep"}
        /\ UNCHANGED <<subs, marks, queue, pc, starting, todo, history>>
    BY <1>13 DEF Minute
  <2>2. TypeOK'
    <3>1. gap' \in [Schedulers -> 0 .. MaxGap]
      <4>1. ASSUME NEW s \in Schedulers
            PROVE  (IF pc[s] = "asleep" THEN gap[s] + 1 ELSE 0) \in 0 .. MaxGap
        <5>1. MaxGap \in Nat /\ gap[s] \in 0 .. MaxGap
          BY DEF Inv, TypeOK
        <5>2. pc[s] = "asleep" => gap[s] < MaxGap
          BY <1>13 DEF Minute
        <5> QED
          BY <5>1, <5>2
      <4> QED
        BY <1>13, <4>1 DEF Minute
    <3>2. day' \in Days /\ minute' \in 0 .. DayLen - 1
      <4>1. day \in 1 .. LastDay /\ minute \in 0 .. DayLen - 1
        BY DEF Inv, TypeOK, Days
      <4> QED
        BY <1>13, <4>1 DEF Minute, Days
    <3> QED
      BY <2>1, <3>1, <3>2 DEF Inv, TypeOK, marks, queue
  <2>3. PlanInProgress'
    BY <2>1 DEF PlanInProgress
  <2>4. MarksAreEarned'
    BY <2>1, PlansStay DEF Inv, MarksAreEarned, marks, queue
  <2> QED
    BY <2>2, <2>3, <2>4 DEF Inv
<1>14. CASE UNCHANGED vars
  <2> USE DEF vars, clock, marks, queue, procs
  <2>1. TypeOK'
    BY <1>14 DEF Inv, TypeOK
  <2>2. PlanInProgress'
    BY <1>14, PlansStay DEF Inv, PlanInProgress
  <2>3. MarksAreEarned'
    BY <1>14, PlansStay DEF Inv, MarksAreEarned
  <2> QED
    BY <2>1, <2>2, <2>3 DEF Inv
<1> QED
  BY <1>1, <1>2, <1>3, <1>4, <1>5, <1>6, <1>7, <1>8, <1>9, <1>10, <1>11,
     <1>12, <1>13, <1>14 DEF Next

-----------------------------------------------------------------------------
\* Every variable of the scheduler keeps its type.
THEOREM SchedulerTypeCorrect == Spec => []TypeOK
<1>1. Inv => TypeOK
  BY DEF Inv
<1> QED
  BY InitInv, NextInv, <1>1, PTL DEF Spec

\* Any number of schedulers, crashing and raising anywhere: a day is marked
\* only when its crawls and its users' briefs are all in the queue.
THEOREM MarksAreEarnedHolds == Spec => []MarksAreEarned
<1>1. Inv => MarksAreEarned
  BY DEF Inv
<1> QED
  BY InitInv, NextInv, <1>1, PTL DEF Spec

-----------------------------------------------------------------------------
\* Two schedulers that are in one part of a day began it at once, and so did one
\* that finds itself in a part another has marked.
TogetherOverlap ==
  \A s, t \in Schedulers : \A part \in {"crawl", "brief"} :
    s # t /\ pc[s] = part /\ pc[t] = part => <<day, part>> \in overlap
LateOverlap ==
  \A s \in Schedulers :
    /\ pc[s] = "crawl" /\ day \in crawlDone => <<day, "crawl">> \in overlap
    /\ pc[s] = "brief" /\ day \in briefDone => <<day, "brief">> \in overlap

OverlapInv == TogetherOverlap /\ LateOverlap /\ NoDoubleFiring

\* A scheduler that leaves its part disturbs none of this.
LEMMA LeavePart ==
  ASSUME TypeOK, OverlapInv, NEW s \in Schedulers, NEW place \in Places \ {"crawl", "brief"},
         pc' = [pc EXCEPT ![s] = place],
         UNCHANGED <<day, crawlDone, briefDone, late, overlap>>
  PROVE  OverlapInv'
<1> USE DEF OverlapInv, TogetherOverlap, LateOverlap, NoDoubleFiring
<1>1. \A t \in Schedulers : pc'[t] = IF t = s THEN place ELSE pc[t]
  BY DEF TypeOK
<1>2. TogetherOverlap'
  BY <1>1
<1>3. LateOverlap'
  BY <1>1
<1> QED
  BY <1>2, <1>3

\* Any number of schedulers, killed and restarted at any step: jobs are
\* enqueued for a marked part of a day only if two schedulers were in it at once.
THEOREM NoDoubleFiringHolds == Spec => []NoDoubleFiring
<1>1. Init => OverlapInv
  BY DEF Init, OverlapInv, TogetherOverlap, LateOverlap, NoDoubleFiring
<1>2. TypeOK /\ OverlapInv /\ [Next]_vars => OverlapInv'
  <2> SUFFICES ASSUME TypeOK, OverlapInv, [Next]_vars
               PROVE  OverlapInv'
    OBVIOUS
  <2> USE DEF OverlapInv, TogetherOverlap, LateOverlap, NoDoubleFiring, TypeOK, Move,
              clock, marks, queue, procs, history
  <2>1. ASSUME NEW s \in Schedulers,
               Start(s) \/ Wake(s) \/ EnqueueFollowUp(s) \/ FollowUpsDone(s)
                 \/ Raise(s) \/ Crash(s)
        PROVE  OverlapInv'
    BY <2>1 DEF Start, Wake, EnqueueFollowUp, FollowUpsDone, Raise, Crash
  <2>2. ASSUME NEW s \in Schedulers, CheckCrawl(s) PROVE OverlapInv'
    <3>1. CASE Weekday /\ Due(s, CrawlAt) /\ Unmarked(crawlDone)
      <4>1. /\ pc' = [pc EXCEPT ![s] = "crawl"] /\ day \notin crawlDone
            /\ UNCHANGED <<day, crawlDone, briefDone, late>>
        BY <2>2, <3>1 DEF CheckCrawl, Unmarked
      <4>2. /\ overlap \subseteq overlap'
            /\ \A t \in Schedulers \ {s} : pc[t] = "crawl" => <<day, "crawl">> \in overlap'
        BY <2>2, <3>1 DEF CheckCrawl, Overlap
      <4>3. \A t \in Schedulers : pc'[t] = IF t = s THEN "crawl" ELSE pc[t]
        BY <4>1
      <4>4. TogetherOverlap'
        BY <4>1, <4>2, <4>3
      <4>5. LateOverlap'
        BY <4>1, <4>2, <4>3
      <4> QED
        BY <4>1, <4>2, <4>4, <4>5
    <3>2. CASE ~(Weekday /\ Due(s, CrawlAt) /\ Unmarked(crawlDone))
      <4>1. /\ pc' = [pc EXCEPT ![s] = "checkBrief"]
            /\ UNCHANGED <<day, crawlDone, briefDone, late, overlap>>
        BY <2>2, <3>2 DEF CheckCrawl
      <4> QED
        BY <4>1, LeavePart DEF Places
    <3> QED
      BY <3>1, <3>2
  <2>3. ASSUME NEW s \in Schedulers, CheckBrief(s) PROVE OverlapInv'
    <3>1. CASE Weekday /\ Due(s, BriefAt) /\ Unmarked(briefDone)
      <4>1. /\ pc' = [pc EXCEPT ![s] = "brief"] /\ day \notin briefDone
            /\ UNCHANGED <<day, crawlDone, briefDone, late>>
        BY <2>3, <3>1 DEF CheckBrief, Unmarked
      <4>2. /\ overlap \subseteq overlap'
            /\ \A t \in Schedulers \ {s} : pc[t] = "brief" => <<day, "brief">> \in overlap'
        BY <2>3, <3>1 DEF CheckBrief, Overlap
      <4>3. \A t \in Schedulers : pc'[t] = IF t = s THEN "brief" ELSE pc[t]
        BY <4>1
      <4>4. TogetherOverlap'
        BY <4>1, <4>2, <4>3
      <4>5. LateOverlap'
        BY <4>1, <4>2, <4>3
      <4> QED
        BY <4>1, <4>2, <4>4, <4>5
    <3>2. CASE ~(Weekday /\ Due(s, BriefAt) /\ Unmarked(briefDone))
      <4>1. /\ pc' = [pc EXCEPT ![s] = "asleep"]
            /\ UNCHANGED <<day, crawlDone, briefDone, late, overlap>>
        BY <2>3, <3>2 DEF CheckBrief
      <4> QED
        BY <4>1, LeavePart DEF Places
    <3> QED
      BY <3>1, <3>2
  <2>4. ASSUME NEW s \in Schedulers, EnqueueCrawl(s) \/ EnqueueBrief(s)
        PROVE  OverlapInv'
    BY <2>4 DEF EnqueueCrawl, EnqueueBrief
  <2>5. ASSUME NEW s \in Schedulers, MarkCrawl(s) PROVE OverlapInv'
    <3>1. PICK place \in {"checkBrief", "followUp"} : pc' = [pc EXCEPT ![s] = place]
      BY <2>5 DEF MarkCrawl
    <3>2. /\ pc[s] = "crawl" /\ crawlDone' = crawlDone \cup {day}
          /\ UNCHANGED <<day, briefDone, late, overlap>>
      BY <2>5 DEF MarkCrawl
    <3>3. \A t \in Schedulers : pc'[t] = IF t = s THEN place ELSE pc[t]
      BY <3>1
    <3>4. TogetherOverlap'
      BY <3>2, <3>3
    <3>5. LateOverlap'
      BY <3>2, <3>3
    <3> QED
      BY <3>2, <3>4, <3>5
  <2>6. ASSUME NEW s \in Schedulers, MarkBrief(s) PROVE OverlapInv'
    <3>1. /\ pc' = [pc EXCEPT ![s] = "asleep"]
          /\ pc[s] = "brief" /\ briefDone' = briefDone \cup {day}
          /\ UNCHANGED <<day, crawlDone, late, overlap>>
      BY <2>6 DEF MarkBrief
    <3>2. \A t \in Schedulers : pc'[t] = IF t = s THEN "asleep" ELSE pc[t]
      BY <3>1
    <3>3. TogetherOverlap'
      BY <3>1, <3>2
    <3>4. LateOverlap'
      BY <3>1, <3>2
    <3> QED
      BY <3>1, <3>3, <3>4
  <2>7. CASE Minute
    BY <2>7 DEF Minute
  <2>8. CASE UNCHANGED vars
    BY <2>8 DEF vars
  <2> QED
    BY <2>1, <2>2, <2>3, <2>4, <2>5, <2>6, <2>7, <2>8 DEF Next
<1>3. OverlapInv => NoDoubleFiring
  BY DEF OverlapInv
<1> QED
  BY <1>1, <1>2, <1>3, SchedulerTypeCorrect, PTL DEF Spec

-----------------------------------------------------------------------------
\* A window that is open has its mark or is still due to a loop that is on its
\* way to it; a loop at rest has seen to all that its last tick found open.
StillDue(at, done) == minute >= at => minute < at + Window \/ day \in done
LoopInTime(s) ==
  /\ pc[s] = "checkCrawl" /\ ~starting[s] => StillDue(CrawlAt, crawlDone)
  /\ pc[s] \in {"checkCrawl", "crawl", "followUp", "checkBrief"} /\ ~starting[s]
       => StillDue(BriefAt, briefDone)
  /\ pc[s] \in {"followUp", "checkBrief", "brief"} /\ minute >= CrawlAt => day \in crawlDone
  /\ pc[s] = "asleep" /\ minute - gap[s] >= CrawlAt => day \in crawlDone
  /\ pc[s] = "asleep" /\ minute - gap[s] >= BriefAt => day \in briefDone
InTime == Weekday /\ day \notin raised => \A s \in Schedulers : LoopInTime(s)

\* A step that leaves the clock and the other loops alone, and takes back no
\* mark, owes an account of its own loop only.
LEMMA OthersInTime ==
  ASSUME TypeOK, InTime, NEW s \in Schedulers, UNCHANGED <<day, minute>>,
         crawlDone \subseteq crawlDone', briefDone \subseteq briefDone',
         raised \subseteq raised',
         \A t \in Schedulers \ {s} :
           pc'[t] = pc[t] /\ starting'[t] = starting[t] /\ gap'[t] = gap[t],
         Weekday /\ day \notin raised' => LoopInTime(s)'
  PROVE  InTime'
<1> SUFFICES ASSUME Weekday', day' \notin raised', NEW t \in Schedulers
             PROVE  LoopInTime(t)'
  BY DEF InTime
<1>1. Weekday /\ day \notin raised /\ day \notin raised' BY DEF Weekday
<1>2. CASE t = s BY <1>1, <1>2
<1>3. CASE t # s
  <2>1. LoopInTime(t) BY <1>1 DEF InTime
  <2> QED BY <1>3, <2>1 DEF LoopInTime, StillDue
<1> QED BY <1>2, <1>3

\* The gap between two ticks is no longer than a window, so that no tick can
\* step over one.
LEMMA WokenInTime ==
  ASSUME TypeOK, NEW s \in Schedulers, pc[s] = "asleep", LoopInTime(s)
  PROVE  StillDue(CrawlAt, crawlDone) /\ StillDue(BriefAt, briefDone)
<1>1. /\ minute \in Int /\ gap[s] \in Int /\ gap[s] <= MaxGap /\ MaxGap <= Window
      /\ MaxGap \in Int /\ Window \in Int /\ CrawlAt \in Int /\ BriefAt \in Int
  BY SchedulerAssumption DEF TypeOK, SchedulerAssumption
<1> QED BY <1>1 DEF LoopInTime, StillDue

LEMMA InTimeStep ==
  ASSUME TypeOK, InTime, [Next]_vars
  PROVE  InTime'
<1> USE DEF Move, clock, marks, queue, procs, history
<1>0. /\ minute \in Int /\ CrawlAt \in Nat /\ BriefAt \in Nat /\ Window \in Nat
      /\ \A s \in Schedulers : gap[s] \in Nat
      /\ pc \in [Schedulers -> Places] /\ starting \in [Schedulers -> BOOLEAN]
      /\ gap \in [Schedulers -> 0 .. MaxGap]
  BY SchedulerAssumption DEF TypeOK, SchedulerAssumption
<1>1. ASSUME NEW s \in Schedulers, Start(s) PROVE InTime'
  <2>1. LoopInTime(s)' BY <1>0, <1>1 DEF Start, LoopInTime, StillDue
  <2> QED BY <1>0, <1>1, <2>1, OthersInTime DEF Start
<1>2. ASSUME NEW s \in Schedulers, Wake(s) PROVE InTime'
  <2>1. ASSUME Weekday, day \notin raised PROVE LoopInTime(s)'
    <3>1. LoopInTime(s) /\ pc[s] = "asleep" BY <1>2, <2>1 DEF InTime, Wake
    <3>2. StillDue(CrawlAt, crawlDone) /\ StillDue(BriefAt, briefDone)
      BY <3>1, WokenInTime
    <3> QED BY <1>0, <1>2, <3>2 DEF Wake, LoopInTime, StillDue
  <2> QED BY <1>0, <1>2, <2>1, OthersInTime DEF Wake
<1>3. ASSUME NEW s \in Schedulers, CheckCrawl(s) PROVE InTime'
  <2>1. ASSUME Weekday, day \notin raised PROVE LoopInTime(s)'
    <3>1. LoopInTime(s) /\ pc[s] = "checkCrawl" BY <1>3, <2>1 DEF InTime, CheckCrawl
    <3>2. CASE Due(s, CrawlAt) /\ Unmarked(crawlDone)
      BY <1>0, <1>3, <2>1, <3>1, <3>2 DEF CheckCrawl, LoopInTime, StillDue
    <3>3. CASE ~(Due(s, CrawlAt) /\ Unmarked(crawlDone))
      <4>1. minute >= CrawlAt => day \in crawlDone
        BY <1>0, <3>1, <3>3 DEF LoopInTime, StillDue, Due, Unmarked
      <4> QED BY <1>0, <1>3, <2>1, <3>1, <3>3, <4>1 DEF CheckCrawl, LoopInTime, StillDue
    <3> QED BY <3>2, <3>3
  <2>2. UNCHANGED <<day, minute, crawlDone, briefDone, raised, starting, gap>>
        /\ \A t \in Schedulers \ {s} : pc'[t] = pc[t]
    BY <1>0, <1>3 DEF CheckCrawl
  <2> QED BY <2>1, <2>2, OthersInTime
<1>4. ASSUME NEW s \in Schedulers,
             EnqueueCrawl(s) \/ EnqueueFollowUp(s) \/ EnqueueBrief(s)
      PROVE  InTime'
  <2>1. UNCHANGED <<day, minute, crawlDone, briefDone, raised, starting, gap, pc>>
    BY <1>0, <1>4 DEF EnqueueCrawl, EnqueueFollowUp, EnqueueBrief
  <2> QED BY <2>1 DEF InTime, Weekday, LoopInTime, StillDue
<1>5. ASSUME NEW s \in Schedulers, MarkCrawl(s) PROVE InTime'
  <2>1. ASSUME Weekday, day \notin raised PROVE LoopInTime(s)'
    <3>1. LoopInTime(s) /\ pc[s] = "crawl" BY <1>5, <2>1 DEF InTime, MarkCrawl
    <3> QED BY <1>0, <1>5, <3>1 DEF MarkCrawl, LoopInTime, StillDue
  <2>2. UNCHANGED <<day, minute, briefDone, raised, starting, gap>>
        /\ crawlDone \subseteq crawlDone'
        /\ \A t \in Schedulers \ {s} : pc'[t] = pc[t]
    BY <1>0, <1>5 DEF MarkCrawl
  <2> QED BY <2>1, <2>2, OthersInTime
<1>6. ASSUME NEW s \in Schedulers, FollowUpsDone(s) PROVE InTime'
  <2>1. ASSUME Weekday, day \notin raised PROVE LoopInTime(s)'
    <3>1. LoopInTime(s) /\ pc[s] = "followUp" BY <1>6, <2>1 DEF InTime, FollowUpsDone
    <3> QED BY <1>0, <1>6, <3>1 DEF FollowUpsDone, LoopInTime, StillDue
  <2> QED BY <1>0, <1>6, <2>1, OthersInTime DEF FollowUpsDone
<1>7. ASSUME NEW s \in Schedulers, CheckBrief(s) PROVE InTime'
  <2>0. UNCHANGED <<day, minute, crawlDone, briefDone, raised, gap>>
    BY <1>7 DEF CheckBrief
  <2>1. CASE Weekday /\ Due(s, BriefAt) /\ Unmarked(briefDone)
    <3>1. pc' = [pc EXCEPT ![s] = "brief"] /\ UNCHANGED starting
      BY <1>7, <2>1 DEF CheckBrief
    <3>2. ASSUME day \notin raised PROVE LoopInTime(s)'
      <4>1. LoopInTime(s) /\ pc[s] = "checkBrief"
        BY <1>7, <2>1, <3>2 DEF InTime, CheckBrief
      <4> QED BY <1>0, <2>0, <3>1, <4>1 DEF LoopInTime, StillDue
    <3> QED BY <1>0, <2>0, <3>1, <3>2, OthersInTime
  <2>2. CASE ~(Weekday /\ Due(s, BriefAt) /\ Unmarked(briefDone))
    <3>1. pc' = [pc EXCEPT ![s] = "asleep"] /\ starting' = [starting EXCEPT ![s] = FALSE]
      BY <1>7, <2>2 DEF CheckBrief
    <3>2. ASSUME Weekday, day \notin raised PROVE LoopInTime(s)'
      <4>1. LoopInTime(s) /\ pc[s] = "checkBrief" BY <1>7, <3>2 DEF InTime, CheckBrief
      <4>2. minute >= BriefAt => day \in briefDone
        BY <1>0, <2>2, <3>2, <4>1 DEF LoopInTime, StillDue, Due, Unmarked
      <4>3. minute >= CrawlAt => day \in crawlDone BY <4>1 DEF LoopInTime
      <4> QED BY <1>0, <2>0, <3>1, <4>2, <4>3 DEF LoopInTime, StillDue
    <3> QED BY <1>0, <2>0, <3>1, <3>2, OthersInTime
  <2> QED BY <2>1, <2>2
<1>8. ASSUME NEW s \in Schedulers, MarkBrief(s) PROVE InTime'
  <2>1. ASSUME Weekday, day \notin raised PROVE LoopInTime(s)'
    <3>1. LoopInTime(s) /\ pc[s] = "brief" BY <1>8, <2>1 DEF InTime, MarkBrief
    <3> QED BY <1>0, <1>8, <3>1 DEF MarkBrief, LoopInTime, StillDue
  <2>2. UNCHANGED <<day, minute, crawlDone, raised, gap>> /\ briefDone \subseteq briefDone'
        /\ \A t \in Schedulers \ {s} : pc'[t] = pc[t] /\ starting'[t] = starting[t]
    BY <1>0, <1>8 DEF MarkBrief
  <2> QED BY <2>1, <2>2, OthersInTime
<1>9. ASSUME NEW s \in Schedulers, Raise(s) PROVE InTime'
  BY <1>9 DEF Raise, InTime
<1>10. ASSUME NEW s \in Schedulers, Crash(s) PROVE InTime'
  <2>1. LoopInTime(s)' BY <1>0, <1>10 DEF Crash, LoopInTime
  <2> QED BY <1>0, <1>10, <2>1, OthersInTime DEF Crash
<1>11. CASE Minute
  <2>1. UNCHANGED <<crawlDone, briefDone, raised, pc, starting>>
    BY <1>11 DEF Minute
  <2> SUFFICES ASSUME Weekday', day' \notin raised', NEW s \in Schedulers
               PROVE  LoopInTime(s)'
    BY DEF InTime
  <2>2. CASE pc[s] = "down" BY <2>1, <2>2 DEF LoopInTime
  <2>3. CASE pc[s] = "asleep"
    <3>1. gap'[s] = gap[s] + 1 BY <1>11, <2>3 DEF Minute
    <3>2. CASE day' = day /\ minute' = minute + 1
      <4>1. LoopInTime(s) BY <2>1, <3>2 DEF InTime, Weekday
      <4>2. minute' - gap'[s] = minute - gap[s] BY <1>0, <3>1, <3>2
      <4> QED BY <2>1, <2>3, <3>2, <4>1, <4>2 DEF LoopInTime
    <3>3. CASE minute' = 0
      <4>1. minute' - gap'[s] < 0 BY <1>0, <3>1, <3>3
      <4> QED BY <1>0, <2>1, <2>3, <3>1, <3>3, <4>1 DEF LoopInTime
    <3> QED BY <1>11, <3>2, <3>3 DEF Minute
  <2> QED BY <1>11, <2>2, <2>3 DEF Minute
<1>12. CASE UNCHANGED vars
  BY <1>12 DEF vars, InTime, Weekday, LoopInTime, StillDue
<1> QED
  BY <1>1, <1>2, <1>3, <1>4, <1>5, <1>6, <1>7, <1>8, <1>9, <1>10, <1>11, <1>12 DEF Next

\* Any calendar, any number of loops killed and restarted at any minute: a
\* weekday without an exception has both its windows served by the last minute.
THEOREM NoWeekdayMissedHolds == Spec => []NoWeekdayMissed
<1>1. Init => InTime
  BY DEF Init, InTime, LoopInTime
<1>2. TypeOK /\ InTime /\ [Next]_vars => InTime' BY InTimeStep
<1>3. TypeOK /\ InTime => NoWeekdayMissed
  <2> SUFFICES ASSUME TypeOK, InTime, NEW s \in Schedulers, pc[s] = "asleep", gap[s] = 0,
                      minute = DayLen - 1, Weekday, day \notin raised
               PROVE  Served(day)
    BY DEF NoWeekdayMissed
  <2>1. minute - gap[s] >= CrawlAt /\ minute - gap[s] >= BriefAt
    BY SchedulerAssumption DEF SchedulerAssumption
  <2>2. LoopInTime(s) BY DEF InTime
  <2> QED BY <2>1, <2>2 DEF LoopInTime, Served
<1> QED BY <1>1, <1>2, <1>3, SchedulerTypeCorrect, PTL DEF Spec

-----------------------------------------------------------------------------
(* The ranking job: the table is always one whole ranking, and a clean job  *)
(* leaves no headline missing.                                              *)

\* The table shows the n dockets of r in their order and nothing below: no
\* longer than a ranking of today would be, nor than the one in hand.
Shows(n, r) ==
  /\ \A i, j \in 1 .. n : i # j => r[i] # r[j]
  /\ n <= Cardinality(eligible)
  /\ stage # "idle" => n <= Cardinality(Ranked)
  /\ \A i \in Ranks : docket[i] = IF i \in 1 .. n THEN KeyOf[r[i]] ELSE None

OneRanking == \E n \in 0 .. TopN : \E r \in [1 .. n -> Dockets] : Shows(n, r)

\* The ranking in hand is of distinct dockets, and is gone with the job.
InHand ==
  /\ stage = "idle" => entries = <<>>
  /\ Cardinality(Ranked) <= Cardinality(eligible)
  /\ \A i, j \in Ranked : i # j => entries[i] # entries[j]

SalienceInv == SalienceTypeOK /\ OneRanking /\ InHand /\ NoneMissingAfterSuccess

-----------------------------------------------------------------------------
LEMMA Constants ==
  /\ TopN \in Nat \ {0} /\ IsFiniteSet(Dockets) /\ \A d \in Dockets : KeyOf[d] # None
  /\ 1 \in Ranks /\ 1 \in 1 .. TopN + 1 /\ Ranks \subseteq Nat
BY SalienceAssumption DEF Ranks

LEMMA DocketSets ==
  ASSUME NEW S, S \subseteq Dockets
  PROVE  IsFiniteSet(S) /\ Cardinality(S) \in Nat /\ (S # {} => Cardinality(S) # 0)
BY Constants, FS_Subset, FS_CardinalityType, FS_EmptySet

LEMMA Counting == ASSUME NEW n \in Nat PROVE Cardinality(1 .. n) = n
<1>1. 1 \in Int /\ n \in Int OBVIOUS
<1> QED BY <1>1, FS_Interval

LEMMA EntryFacts ==
  ASSUME SalienceTypeOK
  PROVE  /\ Cardinality(Ranked) \in 0 .. TopN /\ Ranked = 1 .. Cardinality(Ranked)
         /\ Ranked \subseteq Ranks /\ entries \in [Ranked -> Dockets]
         /\ \A i \in Ranked : KeyAt(i) \in KeyOrNone /\ KeyAt(i) # None
<1>1. PICK n \in 0 .. TopN : entries \in [1 .. n -> Dockets] BY DEF SalienceTypeOK
<1>2. n \in Nat /\ Ranked = 1 .. n BY <1>1, Constants DEF Ranked
<1>3. Cardinality(Ranked) = n BY <1>2, Counting
<1>4. Ranked \subseteq Ranks BY <1>1, <1>2, Constants DEF Ranks
<1>5. \A i \in Ranked : KeyAt(i) \in KeyOrNone /\ KeyAt(i) # None
  BY <1>1, <1>2, Constants DEF KeyAt, KeyOrNone
<1> QED BY <1>1, <1>2, <1>3, <1>4, <1>5

\* A ranking is as long as the eligible dockets and TOP_N allow.
LEMMA LengthFacts ==
  ASSUME SalienceTypeOK
  PROVE  /\ Length \in 0 .. TopN /\ Length <= Cardinality(eligible)
         /\ Cardinality(eligible) \in Nat
         /\ \A n \in 0 .. TopN : n <= Cardinality(eligible) => n <= Length
<1>1. Cardinality(eligible) \in Nat BY DocketSets DEF SalienceTypeOK
<1> QED BY <1>1, Constants DEF Length

LEMMA JoinedFacts ==
  ASSUME SalienceTypeOK, NEW d \in Dockets, Crawled(d)
  PROVE  eligible' \subseteq Dockets /\ Cardinality(eligible) <= Cardinality(eligible')
         /\ Cardinality(eligible) \in Nat /\ Cardinality(eligible') \in Nat
<1>1. eligible' \subseteq Dockets /\ eligible \subseteq eligible' BY DEF Crawled, SalienceTypeOK
<1>2. IsFiniteSet(eligible') BY <1>1, DocketSets
<1> QED BY <1>1, <1>2, FS_Subset, DocketSets

-----------------------------------------------------------------------------
LEMMA LeaveTypes ==
  ASSUME NEW result \in {"none", "silent", "written", "partial", "died"}, Leave(result)
  PROVE  /\ \E n \in 0 .. TopN : entries' \in [1 .. n -> Dockets]
         /\ stage' = "idle" /\ Ranked' = {}
         /\ next' \in 1 .. TopN + 1 /\ drafts' \in [Ranks -> KeyOrNone]
         /\ outcome' \in {"none", "silent", "written", "partial", "died"}
<1>1. <<>> \in Seq(Dockets) /\ Len(<<>>) = 0 OBVIOUS
<1>2. <<>> \in [1 .. 0 -> Dockets] /\ DOMAIN <<>> = {} BY <1>1
<1>3. 0 \in 0 .. TopN BY Constants
<1> QED BY <1>2, <1>3, Constants DEF Leave, Ranked, NoRow, KeyOrNone

LEMMA SalienceTypeStep ==
  ASSUME SalienceTypeOK, [SalienceNext]_salience
  PROVE  SalienceTypeOK'
<1>1. ASSUME NEW d \in Dockets, Crawled(d) PROVE SalienceTypeOK'
  BY <1>1 DEF Crawled, table, local, SalienceTypeOK
<1>2. CASE Rank
  <2>1. CASE eligible = {} BY <1>2, <2>1 DEF Rank, table, SalienceTypeOK
  <2>2. CASE eligible # {}
    <3>1. entries' \in [1 .. Length -> eligible] BY <1>2, <2>2 DEF Rank, Rankings
    <3>2. entries' \in [1 .. Length -> Dockets] /\ Length \in 0 .. TopN
      BY <3>1, LengthFacts DEF SalienceTypeOK
    <3> QED BY <1>2, <2>2, <3>2 DEF Rank, table, SalienceTypeOK
  <2> QED BY <2>1, <2>2
<1>3. CASE Upsert
  <2>1. docket' \in [Ranks -> KeyOrNone] BY <1>3, EntryFacts DEF Upsert, SalienceTypeOK
  <2> QED BY <1>3, <2>1 DEF Upsert, SalienceTypeOK
<1>4. CASE Skip
  <2>1. Leave("silent") /\ UNCHANGED <<eligible, table>> BY <1>4 DEF Skip
  <2> QED BY <2>1, LeaveTypes DEF table, SalienceTypeOK
<1>5. CASE Compare BY <1>5 DEF Compare, table, SalienceTypeOK
<1>6. CASE Write
  <2>1. next \in Ranks /\ KeyAt(next) \in KeyOrNone BY <1>6, EntryFacts DEF Write
  <2>2. next' \in 1 .. TopN + 1 BY <1>6, <2>1, Constants DEF Write, Ranks
  <2>3. drafts' \in [Ranks -> KeyOrNone] BY <1>6, <2>1 DEF Write, SalienceTypeOK
  <2> QED BY <1>6, <2>2, <2>3 DEF Write, table, SalienceTypeOK
<1>7. CASE UpdateFails
  <2>1. next' \in 1 .. TopN + 1 BY <1>7, EntryFacts, Constants DEF UpdateFails
  <2>2. drafts' \in [Ranks -> KeyOrNone] BY <1>7 DEF UpdateFails, NoRow, KeyOrNone
  <2> QED BY <1>7, <2>1, <2>2 DEF UpdateFails, table, SalienceTypeOK
<1>8. CASE Commit
  <2>1. PICK result \in {"written", "partial"} : Leave(result) BY <1>8 DEF Commit
  <2>2. headline' \in [Ranks -> KeyOrNone] BY <1>8 DEF Commit, SalienceTypeOK
  <2> QED BY <1>8, <2>1, <2>2, LeaveTypes DEF Commit, SalienceTypeOK
<1>9. CASE Die
  <2>1. Leave("died") /\ UNCHANGED <<eligible, table>> BY <1>9 DEF Die
  <2> QED BY <2>1, LeaveTypes DEF table, SalienceTypeOK
<1>10. CASE UNCHANGED salience BY <1>10 DEF salience, table, local, SalienceTypeOK
<1> QED BY <1>1, <1>2, <1>3, <1>4, <1>5, <1>6, <1>7, <1>8, <1>9, <1>10 DEF SalienceNext

-----------------------------------------------------------------------------
(* The table is one ranking *)

\* A ranking shown stays shown while the table stands, dockets only join and
\* the ranking in hand is kept or dropped.
LEMMA StillShown ==
  ASSUME SalienceTypeOK, OneRanking, docket' = docket,
         Cardinality(eligible') >= Cardinality(eligible),
         Cardinality(eligible') \in Nat,
         stage' = "idle" \/ (stage # "idle" /\ entries' = entries)
  PROVE  OneRanking'
<1>1. PICK n \in 0 .. TopN : \E r \in [1 .. n -> Dockets] : Shows(n, r) BY DEF OneRanking
<1>2. PICK r \in [1 .. n -> Dockets] : Shows(n, r) BY <1>1
<1>3. n <= Cardinality(eligible')
  <2>1. Cardinality(eligible) \in Nat BY LengthFacts
  <2> QED BY <1>2, <2>1, Constants DEF Shows
<1>4. stage' # "idle" => n <= Cardinality(Ranked') BY <1>2 DEF Shows, Ranked
<1>5. Shows(n, r)' BY <1>2, <1>3, <1>4 DEF Shows, Ranked
<1> QED BY <1>5 DEF OneRanking

LEMMA RankKeeps ==
  ASSUME SalienceTypeOK, OneRanking, InHand, Rank
  PROVE  OneRanking' /\ InHand'
<1>0. stage = "idle" /\ eligible' = eligible /\ docket' = docket BY DEF Rank, table
<1>1. CASE eligible = {}
  <2>1. stage' = stage /\ entries' = entries BY <1>1 DEF Rank
  <2>2. OneRanking' BY <1>0, <2>1, StillShown, LengthFacts
  <2> QED BY <1>0, <2>1, <2>2 DEF InHand, Ranked
<1>2. CASE eligible # {}
  <2> DEFINE k == Length
  <2>1. /\ stage' = "ranked" /\ entries' \in [1 .. k -> eligible]
        /\ \A i, j \in 1 .. k : i # j => entries'[i] # entries'[j]
    BY <1>2 DEF Rank, Rankings
  <2>2. /\ k \in 0 .. TopN /\ k <= Cardinality(eligible)
        /\ \A n \in 0 .. TopN : n <= Cardinality(eligible) => n <= k
    BY LengthFacts
  <2>3. k \in Nat BY <2>2, Constants
  <2> HIDE DEF k
  <2>4. Ranked' = 1 .. k /\ Cardinality(Ranked') = k BY <2>1, <2>3, Counting DEF Ranked
  <2>5. InHand' BY <1>0, <2>1, <2>2, <2>4 DEF InHand
  <2>6. PICK n \in 0 .. TopN : \E r \in [1 .. n -> Dockets] : Shows(n, r) BY DEF OneRanking
  <2>7. PICK r \in [1 .. n -> Dockets] : Shows(n, r) BY <2>6
  <2>8. n <= k BY <2>2, <2>7 DEF Shows
  <2>9. Shows(n, r)' BY <1>0, <2>4, <2>7, <2>8 DEF Shows
  <2> QED BY <2>5, <2>9 DEF OneRanking
<1> QED BY <1>1, <1>2

\* The upsert replaces the ranking shown: none of its rows stays below.
LEMMA UpsertKeeps ==
  ASSUME SalienceTypeOK, OneRanking, InHand, Upsert
  PROVE  OneRanking'
<1> DEFINE k == Cardinality(Ranked)
<1>1. k \in 0 .. TopN /\ Ranked = 1 .. k /\ entries \in [Ranked -> Dockets] BY EntryFacts
<1>2. PICK n \in 0 .. TopN : \E r \in [1 .. n -> Dockets] : Shows(n, r) BY DEF OneRanking
<1>3. PICK r \in [1 .. n -> Dockets] : Shows(n, r) BY <1>2
<1>4. n <= k BY <1>3 DEF Shows, Upsert
<1>5. /\ stage' = "upserted" /\ eligible' = eligible /\ entries' = entries
      /\ \A i \in Ranks : docket'[i] = IF i \in Ranked THEN KeyAt(i) ELSE docket[i]
  BY DEF Upsert
<1>6. Ranked' = Ranked BY <1>5 DEF Ranked
<1>7. \A i \in Ranks : i \notin 1 .. k => docket[i] = None
  <2> HIDE DEF k
  <2>1. k \in Int /\ n \in Int BY <1>1
  <2>2. \A i \in 1 .. n : i \in 1 .. k BY <1>4, <2>1
  <2> QED BY <1>3, <2>2 DEF Shows
<1>8. \A i \in Ranks : docket'[i] = IF i \in 1 .. k THEN KeyOf[entries[i]] ELSE None
  BY <1>1, <1>5, <1>7 DEF KeyAt
<1>9. PICK m \in 0 .. TopN : m = k BY <1>1
<1>10. PICK e \in [1 .. m -> Dockets] : e = entries BY <1>1, <1>9
<1>11. Shows(m, e)' BY <1>1, <1>5, <1>6, <1>8, <1>9, <1>10 DEF Shows, InHand
<1> QED BY <1>11 DEF OneRanking

\* A clean job has found every shown rank's headline, or written it.
LEMMA HeadlinesKeep ==
  ASSUME SalienceInv, Skip \/ Commit, OneRanking'
  PROVE  NoneMissingAfterSuccess'
<1>0. SalienceTypeOK /\ OneRanking BY DEF SalienceInv
<1>1. docket' = docket /\ stage # "idle" BY DEF Skip, Commit, table
<1>2. \A i \in Ranks : docket[i] # None => i \in Ranked
  <2>1. PICK n \in 0 .. TopN : \E r \in [1 .. n -> Dockets] : Shows(n, r)
    BY <1>0 DEF OneRanking
  <2>2. PICK r \in [1 .. n -> Dockets] : Shows(n, r) BY <2>1
  <2>3. n <= Cardinality(Ranked) BY <1>1, <2>2 DEF Shows
  <2>4. Cardinality(Ranked) \in 0 .. TopN /\ Ranked = 1 .. Cardinality(Ranked)
    BY <1>0, EntryFacts
  <2> DEFINE k == Cardinality(Ranked)
  <2> HIDE DEF k
  <2>5. k \in Int /\ n \in Int /\ n <= k /\ Ranked = 1 .. k BY <2>3, <2>4 DEF k
  <2>6. \A i \in 1 .. n : i \in 1 .. k BY <2>5
  <2> QED BY <2>2, <2>5, <2>6 DEF Shows
<1>3. CASE Skip
  <2>1. headline' = headline /\ \A i \in Ranked : headline[i] # None
    BY <1>3 DEF Skip, table, Missing
  <2> QED BY <1>1, <1>2, <2>1 DEF NoneMissingAfterSuccess
<1>4. CASE Commit
  <2>1. outcome' \in {"silent", "written"} => \A i \in Ranked : drafts[i] # None
    BY <1>4 DEF Commit, Leave
  <2>2. \A i \in Ranks : headline'[i] = IF drafts[i] # None THEN drafts[i] ELSE headline[i]
    BY <1>4 DEF Commit
  <2> QED BY <1>1, <1>2, <2>1, <2>2 DEF NoneMissingAfterSuccess
<1> QED BY <1>3, <1>4

-----------------------------------------------------------------------------
LEMMA SalienceInvInit == SalienceInit => SalienceInv
<1> SUFFICES ASSUME SalienceInit PROVE SalienceInv OBVIOUS
<1>1. <<>> \in Seq(Dockets) /\ Len(<<>>) = 0 OBVIOUS
<1>2. <<>> \in [1 .. 0 -> Dockets] /\ DOMAIN <<>> = {} BY <1>1
<1>3. 0 \in 0 .. TopN /\ None \in KeyOrNone BY Constants DEF KeyOrNone
<1>4. Ranked = {} /\ Cardinality({}) = 0 BY <1>2, FS_EmptySet DEF SalienceInit, Ranked
<1>5. SalienceTypeOK BY <1>2, <1>3, Constants DEF SalienceInit, NoRow, SalienceTypeOK
<1>6. Shows(0, <<>>) BY <1>4, Constants DEF SalienceInit, NoRow, Shows
<1>7. OneRanking BY <1>2, <1>3, <1>6 DEF OneRanking
<1>8. InHand BY <1>4 DEF SalienceInit, InHand
<1> QED BY <1>5, <1>7, <1>8 DEF SalienceInv, NoneMissingAfterSuccess, SalienceInit

LEMMA SalienceInvStep ==
  ASSUME SalienceInv, [SalienceNext]_salience
  PROVE  SalienceInv'
<1>0. SalienceTypeOK /\ OneRanking /\ InHand /\ NoneMissingAfterSuccess /\ SalienceTypeOK'
  BY SalienceTypeStep DEF SalienceInv
<1>1. ASSUME OneRanking', InHand', NoneMissingAfterSuccess' PROVE SalienceInv'
  BY <1>0, <1>1 DEF SalienceInv
<1>2. Cardinality(eligible) \in Nat BY <1>0, LengthFacts
<1>3. ASSUME NEW d \in Dockets, Crawled(d) PROVE SalienceInv'
  <2>1. Cardinality(eligible') >= Cardinality(eligible) /\ Cardinality(eligible') \in Nat
    BY <1>0, <1>3, JoinedFacts
  <2>2. UNCHANGED <<docket, headline, stage, entries, outcome>>
    BY <1>3 DEF Crawled, table, local
  <2>3. Cardinality(Ranked) \in Nat BY <1>0, EntryFacts
  <2>4. OneRanking' BY <1>0, <2>1, <2>2, StillShown
  <2>5. InHand' BY <1>0, <1>2, <2>1, <2>2, <2>3 DEF InHand, Ranked
  <2> QED BY <1>0, <1>1, <2>2, <2>4, <2>5 DEF NoneMissingAfterSuccess
<1>4. CASE Rank
  <2>1. OneRanking' /\ InHand' BY <1>0, <1>4, RankKeeps
  <2>2. NoneMissingAfterSuccess'
    <3>1. CASE eligible = {}
      <4>1. PICK n \in 0 .. TopN : \E r \in [1 .. n -> Dockets] : Shows(n, r)
        BY <1>0 DEF OneRanking
      <4>2. PICK r \in [1 .. n -> Dockets] : Shows(n, r) BY <4>1
      <4>3. n <= 0 BY <3>1, <4>2, FS_EmptySet DEF Shows
      <4>4. \A i \in Ranks : docket[i] = None BY <4>2, <4>3, Constants DEF Shows
      <4> QED BY <1>4, <4>4 DEF Rank, table, NoneMissingAfterSuccess
    <3>2. CASE eligible # {} BY <1>4, <3>2 DEF Rank, NoneMissingAfterSuccess
    <3> QED BY <3>1, <3>2
  <2> QED BY <1>1, <2>1, <2>2
<1>5. CASE Upsert
  <2>1. OneRanking' BY <1>0, <1>5, UpsertKeeps
  <2>2. InHand' BY <1>0, <1>5 DEF Upsert, InHand, Ranked
  <2>3. NoneMissingAfterSuccess' BY <1>5, Constants DEF Upsert, NoneMissingAfterSuccess
  <2> QED BY <1>1, <2>1, <2>2, <2>3
<1>6. CASE Skip \/ Commit \/ Die
  <2>1. /\ stage' = "idle" /\ entries' = <<>> /\ eligible' = eligible /\ docket' = docket
    BY <1>6 DEF Skip, Commit, Die, Leave, table
  <2>2. OneRanking' BY <1>0, <1>2, <2>1, StillShown
  <2>3. DOMAIN <<>> = {}
    <3>1. DOMAIN <<>> = 1 .. Len(<<>>) /\ Len(<<>>) = 0 OBVIOUS
    <3> QED BY <3>1
  <2>4. Ranked' = {} BY <2>1, <2>3 DEF Ranked
  <2>5. InHand' BY <1>2, <2>1, <2>4, FS_EmptySet DEF InHand
  <2>6. Die => NoneMissingAfterSuccess' BY DEF Die, Leave, NoneMissingAfterSuccess
  <2>7. Skip \/ Commit => NoneMissingAfterSuccess' BY <2>2, HeadlinesKeep
  <2> QED BY <1>1, <1>6, <2>2, <2>5, <2>6, <2>7
<1>7. CASE Compare \/ Write \/ UpdateFails
  <2>1. /\ stage # "idle" /\ stage' # "idle" /\ UNCHANGED <<eligible, table, entries>>
    BY <1>7 DEF Compare, Write, UpdateFails
  <2>2. OneRanking' BY <1>0, <1>2, <2>1, StillShown DEF table
  <2>3. InHand' BY <1>0, <2>1 DEF InHand, Ranked
  <2>4. NoneMissingAfterSuccess' BY <2>1, Constants DEF NoneMissingAfterSuccess
  <2> QED BY <1>1, <2>2, <2>3, <2>4
<1>8. CASE UNCHANGED salience
  <2>1. UNCHANGED <<eligible, docket, headline, stage, entries, outcome>>
    BY <1>8 DEF salience, table, local
  <2>2. OneRanking' BY <1>0, <2>1 DEF OneRanking, Shows, Ranked
  <2>3. InHand' BY <1>0, <2>1 DEF InHand, Ranked
  <2> QED BY <1>0, <1>1, <2>1, <2>2, <2>3 DEF NoneMissingAfterSuccess
<1> QED BY <1>3, <1>4, <1>5, <1>6, <1>7, <1>8 DEF SalienceNext

LEMMA SalienceInvHolds == SalienceSpec => []SalienceInv
<1>1. SalienceInv /\ [SalienceNext]_salience => SalienceInv' BY SalienceInvStep
<1> QED BY <1>1, SalienceInvInit, PTL DEF SalienceSpec

\* Every variable keeps its type: a ranking has TOP_N entries at most and the
\* headline loop stays within it.
THEOREM SalienceTypeCorrect == SalienceSpec => []SalienceTypeOK
<1>1. SalienceInv => SalienceTypeOK BY DEF SalienceInv
<1> QED BY <1>1, SalienceInvHolds, PTL

\* The table never shows a docket number more often than there are dockets of
\* it, nor leaves a hole, whatever dies between two rankings: one transaction
\* writes a whole ranking, and a later one is never shorter.
THEOREM OneRowPerDocketHolds == SalienceSpec => []OneRowPerDocket
<1>1. ASSUME SalienceInv, NEW q \in Ranks, docket[q] # None
      PROVE  /\ Cardinality({i \in Ranks : docket[i] = docket[q]})
                  <= Cardinality({d \in Dockets : KeyOf[d] = docket[q]})
             /\ \A i \in 1 .. q : docket[i] # None
  <2>1. PICK n \in 0 .. TopN : \E r \in [1 .. n -> Dockets] : Shows(n, r)
    BY <1>1 DEF SalienceInv, OneRanking
  <2>2. PICK r \in [1 .. n -> Dockets] : Shows(n, r) BY <2>1
  <2> DEFINE I == {i \in Ranks : docket[i] = docket[q]}
             D == {d \in Dockets : KeyOf[d] = docket[q]}
             f == [i \in I |-> r[i]]
  <2>3. \A i \in I : i \in 1 .. n /\ r[i] \in Dockets /\ KeyOf[r[i]] = docket[q]
    BY <1>1, <2>2 DEF Shows
  <2>4. f \in [I -> D] BY <2>3
  <2>5. \A i, j \in I : f[i] = f[j] => i = j BY <2>2, <2>3 DEF Shows
  <2>6. f \in Injection(I, D) BY <2>4, <2>5 DEF Injection, IsInjective
  <2>7. IsFiniteSet(D) BY DocketSets
  <2>8. Cardinality(I) <= Cardinality(D)
    <3> HIDE DEF I, D, f
    <3> QED BY <2>6, <2>7, FS_Injection
  <2>9. \A i \in 1 .. q : docket[i] # None
    <3>1. q \in 1 .. n /\ q \in Ranks BY <1>1, <2>2 DEF Shows
    <3>2. \A i \in 1 .. q : i \in 1 .. n /\ i \in Ranks BY <3>1, Constants DEF Ranks
    <3>3. \A i \in 1 .. n : r[i] \in Dockets BY <2>2
    <3> QED BY <2>2, <3>2, <3>3, Constants DEF Shows
  <2> QED BY <2>8, <2>9
<1>2. SalienceInv => OneRowPerDocket BY <1>1 DEF OneRowPerDocket
<1> QED BY <1>2, SalienceInvHolds, PTL

\* After a job that ended without an error no rank of the table lacks its
\* headline, though the job looks at its own ranking only: that one is never
\* shorter than the table.
THEOREM NoneMissingAfterSuccessHolds == SalienceSpec => []NoneMissingAfterSuccess
<1>1. SalienceInv => NoneMissingAfterSuccess BY DEF SalienceInv
<1> QED BY <1>1, SalienceInvHolds, PTL
=============================================================================

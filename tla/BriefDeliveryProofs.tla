------------------------ MODULE BriefDeliveryProofs ------------------------
(***************************************************************************)
(* What holds of BriefDelivery for any number of days, filings, jobs and   *)
(* callers, any look-back and any dates an admin recomposes: the types,    *)
(* and, when one worker composes, the properties of the briefs.            *)
(***************************************************************************)
EXTENDS BriefDelivery, FiniteSetTheorems, TLAPS

-----------------------------------------------------------------------------
\* The jobs that run, and those of them that may still send a mail.
Composing == {j \in Jobs : state[j] = "running"}
Mailing   == {j \in Composing : pc[j] \in {"window", "filings", "insert", "send"}}

\* A job that waits or runs has a date; only one that runs holds anything.
JobInOrder(j) ==
  /\ state[j] \in {"pending", "running"} => date[j] \in Days
  /\ state[j] = "running" <=> pc[j] # "idle"
  /\ state[j] = "pending" => tries[j] < MaxAttempts
  /\ state[j] = "absent" => tries[j] = 0
  /\ state[j] = "running" => tries[j] > 0

\* Every mail to a user who left was sent by a job that had begun before.
StraysAreOwed ==
  /\ entitled => strays = 0
  /\ ~entitled => strays + Cardinality(Mailing) <= Cardinality(Jobs)

TypeInv ==
  /\ TypeOK
  /\ \A j \in Jobs : JobInOrder(j)
  /\ \A f \in extracted : created[f] # 0
  /\ StraysAreOwed

-----------------------------------------------------------------------------
\* One worker composes, and after the user left it owes one mail at most.
OneWorker ==
  /\ \A i, j \in Composing : i = j
  /\ ~entitled => strays = 0 \/ (strays = 1 /\ Mailing = {})

\* What the running job has read, listed and mailed is still so.
HandlerInv(j) ==
  /\ pc[j] \in {"filings", "insert", "send", "accepted"} => since[j] = Since(date[j])
  /\ pc[j] \in {"insert", "send", "accepted"} => picked[j] # {} /\ picked[j] \subseteq InWindow(j)
  /\ pc[j] \in {"send", "accepted"} =>
       status[date[j]] = "pending" /\ listed[date[j]] = picked[j]
  /\ pc[j] = "accepted" => mails[date[j]] # <<>> /\ Last(mails[date[j]]) = picked[j]

\* The windows of the briefs that were sent do not meet.
Tiled ==
  \A d \in SentDates : \A f \in listed[d] :
    f \in extracted /\ created[f] <= d /\ \A e \in SentDates : e < d => created[f] > e

\* A date's mails: one for each death before the mark, and one that was marked
\* or is about to be.
Settled(d) == status[d] = "sent" \/ \E j \in Jobs : At(j, "accepted") /\ date[j] = d
MailsAreCounted ==
  \A d \in Days : Len(mails[d]) = lost[d] + IF Settled(d) THEN 1 ELSE 0

SentMatches ==
  \A d \in SentDates : mails[d] # <<>> /\ Last(mails[d]) = listed[d]

RowsInv == Tiled /\ MailsAreCounted /\ SentMatches

DeliveryInv ==
  /\ TypeInv /\ OneWorker /\ RowsInv
  /\ \A j \in Composing : HandlerInv(j)

-----------------------------------------------------------------------------
\* On orderly days what is asked for is complete: no filing of its days is
\* still to come or to be extracted.
CrawledAreRead ==
  \A f \in Filings : created[f] # 0 =>
    created[f] <= today /\ (created[f] < today \/ phase = "brief" => f \in extracted)

OrderlyDays ==
  /\ CrawledAreRead
  /\ \A c \in Callers : asking[c] # 0 => Ready(asking[c])
  /\ \A j \in Jobs : state[j] \in {"pending", "running"} => Ready(date[j])
  /\ \A d \in SentDates : Ready(d)
  /\ \A j \in Composing :
       pc[j] \in {"insert", "send", "accepted"} => picked[j] = InWindow(j)

OrderlyInv == DeliveryInv /\ (orderly => OrderlyDays /\ NothingLost)

-----------------------------------------------------------------------------
(* Days and sets *)

LEMMA Constants ==
  /\ LastDay \in Nat \ {0} /\ Lookback \in Nat /\ MaxAttempts \in Nat \ {0}
  /\ IsFiniteSet(Jobs) /\ Days \subseteq Nat \ {0} /\ 1 \in Days
  /\ \A d \in Days : d <= LastDay
BY BriefAssumption DEF Days

\* A set of days, with 0 beside them, has a last one: the sets of later days
\* are well-founded under inclusion.
LEMMA GreatestExists ==
  ASSUME NEW n \in Nat, NEW T, T \subseteq 0 .. n, T # {}
  PROVE  \E x \in T : \A y \in T : y <= x
<1> DEFINE Above(x) == x + 1 .. n
           Tails == {Above(x) : x \in T}
<1>1. Tails \subseteq FiniteSubsetsOf(0 .. n)
  <2>1. ASSUME NEW x \in T PROVE IsFiniteSet(Above(x)) /\ Above(x) \subseteq 0 .. n
    <3>1. x + 1 \in Int /\ n \in Int OBVIOUS
    <3> QED BY <3>1, FS_Interval
  <2> QED BY <2>1 DEF FiniteSubsetsOf
<1>2. IsWellFoundedOn(StrictSubsetOrdering(0 .. n), FiniteSubsetsOf(0 .. n))
  BY FS_StrictSubsetOrderingWellFounded
<1>3. \E A \in Tails : \A B \in Tails : <<B, A>> \notin StrictSubsetOrdering(0 .. n)
  <2>1. Tails # {} OBVIOUS
  <2> HIDE DEF Tails
  <2> QED BY <1>1, <1>2, <2>1, WFMin
<1>4. PICK x \in T : \A y \in T : <<Above(y), Above(x)>> \notin StrictSubsetOrdering(0 .. n)
  BY <1>3
<1>5. ASSUME NEW y \in T, y > x PROVE FALSE
  <2>1. /\ Above(y) \subseteq Above(x) /\ y \in Above(x) /\ y \notin Above(y)
        /\ Above(x) \subseteq 0 .. n
    BY <1>5
  <2> QED BY <2>1, <1>4 DEF StrictSubsetOrdering
<1> QED BY <1>4, <1>5

LEMMA LatestFacts ==
  ASSUME NEW S, S \subseteq Days
  PROVE  /\ Latest(S) \in S \cup {0} /\ Latest(S) \in Nat /\ Latest(S) <= LastDay
         /\ \A e \in S : e <= Latest(S)
<1>1. S \cup {0} \subseteq 0 .. LastDay /\ S \cup {0} # {} /\ LastDay \in Nat
  BY Constants DEF Days
<1>2. \E d \in S \cup {0} : \A e \in S \cup {0} : e <= d BY <1>1, GreatestExists
<1>3. Latest(S) \in S \cup {0} /\ \A e \in S : e <= Latest(S) BY <1>2 DEF Latest
<1> QED BY <1>1, <1>3

\* What get_last_brief_date answers, and the first day of a window.
LEMMA LastBriefFacts ==
  /\ LastBriefDate \in SentDates \cup {0} /\ LastBriefDate \in Nat
  /\ LastBriefDate <= LastDay
  /\ \A e \in SentDates : e <= LastBriefDate
  /\ LastBriefDate = 0 <=> SentDates = {}
<1>1. SentDates \subseteq Days BY DEF SentDates
<1>2. LastBriefDate = Latest(SentDates) BY DEF LastBriefDate, SentDates
<1>3. \A e \in SentDates : e # 0 BY <1>1, Constants
<1>4. /\ Latest(SentDates) \in SentDates \cup {0} /\ Latest(SentDates) \in Nat
      /\ Latest(SentDates) <= LastDay /\ \A e \in SentDates : e <= Latest(SentDates)
  BY <1>1, LatestFacts
<1>5. Latest(SentDates) = 0 <=> SentDates = {}
  BY <1>1, <1>3, <1>4, Constants
<1> QED BY <1>2, <1>4, <1>5

LEMMA SinceFacts ==
  ASSUME NEW d \in Days
  PROVE  /\ Since(d) \in (0 - Lookback) .. LastDay + 1
         /\ \A e \in SentDates : Since(d) > e
         /\ SentDates = {} => Since(d) = d - Lookback
         /\ SentDates # {} => LastBriefDate \in SentDates /\ Since(d) = LastBriefDate + 1
<1>1. LastDay \in Nat /\ Lookback \in Nat /\ d \in Nat \ {0} /\ d <= LastDay BY Constants
<1>2. SentDates \subseteq Nat BY Constants DEF SentDates
<1>3. Since(d) = IF LastBriefDate = 0 THEN d - Lookback ELSE LastBriefDate + 1 BY DEF Since
<1>4. CASE SentDates = {}
  <2>1. Since(d) = d - Lookback BY <1>3, <1>4, LastBriefFacts
  <2> QED BY <1>1, <1>4, <2>1
<1>5. CASE SentDates # {}
  <2>1. LastBriefDate \in SentDates /\ Since(d) = LastBriefDate + 1
    BY <1>3, <1>5, LastBriefFacts
  <2>2. Since(d) \in (0 - Lookback) .. LastDay + 1 BY <1>1, <2>1, LastBriefFacts
  <2>3. \A e \in SentDates : Since(d) > e BY <1>2, <2>1, LastBriefFacts
  <2> QED BY <1>5, <2>1, <2>2, <2>3
<1> QED BY <1>4, <1>5

LEMMA Subsets ==
  ASSUME NEW S, IsFiniteSet(S), NEW T, T \subseteq S
  PROVE  /\ IsFiniteSet(T) /\ Cardinality(T) \in Nat /\ Cardinality(S) \in Nat
         /\ Cardinality(T) <= Cardinality(S)
         /\ T # S => Cardinality(T) < Cardinality(S)
BY FS_Subset, FS_CardinalityType

-----------------------------------------------------------------------------
(* The types, and the mails after a user left, for any number of workers *)

LEMMA MailingFacts ==
  /\ Mailing \subseteq Jobs /\ IsFiniteSet(Mailing) /\ Cardinality(Mailing) \in Nat
  /\ Cardinality(Jobs) \in Nat /\ Cardinality(Mailing) <= Cardinality(Jobs)
<1>1. Mailing \subseteq Jobs BY DEF Mailing, Composing
<1> QED BY <1>1, Constants, Subsets

\* No mail leaves, and no job that may mail joins unless the user may be mailed.
LEMMA NoMail ==
  ASSUME StraysAreOwed, strays \in Nat, UNCHANGED <<entitled, strays>>, entitled \in BOOLEAN,
         Mailing' \subseteq Jobs, entitled \/ Mailing' \subseteq Mailing
  PROVE  StraysAreOwed'
<1>1. CASE entitled BY <1>1 DEF StraysAreOwed
<1>2. CASE ~entitled
  <2>1. Cardinality(Mailing') <= Cardinality(Mailing) /\ Cardinality(Mailing') \in Nat
    BY <1>2, MailingFacts, Subsets
  <2>2. strays' + Cardinality(Mailing') <= Cardinality(Jobs)
    BY <1>2, <2>1, MailingFacts DEF StraysAreOwed
  <2> QED BY <1>2, <2>2 DEF StraysAreOwed
<1> QED BY <1>1, <1>2

\* A mail leaves, and its job sends no second one.
LEMMA OneMail ==
  ASSUME StraysAreOwed, strays \in Nat, Mailed, UNCHANGED entitled, entitled \in BOOLEAN,
         NEW j \in Mailing, Mailing' \subseteq Mailing \ {j}
  PROVE  StraysAreOwed' /\ strays' \in 0 .. Cardinality(Jobs)
<1>1. CASE entitled
  BY <1>1, MailingFacts DEF StraysAreOwed, Mailed
<1>2. CASE ~entitled
  <2>1. Cardinality(Mailing') < Cardinality(Mailing) /\ Cardinality(Mailing') \in Nat
    <3>1. Mailing' \subseteq Mailing /\ Mailing' # Mailing OBVIOUS
    <3> QED BY <3>1, MailingFacts, Subsets
  <2>2. strays' = strays + 1 BY <1>2 DEF Mailed
  <2>3. strays + Cardinality(Mailing) <= Cardinality(Jobs) BY <1>2 DEF StraysAreOwed
  <2>4. strays' + Cardinality(Mailing') <= Cardinality(Jobs)
    BY <2>1, <2>2, <2>3, MailingFacts
  <2> QED BY <1>2, <2>1, <2>2, <2>4, MailingFacts DEF StraysAreOwed
<1> QED BY <1>1, <1>2

LEMMA InitTypes == Init => TypeInv
<1> SUFFICES ASSUME Init PROVE TypeInv OBVIOUS
<1>1. \A j \in Jobs : JobInOrder(j) BY Constants DEF Init, JobInOrder
<1>2. StraysAreOwed BY DEF Init, StraysAreOwed
<1>3. TypeOK BY Constants, MailingFacts DEF Init, TypeOK, Places
<1>4. \A f \in extracted : created[f] # 0 BY DEF Init
<1> QED BY <1>1, <1>2, <1>3, <1>4 DEF TypeInv

\* The crawlers, the calendar, the user and a caller that asks touch no job.
Surroundings ==
  \/ \E f \in Filings : Crawl(f) \/ Extract(f)
  \/ BriefTime \/ Midnight \/ Leave
  \/ \E c \in Callers, d \in Days : Ask(c, d)

Enqueueing ==
  \/ \E c \in Callers, j \in Jobs : Trigger(c, j)
  \/ \E j \in Jobs, d \in Days : Recompose(j, d)

Handler(j) ==
  \/ Claim(j) \/ Maintenance(j) \/ ReadWindow(j)
  \/ QuietDay(j) \/ ReadFilings(j)
  \/ InsertBrief(j) \/ SendAccepted(j) \/ SendRejected(j) \/ MarkSent(j)
  \/ Complete(j) \/ Abort(j)

LEMMA Steps == Next <=> Surroundings \/ Enqueueing \/ \E j \in Jobs : Handler(j)
BY DEF Next, Surroundings, Enqueueing, Handler

LEMMA SurroundingsType ==
  ASSUME TypeInv, Surroundings
  PROVE  TypeInv'
<1>1. UNCHANGED <<job, rows, sent, strays>>
  BY DEF Surroundings, Crawl, Extract, BriefTime, Midnight, Leave, Ask, user
<1>2. TypeOK'
  <2>1. orderly' \in BOOLEAN /\ phase' \in {"crawl", "brief"} /\ entitled' \in BOOLEAN
    BY DEF Surroundings, Crawl, Extract, BriefTime, Midnight, Leave, Ask, user, world, TypeInv, TypeOK
  <2>4. today' \in Days
    <3>1. Midnight => today' \in Days BY Constants DEF Midnight, TypeInv, TypeOK, Days
    <3> QED BY <3>1 DEF Surroundings, Crawl, Extract, BriefTime, Leave, Ask, world, TypeInv, TypeOK
  <2>2. created' \in [Filings -> 0 .. LastDay] /\ extracted' \subseteq Filings
    BY Constants DEF Surroundings, Crawl, Extract, BriefTime, Midnight, Leave, Ask, user, world,
                     TypeInv, TypeOK, Days
  <2>3. asking' \in [Callers -> 0 .. LastDay]
    BY Constants DEF Surroundings, Crawl, Extract, BriefTime, Midnight, Leave, Ask, user, world,
                     TypeInv, TypeOK, Days
  <2> QED BY <1>1, <2>1, <2>2, <2>3, <2>4 DEF TypeInv, TypeOK, job, rows, sent
<1>3. \A j \in Jobs : JobInOrder(j)' BY <1>1 DEF TypeInv, JobInOrder, job
<1>4. \A f \in extracted' : created'[f] # 0
  BY Constants DEF Surroundings, Crawl, Extract, BriefTime, Midnight, Leave, Ask, world, TypeInv,
                   TypeOK, Days
<1>5. StraysAreOwed'
  <2>1. Mailing' = Mailing BY <1>1 DEF Mailing, Composing, job
  <2>2. strays \in Nat /\ entitled \in BOOLEAN BY MailingFacts DEF TypeInv, TypeOK
  <2>3. CASE Leave
    BY <2>1, <2>2, <2>3, MailingFacts DEF Leave, TypeInv, StraysAreOwed
  <2>4. CASE UNCHANGED entitled
    BY <1>1, <2>1, <2>2, <2>4, MailingFacts, NoMail DEF TypeInv
  <2> QED BY <2>3, <2>4 DEF Surroundings, Crawl, Extract, BriefTime, Midnight, Ask, user
<1> QED BY <1>2, <1>3, <1>4, <1>5 DEF TypeInv

LEMMA EnqueueingType ==
  ASSUME TypeInv, Enqueueing
  PROVE  TypeInv'
<1>1. PICK j \in Jobs, d \in Days :
        /\ NewJob(j, d)
        /\ UNCHANGED <<world, user, rows, sent>>
        /\ asking' \in [Callers -> 0 .. LastDay]
  <2>1. ASSUME NEW c \in Callers, NEW j \in Jobs, Trigger(c, j)
        PROVE  asking[c] \in Days /\ asking' \in [Callers -> 0 .. LastDay]
    BY <2>1, Constants DEF Trigger, TypeInv, TypeOK, Days
  <2> QED BY <2>1 DEF Enqueueing, Trigger, Recompose, TypeInv, TypeOK
<1>2. TypeOK'
  BY <1>1, Constants DEF NewJob, TypeInv, TypeOK, Days, world, user, rows, sent
<1>3. \A i \in Jobs : JobInOrder(i)'
  BY <1>1, Constants DEF NewJob, TypeInv, TypeOK, JobInOrder
<1>4. StraysAreOwed'
  <2>1. Mailing' \subseteq Mailing
    BY <1>1 DEF Mailing, Composing, NewJob, TypeInv, TypeOK
  <2>2. strays \in Nat /\ entitled \in BOOLEAN BY MailingFacts DEF TypeInv, TypeOK
  <2> QED BY <1>1, <2>1, <2>2, MailingFacts, NoMail DEF TypeInv, user
<1> QED BY <1>1, <1>2, <1>3, <1>4 DEF TypeInv, world

\* A step of a handler mails once, or not at all.
MailsOne(j) == Mailed /\ j \in Mailing /\ Mailing' \subseteq Mailing \ {j}

LEMMA MailingStep ==
  ASSUME TypeInv, NEW j \in Jobs, Handler(j)
  PROVE  /\ UNCHANGED <<world, asking, entitled>>
         /\ MailsOne(j) \/ (UNCHANGED strays /\ (entitled \/ Mailing' \subseteq Mailing))
<1>1. UNCHANGED <<world, asking, entitled>>
  BY DEF Handler, Claim, Maintenance, ReadWindow, QuietDay, ReadFilings, InsertBrief, SendAccepted,
         SendRejected, MarkSent, Complete, Abort, Reopen, user
<1>2. CASE Maintenance(j) \/ QuietDay(j) \/ SendAccepted(j)
  <2>1. MailsOne(j)
    BY <1>2 DEF Maintenance, QuietDay, SendAccepted, At, Go, Mailing, Composing, MailsOne, TypeInv,
                TypeOK
  <2> QED BY <1>1, <2>1
<1>3. CASE ~(Maintenance(j) \/ QuietDay(j) \/ SendAccepted(j))
  <2>1. UNCHANGED strays
    BY <1>3 DEF Handler, Claim, ReadWindow, ReadFilings, InsertBrief, SendRejected, MarkSent,
                Complete, Abort, Reopen, user
  <2>2. entitled \/ Mailing' \subseteq Mailing
    BY <1>3 DEF Handler, Claim, Admits, ReadWindow, ReadFilings, InsertBrief, SendRejected, MarkSent,
                Complete, Abort, Reopen, At, Go, Close, LeaveHandler, Mailing, Composing, TypeInv,
                TypeOK, Places
  <2> QED BY <1>1, <2>1, <2>2
<1> QED BY <1>2, <1>3

LEMMA HandlerType ==
  ASSUME TypeInv, NEW j \in Jobs, Handler(j)
  PROVE  TypeInv'
<1>1. UNCHANGED <<world, asking, entitled>> BY MailingStep
<1>2. /\ state[j] = "running" => date[j] \in Days /\ Since(date[j]) \in (0 - Lookback) .. LastDay + 1
      /\ state[j] \in {"pending", "running"} /\ JobInOrder(j)
  <2>1. state[j] \in {"pending", "running"} /\ JobInOrder(j)
    BY DEF Handler, Claim, Maintenance, ReadWindow, QuietDay, ReadFilings, InsertBrief, SendAccepted,
           SendRejected, MarkSent, Complete, Abort, Reopen, At, TypeInv
  <2> QED BY <2>1, SinceFacts DEF JobInOrder
<1>3. /\ JobInOrder(j)' /\ \A i \in Jobs \ {j} : JobInOrder(i)'
      /\ date' \in [Jobs -> 0 .. LastDay]
      /\ state' \in [Jobs -> {"absent", "pending", "running", "over"}]
      /\ tries' \in [Jobs -> 0 .. MaxAttempts] /\ pc' \in [Jobs -> Places]
  <2>1. CASE Claim(j)
    BY <1>2, <2>1, Constants DEF Claim, At, Go, Admits, TypeInv, TypeOK, JobInOrder, Places
  <2>2. CASE Maintenance(j)
    BY <1>2, <2>2, Constants DEF Maintenance, At, Go, TypeInv, TypeOK, JobInOrder, Places
  <2>3. CASE ReadWindow(j)
    BY <1>2, <2>3, Constants DEF ReadWindow, At, Go, TypeInv, TypeOK, JobInOrder, Places
  <2>4. CASE QuietDay(j)
    BY <1>2, <2>4, Constants DEF QuietDay, At, Go, TypeInv, TypeOK, JobInOrder, Places
  <2>5. CASE ReadFilings(j)
    BY <1>2, <2>5, Constants DEF ReadFilings, At, Go, InWindow, TypeInv, TypeOK, JobInOrder, Places
  <2>6. CASE InsertBrief(j)
    BY <1>2, <2>6, Constants DEF InsertBrief, At, Go, TypeInv, TypeOK, JobInOrder, Places
  <2>7. CASE SendAccepted(j)
    BY <1>2, <2>7, Constants DEF SendAccepted, At, Go, TypeInv, TypeOK, JobInOrder, Places
  <2>8. CASE SendRejected(j)
    BY <1>2, <2>8, Constants DEF SendRejected, At, Go, TypeInv, TypeOK, JobInOrder, Places
  <2>9. CASE MarkSent(j)
    BY <1>2, <2>9, Constants DEF MarkSent, At, Go, TypeInv, TypeOK, JobInOrder, Places
  <2>10. CASE Complete(j)
    BY <1>2, <2>10, Constants DEF Complete, At, Go, Close, LeaveHandler, TypeInv, TypeOK, JobInOrder, Places
  <2>11. CASE Abort(j)
    <3>1. state[j] = "running" /\ pc' = [pc EXCEPT ![j] = "idle"]
      BY <2>11 DEF Abort, Reopen, LeaveHandler, Go
    <3>2. CASE tries[j] < MaxAttempts
      <4>1. state' = [state EXCEPT ![j] = "pending"] /\ UNCHANGED <<date, tries>>
        BY <2>11, <3>2 DEF Abort, Reopen
      <4> QED BY <1>2, <3>1, <3>2, <4>1 DEF TypeInv, TypeOK, JobInOrder, Places
    <3>3. CASE ~(tries[j] < MaxAttempts)
      <4>1. Close(j) BY <2>11, <3>3 DEF Abort, Reopen
      <4> QED BY <1>2, <3>1, <4>1, Constants DEF Close, TypeInv, TypeOK, JobInOrder, Places
    <3> QED BY <3>2, <3>3
  <2> QED BY <2>1, <2>2, <2>3, <2>4, <2>5, <2>6, <2>7, <2>8, <2>9, <2>10, <2>11 DEF Handler
<1>4. since' \in [Jobs -> (0 - Lookback) .. LastDay + 1]
  <2>1. since \in [Jobs -> (0 - Lookback) .. LastDay + 1] /\ 0 \in (0 - Lookback) .. LastDay + 1
    BY Constants DEF TypeInv, TypeOK
  <2>2. CASE ReadWindow(j) BY <1>2, <2>1, <2>2 DEF ReadWindow, At
  <2>3. CASE ~ReadWindow(j)
    <3>1. since' = since \/ since' = [since EXCEPT ![j] = 0]
      BY <2>3 DEF Handler, Claim, Maintenance, QuietDay, ReadFilings, InsertBrief, SendAccepted,
                  SendRejected, MarkSent, Complete, Abort, Reopen, LeaveHandler
    <3> QED BY <2>1, <3>1
  <2> QED BY <2>2, <2>3
<1>5. picked' \in [Jobs -> SUBSET Filings]
  BY DEF Handler, Claim, Maintenance, ReadWindow, QuietDay, ReadFilings, InsertBrief, SendAccepted,
         SendRejected, MarkSent, Complete, Abort, Reopen, At, Close, LeaveHandler, TypeInv, TypeOK,
         InWindow
<1>6. /\ status' \in [Days -> {"none", "pending", "sent"}] /\ listed' \in [Days -> SUBSET Filings]
      /\ mails' \in [Days -> Seq(SUBSET Filings)] /\ lost' \in [Days -> Nat]
  <2>1. CASE InsertBrief(j) BY <1>2, <2>1 DEF InsertBrief, At, sent, TypeInv, TypeOK
  <2>2. CASE SendAccepted(j)
    <3>1. picked[j] \in SUBSET Filings /\ mails[date[j]] \in Seq(SUBSET Filings)
      BY <1>2, <2>2 DEF SendAccepted, At, TypeInv, TypeOK
    <3>2. Append(mails[date[j]], picked[j]) \in Seq(SUBSET Filings) BY <3>1
    <3> QED BY <2>2, <3>2 DEF SendAccepted, rows, TypeInv, TypeOK
  <2>3. CASE MarkSent(j) BY <1>2, <2>3 DEF MarkSent, At, sent, TypeInv, TypeOK
  <2>4. CASE Abort(j) BY <1>2, <2>4 DEF Abort, Reopen, rows, TypeInv, TypeOK
  <2>5. CASE UNCHANGED <<rows, sent>> BY <2>5 DEF rows, sent, TypeInv, TypeOK
  <2> QED BY <2>1, <2>2, <2>3, <2>4, <2>5
        DEF Handler, Claim, Maintenance, ReadWindow, QuietDay, ReadFilings, SendRejected, Complete
<1>7. StraysAreOwed' /\ strays' \in 0 .. Cardinality(Jobs)
  <2>0. strays \in Nat /\ strays \in 0 .. Cardinality(Jobs) /\ entitled \in BOOLEAN /\ StraysAreOwed
    BY MailingFacts DEF TypeInv, TypeOK
  <2>1. CASE MailsOne(j) BY <1>1, <2>0, <2>1, OneMail DEF MailsOne
  <2>2. CASE ~MailsOne(j)
    <3>1. UNCHANGED strays /\ Mailing' \subseteq Jobs /\ (entitled \/ Mailing' \subseteq Mailing)
      BY <2>2, MailingStep DEF Mailing, Composing
    <3> QED BY <1>1, <2>0, <3>1, NoMail
  <2> QED BY <2>1, <2>2
<1>8. TypeOK' BY <1>1, <1>3, <1>4, <1>5, <1>6, <1>7 DEF TypeInv, TypeOK, world
<1>9. \A i \in Jobs : JobInOrder(i)' BY <1>3
<1> QED BY <1>1, <1>7, <1>8, <1>9 DEF TypeInv, world

LEMMA TypeStep ==
  ASSUME TypeInv, [Next]_vars
  PROVE  TypeInv'
<1>1. CASE Next BY <1>1, Steps, SurroundingsType, EnqueueingType, HandlerType
<1>2. CASE UNCHANGED vars
  <2>1. Mailing' = Mailing BY <1>2 DEF vars, job, Mailing, Composing
  <2>2. StraysAreOwed' BY <1>2, <2>1 DEF vars, user, TypeInv, StraysAreOwed
  <2>3. TypeOK' BY <1>2 DEF vars, world, user, job, rows, sent, TypeInv, TypeOK
  <2> QED BY <1>2, <2>2, <2>3 DEF vars, world, job, TypeInv, JobInOrder
<1> QED BY <1>1, <1>2

LEMMA TypeHolds == Spec => []TypeInv
<1>1. TypeInv /\ [Next]_vars => TypeInv' BY TypeStep
<1> QED BY <1>1, InitTypes, PTL DEF Spec

-----------------------------------------------------------------------------
(* The user's mails and briefs when one worker composes *)

\* What no other step may take from a handler, and what none takes from the
\* rows unless it writes them.
KeepsFilings == \A f \in extracted : f \in extracted' /\ created'[f] = created[f]

LEMMA SinceFrame ==
  ASSUME UNCHANGED SentDates
  PROVE  \A d : Since(d)' = Since(d)
<1>1. LastBriefDate' = LastBriefDate BY DEF LastBriefDate, SentDates
<1> QED BY <1>1 DEF Since

LEMMA WindowFrame ==
  ASSUME NEW j \in Jobs, KeepsFilings, since'[j] = since[j], date'[j] = date[j]
  PROVE  InWindow(j) \subseteq InWindow(j)'
BY DEF InWindow, KeepsFilings

LEMMA HandlerFrame ==
  ASSUME NEW j \in Jobs, HandlerInv(j), KeepsFilings, UNCHANGED <<rows, mails>>,
         pc'[j] = pc[j], since'[j] = since[j], date'[j] = date[j], picked'[j] = picked[j]
  PROVE  HandlerInv(j)'
<1>1. UNCHANGED SentDates BY DEF rows, SentDates
<1>2. Since(date[j])' = Since(date[j]) BY <1>1, SinceFrame
<1> QED BY <1>2, WindowFrame DEF HandlerInv, rows

LEMMA RowsFrame ==
  ASSUME RowsInv, KeepsFilings, UNCHANGED <<rows, sent>>,
         \A d \in Days : Settled(d)' <=> Settled(d)
  PROVE  RowsInv'
<1>1. UNCHANGED SentDates BY DEF rows, SentDates
<1>2. Tiled' BY <1>1 DEF RowsInv, Tiled, KeepsFilings, rows
<1>3. SentMatches' BY <1>1 DEF RowsInv, SentMatches, rows, sent
<1>4. MailsAreCounted' BY DEF RowsInv, MailsAreCounted, sent
<1> QED BY <1>2, <1>3, <1>4 DEF RowsInv

\* What a window holds comes after every brief that was sent.
LEMMA WindowIsOpen ==
  ASSUME DeliveryInv, NEW j \in Composing, pc[j] \in {"insert", "send", "accepted"}
  PROVE  /\ date[j] \in Days /\ date[j] \notin SentDates
         /\ \A e \in SentDates : date[j] > e /\ \A f \in picked[j] : created[f] > e
         /\ \A f \in picked[j] : f \in extracted /\ created[f] <= date[j]
<1>1. date[j] \in Days /\ date[j] \in Nat
  BY Constants DEF DeliveryInv, TypeInv, JobInOrder, Composing
<1>2. /\ since[j] = Since(date[j]) /\ picked[j] # {} /\ picked[j] \subseteq InWindow(j)
  BY DEF DeliveryInv, HandlerInv
<1>3. Since(date[j]) \in Int /\ \A e \in SentDates : Since(date[j]) > e
  BY <1>1, SinceFacts, Constants
<1>4. \A f \in picked[j] : f \in extracted /\ created[f] \in Int
                            /\ since[j] <= created[f] /\ created[f] <= date[j]
  BY <1>1, <1>2, <1>3, Constants DEF InWindow, DeliveryInv, TypeInv, TypeOK
<1>5. \A e \in SentDates : e \in Int BY Constants DEF SentDates
<1>6. \A e \in SentDates : date[j] > e /\ \A f \in picked[j] : created[f] > e
  BY <1>1, <1>2, <1>3, <1>4, <1>5
<1> QED BY <1>1, <1>4, <1>5, <1>6

LEMMA InitDelivery == Init => DeliveryInv
<1> SUFFICES ASSUME Init PROVE DeliveryInv OBVIOUS
<1>1. Composing = {} /\ SentDates = {} BY DEF Init, Composing, SentDates
<1>2. OneWorker BY <1>1 DEF Init, OneWorker
<1>3. \A d \in Days : ~Settled(d) BY DEF Init, Settled, At
<1>4. MailsAreCounted BY <1>3 DEF Init, MailsAreCounted
<1> QED BY <1>1, <1>2, <1>4, InitTypes DEF DeliveryInv, RowsInv, Tiled, SentMatches

LEMMA SurroundingsDelivery ==
  ASSUME DeliveryInv, Surroundings
  PROVE  DeliveryInv'
<1>1. UNCHANGED <<job, rows, sent, strays>>
  BY DEF Surroundings, Crawl, Extract, BriefTime, Midnight, Leave, Ask, user
<1>2. KeepsFilings
  BY DEF Surroundings, Crawl, Extract, BriefTime, Midnight, Leave, Ask, world, KeepsFilings,
         DeliveryInv, TypeInv, TypeOK
<1>3. Composing' = Composing /\ Mailing' = Mailing BY <1>1 DEF job, Composing, Mailing
<1>4. OneWorker'
  <2>1. ~entitled' => ~entitled \/ strays = 0
    BY DEF Surroundings, Crawl, Extract, BriefTime, Midnight, Leave, Ask, user, DeliveryInv, TypeInv,
           StraysAreOwed
  <2> QED BY <1>1, <1>3, <2>1 DEF DeliveryInv, OneWorker
<1>5. \A j \in Composing : HandlerInv(j)'
  BY <1>1, <1>2, HandlerFrame DEF DeliveryInv, Composing, job, sent
<1>6. RowsInv'
  <2>1. \A d \in Days : Settled(d)' <=> Settled(d) BY <1>1 DEF Settled, At, job, rows
  <2> QED BY <1>1, <1>2, <2>1, RowsFrame DEF DeliveryInv
<1> QED BY <1>3, <1>4, <1>5, <1>6, SurroundingsType DEF DeliveryInv

LEMMA EnqueueingDelivery ==
  ASSUME DeliveryInv, Enqueueing
  PROVE  DeliveryInv'
<1>1. PICK j \in Jobs, d \in Days \cup {0} : NewJob(j, d) \/ \E c \in Callers : NewJob(j, asking[c])
  BY DEF Enqueueing, Trigger, Recompose
<1>2. UNCHANGED <<world, user, rows, sent>> BY DEF Enqueueing, Trigger, Recompose
<1>3. /\ UNCHANGED <<tries, pc, since, picked>> /\ state[j] = "absent" /\ pc[j] = "idle"
      /\ state' = [state EXCEPT ![j] = "pending"]
      /\ \A i \in Jobs \ {j} : date'[i] = date[i]
  BY <1>1 DEF NewJob, DeliveryInv, TypeInv, TypeOK, JobInOrder
<1>4. Composing' = Composing /\ Mailing' = Mailing
  BY <1>3 DEF Composing, Mailing, DeliveryInv, TypeInv, TypeOK
<1>5. OneWorker' BY <1>2, <1>4 DEF DeliveryInv, OneWorker, user
<1>6. KeepsFilings BY <1>2 DEF KeepsFilings, world
<1>7. \A i \in Composing : HandlerInv(i)'
  <2>1. \A i \in Composing : i \in Jobs \ {j} BY <1>3 DEF Composing
  <2> QED BY <1>2, <1>3, <1>6, <2>1, HandlerFrame DEF DeliveryInv, sent
<1>8. RowsInv'
  <2>1. \A e \in Days : Settled(e)' <=> Settled(e)
    BY <1>2, <1>3 DEF Settled, At, rows, DeliveryInv, TypeInv, TypeOK
  <2> QED BY <1>2, <1>6, <2>1, RowsFrame DEF DeliveryInv
<1> QED BY <1>4, <1>5, <1>7, <1>8, EnqueueingType DEF DeliveryInv

-----------------------------------------------------------------------------
\* With one worker only the job that steps runs, before and after.
LEMMA Alone ==
  ASSUME DeliveryInv, Parallel = FALSE, NEW j \in Jobs, Handler(j)
  PROVE  /\ Composing \subseteq {j} /\ Composing' \subseteq {j}
         /\ KeepsFilings /\ date[j] \in Days /\ JobInOrder(j)
         /\ state[j] = "running" => j \in Composing /\ HandlerInv(j)
<1>1. state[j] \in {"pending", "running"} /\ \A i \in Jobs \ {j} : state'[i] = state[i]
  BY DEF Handler, Claim, Maintenance, ReadWindow, QuietDay, ReadFilings, InsertBrief, SendAccepted,
         SendRejected, MarkSent, Complete, Abort, Reopen, At, Close, DeliveryInv, TypeInv, TypeOK
<1>2. Composing \subseteq {j}
  <2>1. CASE state[j] = "running" BY <2>1 DEF DeliveryInv, OneWorker, Composing
  <2>2. CASE state[j] = "pending"
    <3>1. Claim(j)
      BY <2>2 DEF Handler, Maintenance, ReadWindow, QuietDay, ReadFilings, InsertBrief, SendAccepted,
                  SendRejected, MarkSent, Complete, Abort, Reopen, At
    <3> QED BY <3>1 DEF Claim, Composing
  <2> QED BY <1>1, <2>1, <2>2
<1>3. Composing' \subseteq {j} BY <1>1, <1>2 DEF Composing
<1>4. KeepsFilings BY MailingStep DEF DeliveryInv, world, KeepsFilings
<1> QED BY <1>1, <1>2, <1>3, <1>4 DEF DeliveryInv, TypeInv, JobInOrder, Composing

LEMMA HandlerOneWorker ==
  ASSUME DeliveryInv, Parallel = FALSE, NEW j \in Jobs, Handler(j)
  PROVE  OneWorker'
<1>1. \A i, k \in Composing' : i = k BY Alone
<1>2. ~entitled' => strays' = 0 \/ (strays' = 1 /\ Mailing' = {})
  <2> SUFFICES ASSUME ~entitled' PROVE strays' = 0 \/ (strays' = 1 /\ Mailing' = {}) OBVIOUS
  <2>1. ~entitled BY MailingStep DEF DeliveryInv
  <2>2. CASE MailsOne(j)
    <3>1. strays = 0 BY <2>1, <2>2 DEF MailsOne, DeliveryInv, OneWorker
    <3>2. Mailing' = {} BY <2>2, Alone DEF MailsOne, Mailing
    <3> QED BY <2>1, <2>2, <3>1, <3>2 DEF MailsOne, Mailed
  <2>3. CASE UNCHANGED strays /\ Mailing' \subseteq Mailing
    BY <2>1, <2>3 DEF DeliveryInv, OneWorker
  <2> QED BY <2>1, <2>2, <2>3, MailingStep DEF DeliveryInv
<1> QED BY <1>1, <1>2 DEF OneWorker

\* Whether a date is settled is up to the job that steps.
LEMMA SettledByOne ==
  ASSUME DeliveryInv, Parallel = FALSE, NEW j \in Jobs, Handler(j), NEW d \in Days
  PROVE  /\ Settled(d) <=> (status[d] = "sent" \/ (At(j, "accepted") /\ date[j] = d))
         /\ Settled(d)' <=> (status'[d] = "sent" \/ (At(j, "accepted")' /\ date'[j] = d))
<1>1. \A i \in Jobs : At(i, "accepted") => i = j BY Alone DEF At, Composing
<1>2. \A i \in Jobs : At(i, "accepted")' => i = j BY Alone DEF At, Composing
<1> QED BY <1>1, <1>2 DEF Settled

\* The steps that touch neither rows nor mails, nor a job whose mail was accepted.
LEMMA QuietStep ==
  ASSUME DeliveryInv, Parallel = FALSE, NEW j \in Jobs, Handler(j), UNCHANGED <<rows, sent>>,
         ~At(j, "accepted"), ~At(j, "accepted")'
  PROVE  RowsInv'
<1>1. \A d \in Days : Settled(d)' <=> Settled(d) BY SettledByOne DEF rows
<1> QED BY <1>1, Alone, RowsFrame DEF DeliveryInv

LEMMA InsertBriefRows ==
  ASSUME DeliveryInv, Parallel = FALSE, NEW j \in Jobs, InsertBrief(j)
  PROVE  /\ RowsInv' /\ HandlerInv(j)' /\ UNCHANGED SentDates
         /\ \A e \in SentDates : listed'[e] = listed[e]
<1> DEFINE d == date[j]
<1>1. Handler(j) /\ j \in Composing /\ pc[j] = "insert" /\ pc'[j] = "send" /\ HandlerInv(j)
  BY DEF Handler, InsertBrief, At, Go, DeliveryInv, TypeInv, TypeOK, Composing
<1>2. d \in Days /\ d \notin SentDates BY <1>1, WindowIsOpen
<1>3. /\ status' = [status EXCEPT ![d] = "pending"] /\ listed' = [listed EXCEPT ![d] = picked[j]]
      /\ UNCHANGED <<sent, since, picked, date, created, extracted>>
      /\ status \in [Days -> {"none", "pending", "sent"}] /\ listed \in [Days -> SUBSET Filings]
  BY DEF InsertBrief, world, DeliveryInv, TypeInv, TypeOK
<1>4. UNCHANGED SentDates /\ \A e \in SentDates : listed'[e] = listed[e]
  BY <1>2, <1>3 DEF SentDates
<1>5. \A e \in Days : Settled(e)' <=> Settled(e)
  <2>1. \A e \in Days : status'[e] = "sent" <=> status[e] = "sent"
    BY <1>2, <1>3 DEF SentDates
  <2>2. ~At(j, "accepted") /\ ~At(j, "accepted")' BY <1>1 DEF At
  <2> QED BY <1>1, <2>1, <2>2, SettledByOne
<1>6. RowsInv'
  <2>1. Tiled' BY <1>3, <1>4 DEF Tiled, DeliveryInv, RowsInv
  <2>2. SentMatches' BY <1>3, <1>4 DEF SentMatches, DeliveryInv, RowsInv, sent
  <2>3. MailsAreCounted' BY <1>3, <1>5 DEF MailsAreCounted, DeliveryInv, RowsInv, sent
  <2> QED BY <2>1, <2>2, <2>3 DEF RowsInv
<1>7. HandlerInv(j)'
  <2>1. Since(d)' = Since(d) BY <1>3, <1>4, SinceFrame
  <2>2. InWindow(j)' = InWindow(j) BY <1>3 DEF InWindow
  <2>3. status'[d] = "pending" /\ listed'[d] = picked[j] BY <1>2, <1>3
  <2> QED BY <1>1, <1>3, <2>1, <2>2, <2>3 DEF HandlerInv
<1> QED BY <1>4, <1>6, <1>7

LEMMA SendAcceptedRows ==
  ASSUME DeliveryInv, Parallel = FALSE, NEW j \in Jobs, SendAccepted(j)
  PROVE  RowsInv' /\ HandlerInv(j)' /\ UNCHANGED SentDates
<1> DEFINE d == date[j]
<1>1. /\ Handler(j) /\ j \in Composing /\ pc[j] = "send" /\ pc'[j] = "accepted" /\ HandlerInv(j)
      /\ state[j] = "running" /\ UNCHANGED state
  BY DEF Handler, SendAccepted, At, Go, DeliveryInv, TypeInv, TypeOK, Composing
<1>2. d \in Days /\ d \notin SentDates BY <1>1, WindowIsOpen
<1>3. /\ mails' = [mails EXCEPT ![d] = Append(@, picked[j])]
      /\ UNCHANGED <<rows, lost, since, picked, date, created, extracted>>
      /\ mails \in [Days -> Seq(SUBSET Filings)] /\ lost \in [Days -> Nat]
      /\ picked[j] \in SUBSET Filings
  BY DEF SendAccepted, world, DeliveryInv, TypeInv, TypeOK
<1>4. UNCHANGED <<SentDates, listed, status>> BY <1>3 DEF SentDates, rows
<1>5. /\ mails'[d] # <<>> /\ Last(mails'[d]) = picked[j] /\ Len(mails'[d]) = Len(mails[d]) + 1
      /\ \A e \in Days \ {d} : mails'[e] = mails[e]
  <2> DEFINE m == mails[d]
  <2>1. m \in Seq(SUBSET Filings) /\ Len(m) \in Nat BY <1>2, <1>3
  <2>4. picked[j] \in SUBSET Filings BY <1>3
  <2>2. /\ Len(Append(m, picked[j])) = Len(m) + 1 /\ Append(m, picked[j])[Len(m) + 1] = picked[j]
        /\ Append(m, picked[j]) # <<>>
    <3> HIDE DEF m
    <3> QED BY <2>1, <2>4
  <2>3. mails'[d] = Append(m, picked[j]) BY <1>2, <1>3
  <2> QED BY <1>3, <2>2, <2>3 DEF Last
<1>6. RowsInv'
  <2>1. Tiled' BY <1>3, <1>4 DEF Tiled, DeliveryInv, RowsInv
  <2>2. SentMatches' BY <1>2, <1>4, <1>5 DEF SentMatches, SentDates, DeliveryInv, RowsInv
  <2>3. ~Settled(d) /\ Settled(d)' /\ \A e \in Days \ {d} : Settled(e)' <=> Settled(e)
    BY <1>1, <1>2, <1>3, <1>4, SettledByOne DEF At, SentDates
  <2>4. ASSUME NEW e \in Days PROVE Len(mails'[e]) = lost'[e] + IF Settled(e)' THEN 1 ELSE 0
    <3>1. Len(mails[e]) = lost[e] + IF Settled(e) THEN 1 ELSE 0
      BY DEF MailsAreCounted, DeliveryInv, RowsInv
    <3>2. CASE e = d BY <1>3, <1>5, <2>3, <3>1, <3>2
    <3>3. CASE e # d BY <1>3, <1>5, <2>3, <3>1, <3>3
    <3> QED BY <3>2, <3>3
  <2> QED BY <2>1, <2>2, <2>4 DEF RowsInv, MailsAreCounted
<1>7. HandlerInv(j)'
  <2>1. Since(d)' = Since(d) BY <1>3, <1>4, SinceFrame
  <2>2. InWindow(j)' = InWindow(j) BY <1>3 DEF InWindow
  <2> QED BY <1>1, <1>3, <1>4, <1>5, <2>1, <2>2 DEF HandlerInv
<1> QED BY <1>4, <1>6, <1>7

LEMMA MarkSentRows ==
  ASSUME DeliveryInv, Parallel = FALSE, NEW j \in Jobs, MarkSent(j)
  PROVE  /\ RowsInv' /\ HandlerInv(j)'
         /\ date[j] \in Days \ SentDates /\ SentDates' = SentDates \cup {date[j]}
         /\ listed[date[j]] = picked[j] /\ \A e \in SentDates : e < date[j]
<1> DEFINE d == date[j]
<1>1. /\ Handler(j) /\ j \in Composing /\ pc[j] = "accepted" /\ pc'[j] = "finished" /\ HandlerInv(j)
      /\ state[j] = "running"
  BY DEF Handler, MarkSent, At, Go, DeliveryInv, TypeInv, TypeOK, Composing
<1>2. /\ d \in Days /\ d \notin SentDates /\ d \in Nat
      /\ \A e \in SentDates : e \in Nat /\ d > e /\ \A f \in picked[j] : created[f] > e
      /\ \A f \in picked[j] : f \in extracted /\ created[f] <= d
  BY <1>1, WindowIsOpen, Constants DEF SentDates
<1>3. /\ status' = [status EXCEPT ![d] = "sent"]
      /\ UNCHANGED <<listed, sent, since, picked, date, created, extracted>>
      /\ status \in [Days -> {"none", "pending", "sent"}]
  BY DEF MarkSent, world, DeliveryInv, TypeInv, TypeOK
<1>4. SentDates' = SentDates \cup {d} BY <1>2, <1>3 DEF SentDates
<1>5. listed[d] = picked[j] /\ mails[d] # <<>> /\ Last(mails[d]) = picked[j]
  BY <1>1 DEF HandlerInv
<1>6. RowsInv'
  <2>1. Tiled'
    <3> SUFFICES ASSUME NEW e \in SentDates', NEW f \in listed[e]
                 PROVE  /\ f \in extracted /\ created[f] <= e
                        /\ \A b \in SentDates' : b < e => created[f] > b
      BY <1>3 DEF Tiled
    <3>1. CASE e = d BY <1>2, <1>4, <1>5, <3>1
    <3>2. CASE e # d
      <4>1. e \in SentDates /\ e < d BY <1>2, <1>4, <3>2
      <4>2. ~(d < e) BY <1>2, <4>1
      <4> QED BY <1>4, <4>1, <4>2 DEF Tiled, DeliveryInv, RowsInv
    <3> QED BY <3>1, <3>2
  <2>2. SentMatches' BY <1>3, <1>4, <1>5 DEF SentMatches, DeliveryInv, RowsInv, sent
  <2>3. \A e \in Days : Settled(e)' <=> Settled(e)
    BY <1>1, <1>2, <1>3, SettledByOne DEF At
  <2>4. MailsAreCounted' BY <1>3, <2>3 DEF MailsAreCounted, DeliveryInv, RowsInv, sent
  <2> QED BY <2>1, <2>2, <2>4 DEF RowsInv
<1>7. HandlerInv(j)' BY <1>1 DEF HandlerInv
<1> QED BY <1>2, <1>4, <1>5, <1>6, <1>7

LEMMA AbortRows ==
  ASSUME DeliveryInv, Parallel = FALSE, NEW j \in Jobs, Abort(j)
  PROVE  RowsInv' /\ j \notin Composing' /\ UNCHANGED rows
<1> DEFINE d == date[j]
<1>1. /\ Handler(j) /\ j \in Composing /\ state[j] = "running" /\ state'[j] # "running" /\ d \in Days
      /\ UNCHANGED <<rows, mails, created, extracted>>
      /\ lost' = IF pc[j] = "accepted" THEN [lost EXCEPT ![d] = @ + 1] ELSE lost
      /\ lost \in [Days -> Nat]
  BY DEF Handler, Abort, Reopen, Close, world, DeliveryInv, TypeInv, TypeOK, JobInOrder, Composing
<1>2. j \notin Composing' BY <1>1 DEF Composing
<1>3. UNCHANGED <<SentDates, status, listed>> BY <1>1 DEF SentDates, rows
<1>4. pc[j] = "accepted" => d \notin SentDates BY <1>1, WindowIsOpen
<1>5. RowsInv'
  <2>1. Tiled' BY <1>1, <1>3 DEF Tiled, DeliveryInv, RowsInv
  <2>2. SentMatches' BY <1>1, <1>3 DEF SentMatches, DeliveryInv, RowsInv
  <2>3. /\ \A e \in Days : Settled(e)' <=> status[e] = "sent"
        /\ \A e \in Days : Settled(e) <=> status[e] = "sent" \/ (pc[j] = "accepted" /\ d = e)
    BY <1>1, <1>3, SettledByOne DEF At
  <2>4. ASSUME NEW e \in Days PROVE Len(mails'[e]) = lost'[e] + IF Settled(e)' THEN 1 ELSE 0
    <3>1. /\ Len(mails[e]) = lost[e] + IF Settled(e) THEN 1 ELSE 0
          /\ lost[e] \in Nat
      BY <1>1 DEF MailsAreCounted, DeliveryInv, RowsInv
    <3>2. CASE pc[j] = "accepted" /\ e = d
      <4>1. Settled(e) /\ ~Settled(e)' BY <1>4, <2>3, <3>2 DEF SentDates
      <4> QED BY <1>1, <3>1, <3>2, <4>1
    <3>3. CASE ~(pc[j] = "accepted" /\ e = d)
      <4>1. Settled(e)' <=> Settled(e) BY <2>3, <3>3
      <4>2. lost'[e] = lost[e] BY <1>1, <3>3
      <4> QED BY <1>1, <3>1, <4>1, <4>2
    <3> QED BY <3>2, <3>3
  <2> QED BY <2>1, <2>2, <2>4 DEF RowsInv, MailsAreCounted
<1> QED BY <1>1, <1>2, <1>5

\* The other steps of a handler write neither rows nor mails.
Reads(j) == \/ Claim(j) \/ Maintenance(j) \/ ReadWindow(j) \/ QuietDay(j) \/ ReadFilings(j)
            \/ SendRejected(j) \/ Complete(j)

LEMMA ReadsRows ==
  ASSUME DeliveryInv, Parallel = FALSE, NEW j \in Jobs, Reads(j)
  PROVE  RowsInv' /\ (j \in Composing' => HandlerInv(j)') /\ UNCHANGED <<rows, SentDates>>
<1>1. Handler(j) /\ UNCHANGED <<rows, sent>> /\ ~At(j, "accepted") /\ ~At(j, "accepted")'
  BY DEF Handler, Reads, Claim, Maintenance, ReadWindow, QuietDay, ReadFilings, SendRejected, Complete,
         At, Go, Close, LeaveHandler, DeliveryInv, TypeInv, TypeOK, JobInOrder
<1>2. RowsInv' BY <1>1, QuietStep
<1>3. UNCHANGED SentDates BY <1>1 DEF SentDates, rows
<1>4. ASSUME j \in Composing' PROVE HandlerInv(j)'
  <2>1. CASE ReadWindow(j)
    <3>1. pc'[j] = "filings" /\ since'[j] = Since(date[j]) /\ date'[j] = date[j]
      BY <2>1 DEF ReadWindow, Go, At, DeliveryInv, TypeInv, TypeOK
    <3>2. Since(date[j])' = Since(date[j]) BY <1>3, <3>1, SinceFrame
    <3> QED BY <3>1, <3>2 DEF HandlerInv
  <2>2. CASE ReadFilings(j)
    <3>1. /\ j \in Composing /\ pc[j] = "filings" /\ UNCHANGED <<date, since, created, extracted>>
          /\ pc'[j] \in {"insert", "finished"}
          /\ pc'[j] = "insert" => picked'[j] # {} /\ picked'[j] \subseteq InWindow(j)
      BY <2>2 DEF ReadFilings, Go, At, world, Composing, DeliveryInv, TypeInv, TypeOK
    <3>2. since[j] = Since(date[j]) BY <3>1 DEF DeliveryInv, HandlerInv
    <3>3. Since(date[j])' = Since(date[j]) BY <1>3, <3>1, SinceFrame
    <3>4. InWindow(j)' = InWindow(j) BY <3>1 DEF InWindow
    <3> QED BY <3>1, <3>2, <3>3, <3>4 DEF HandlerInv
  <2>3. CASE ~ReadWindow(j) /\ ~ReadFilings(j)
    <3>1. pc'[j] \in {"window", "finished", "idle"}
      BY <2>3 DEF Reads, Claim, Maintenance, QuietDay, SendRejected, Complete, At, Go, LeaveHandler,
                  DeliveryInv, TypeInv, TypeOK
    <3> QED BY <3>1 DEF HandlerInv
  <2> QED BY <2>1, <2>2, <2>3
<1> QED BY <1>1, <1>2, <1>3, <1>4

LEMMA HandlerDelivery ==
  ASSUME DeliveryInv, Parallel = FALSE, NEW j \in Jobs, Handler(j)
  PROVE  DeliveryInv'
<1>1. RowsInv' /\ (j \in Composing' => HandlerInv(j)')
  BY InsertBriefRows, SendAcceptedRows, MarkSentRows, AbortRows, ReadsRows DEF Handler, Reads
<1>2. \A i \in Composing' : i = j BY Alone
<1> QED BY <1>1, <1>2, HandlerOneWorker, HandlerType DEF DeliveryInv

LEMMA DeliveryHolds ==
  ASSUME Parallel = FALSE
  PROVE  Spec => []DeliveryInv
<1>1. DeliveryInv /\ [Next]_vars => DeliveryInv'
  <2> SUFFICES ASSUME DeliveryInv, [Next]_vars PROVE DeliveryInv' OBVIOUS
  <2>1. CASE Next BY <2>1, Steps, SurroundingsDelivery, EnqueueingDelivery, HandlerDelivery
  <2>2. CASE UNCHANGED vars
    <3>1. UNCHANGED <<world, user, job, rows, sent>> BY <2>2 DEF vars
    <3>2. Composing' = Composing /\ Mailing' = Mailing BY <3>1 DEF job, Composing, Mailing
    <3>3. KeepsFilings BY <3>1 DEF KeepsFilings, world
    <3>4. \A j \in Composing : HandlerInv(j)'
      BY <3>1, <3>3, HandlerFrame DEF DeliveryInv, Composing, job, sent
    <3>5. RowsInv'
      <4>1. \A d \in Days : Settled(d)' <=> Settled(d) BY <3>1 DEF Settled, At, job, rows
      <4> QED BY <3>1, <3>3, <4>1, RowsFrame DEF DeliveryInv
    <3>6. TypeInv' BY <2>2, TypeStep DEF DeliveryInv
    <3>7. OneWorker' BY <3>1, <3>2 DEF DeliveryInv, OneWorker, user
    <3> QED BY <3>2, <3>4, <3>5, <3>6, <3>7 DEF DeliveryInv
  <2> QED BY <2>1, <2>2
<1> QED BY <1>1, InitDelivery, PTL DEF Spec

\* A brief that was sent keeps its mark and its list; only a mark sends one.
LEMMA SentStays ==
  ASSUME DeliveryInv, Parallel = FALSE, [Next]_vars
  PROVE  /\ SentDates \subseteq SentDates'
         /\ \A d \in SentDates : listed'[d] = listed[d]
         /\ SentDates' = SentDates \/ \E j \in Jobs : MarkSent(j)
<1>1. CASE Surroundings \/ Enqueueing \/ UNCHANGED vars
  <2>1. UNCHANGED rows
    BY <1>1 DEF Surroundings, Crawl, Extract, BriefTime, Midnight, Leave, Ask, Enqueueing, Trigger,
                Recompose, vars
  <2> QED BY <2>1 DEF rows, SentDates
<1>2. ASSUME NEW j \in Jobs, InsertBrief(j) PROVE SentDates' = SentDates /\ \A d \in SentDates : listed'[d] = listed[d]
  BY <1>2, InsertBriefRows
<1>3. ASSUME NEW j \in Jobs, SendAccepted(j) \/ Abort(j) \/ Reads(j)
      PROVE  UNCHANGED <<SentDates, listed>>
  <2>1. UNCHANGED rows
    BY <1>3, ReadsRows, AbortRows DEF SendAccepted
  <2> QED BY <2>1 DEF rows, SentDates
<1>4. ASSUME NEW j \in Jobs, MarkSent(j) PROVE SentDates \subseteq SentDates' /\ UNCHANGED listed
  BY <1>4, MarkSentRows DEF MarkSent
<1> QED BY <1>1, <1>2, <1>3, <1>4, Steps DEF Handler, Reads

-----------------------------------------------------------------------------
(* Orderly days *)

LEMMA OrderlyFacts ==
  ASSUME OrderlyInv, orderly
  PROVE  /\ OrderlyDays /\ NothingLost /\ DeliveryInv /\ TypeOK
         /\ today \in Nat /\ \A f \in Filings : created[f] \in Nat
         /\ \A j \in Composing : j \in Jobs /\ date[j] \in Nat /\ Ready(date[j])
<1>1. OrderlyDays /\ NothingLost /\ DeliveryInv /\ TypeInv /\ TypeOK
  BY DEF OrderlyInv, DeliveryInv, TypeInv
<1>2. today \in Nat /\ \A f \in Filings : created[f] \in Nat
  BY <1>1, Constants DEF TypeOK
<1>3. \A j \in Composing : j \in Jobs /\ date[j] \in Days /\ Ready(date[j])
  BY <1>1 DEF TypeInv, JobInOrder, OrderlyDays, Composing
<1> QED BY <1>1, <1>2, <1>3, Constants

\* A date that is ready stays so, and its filings are complete.
LEMMA ReadyStays ==
  ASSUME OrderlyInv, orderly, Surroundings, NEW d \in Nat, Ready(d)
  PROVE  Ready(d)' /\ orderly'
<1>1. orderly' = orderly /\ (d < today \/ (d = today /\ phase = "brief")) /\ today \in Nat
  BY OrderlyFacts DEF Ready, Surroundings, Crawl, Extract, BriefTime, Midnight, Leave, Ask, world
<1>2. \/ UNCHANGED <<today, phase>> \/ (UNCHANGED today /\ phase' = "brief")
      \/ today' = today + 1
  BY DEF Surroundings, Crawl, Extract, BriefTime, Midnight, Leave, Ask, world
<1> QED BY <1>1, <1>2 DEF Ready

LEMMA ReadyIsComplete ==
  ASSUME OrderlyInv, orderly, NEW d \in Nat, Ready(d)
  PROVE  \A f \in Filings : created[f] # 0 /\ created[f] <= d => f \in extracted
BY OrderlyFacts DEF Ready, OrderlyDays, CrawledAreRead

LEMMA OrderlySurroundings ==
  ASSUME OrderlyInv, orderly, Surroundings
  PROVE  OrderlyDays' /\ NothingLost'
<1>1. UNCHANGED <<job, rows, orderly>>
  BY DEF Surroundings, Crawl, Extract, BriefTime, Midnight, Leave, Ask, world
<1>2. UNCHANGED <<SentDates, Composing, Briefed>> BY <1>1 DEF job, rows, SentDates, Composing, Briefed
<1>3. CrawledAreRead'
  <2>1. /\ created \in [Filings -> 0 .. LastDay] /\ today \in Nat /\ today # 0
        /\ \A f \in Filings : created[f] \in Nat
        /\ CrawledAreRead
    BY OrderlyFacts, Constants DEF OrderlyDays, TypeOK
  <2>2. ASSUME NEW f \in Filings, Crawl(f) PROVE CrawledAreRead'
    BY <2>1, <2>2, OrderlyFacts DEF Crawl, InTime, CrawledAreRead
  <2>3. ASSUME NEW f \in Filings, Extract(f) PROVE CrawledAreRead'
    BY <2>1, <2>3 DEF Extract, CrawledAreRead
  <2>4. CASE BriefTime BY <2>1, <2>4 DEF BriefTime, CrawledAreRead
  <2>5. CASE Midnight
    <3>1. phase = "brief" /\ today' = today + 1 /\ UNCHANGED <<created, extracted>>
      BY <2>5, OrderlyFacts DEF Midnight
    <3> QED BY <2>1, <3>1 DEF CrawledAreRead
  <2>6. CASE UNCHANGED world BY <2>1, <2>6 DEF world, CrawledAreRead
  <2> QED BY <2>2, <2>3, <2>4, <2>5, <2>6 DEF Surroundings, Leave, Ask
<1>4. \A c \in Callers : asking'[c] # 0 => Ready(asking[c])'
  <2> SUFFICES ASSUME NEW c \in Callers, asking'[c] # 0 PROVE Ready(asking[c])' OBVIOUS
  <2>1. asking'[c] \in Nat /\ Ready(asking'[c])
    <3>1. asking \in [Callers -> 0 .. LastDay] /\ (asking[c] # 0 => Ready(asking[c]))
      BY OrderlyFacts DEF OrderlyDays, TypeOK
    <3>2. CASE asking'[c] = asking[c] BY <3>1, <3>2, Constants
    <3>3. ASSUME NEW d \in Days, Ask(c, d) PROVE asking'[c] \in Nat /\ Ready(asking'[c])
      BY <3>1, <3>3, Constants DEF Ask
    <3> QED BY <3>1, <3>2, <3>3
            DEF Surroundings, Crawl, Extract, BriefTime, Midnight, Leave, Ask
  <2>2. \A d \in Nat : Ready(d) => (d < today' \/ (d = today' /\ phase' = "brief")) BY ReadyStays DEF Ready
  <2> QED BY <2>1, <2>2 DEF Ready
<1>5. \A j \in Jobs : state'[j] \in {"pending", "running"} => Ready(date[j])'
  <2>1. \A j \in Jobs : date[j] \in Nat BY OrderlyFacts, Constants DEF TypeOK
  <2>2. \A d \in Nat : Ready(d) => Ready(d)' BY ReadyStays
  <2>3. \A j \in Jobs : state[j] \in {"pending", "running"} => Ready(date[j])'
    <3>1. \A j \in Jobs : state[j] \in {"pending", "running"} => Ready(date[j])
      BY OrderlyFacts DEF OrderlyDays
    <3> QED BY <1>1, <2>1, <2>2, <3>1 DEF job, Ready
  <2> QED BY <1>1, <2>3 DEF job
<1>6. \A d \in SentDates' : Ready(d)'
  <2>1. SentDates \subseteq Nat BY Constants DEF SentDates
  <2>2. \A d \in Nat : Ready(d) => Ready(d)' BY ReadyStays
  <2> QED BY <1>2, <2>1, <2>2, OrderlyFacts DEF OrderlyDays
<1>7. \A j \in Composing : InWindow(j)' = InWindow(j)
  <2> SUFFICES ASSUME NEW j \in Composing PROVE InWindow(j)' = InWindow(j) OBVIOUS
  <2>0. date[j] \in Nat /\ Ready(date[j]) /\ UNCHANGED <<since, date>> BY <1>1, OrderlyFacts DEF job
  <2>1. CASE UNCHANGED <<extracted, created>> BY <2>0, <2>1 DEF InWindow
  <2>2. ASSUME NEW f \in Filings, Crawl(f) PROVE InWindow(j)' = InWindow(j)
    <3>1. \A g \in extracted : g \in Filings /\ g # f
      BY <2>2, OrderlyFacts DEF Crawl, DeliveryInv, TypeInv, TypeOK
    <3>2. \A g \in extracted : created'[g] = created[g]
      BY <2>2, <3>1, OrderlyFacts DEF Crawl, TypeOK
    <3> QED BY <2>0, <2>2, <3>2 DEF Crawl, InWindow
  <2>3. ASSUME NEW f \in Filings, Extract(f) PROVE InWindow(j)' = InWindow(j)
    <3>1. created[f] # 0 /\ f \notin extracted BY <2>3 DEF Extract
    <3>2. ~(created[f] <= date[j]) BY <2>0, <3>1, ReadyIsComplete
    <3>3. created[f] \notin since[j] .. date[j] BY <3>2
    <3> QED BY <2>0, <2>3, <3>3 DEF Extract, InWindow
  <2> QED BY <2>1, <2>2, <2>3 DEF Surroundings, BriefTime, Midnight, Leave, Ask, world
<1>8. OrderlyDays'
  <2>1. \A j \in Composing' :
          pc'[j] \in {"insert", "send", "accepted"} => picked'[j] = InWindow(j)'
    BY <1>1, <1>2, <1>7, OrderlyFacts DEF job, OrderlyDays
  <2> QED BY <1>3, <1>4, <1>5, <1>6, <2>1 DEF OrderlyDays
<1>9. NothingLost'
  <2>1. ASSUME NEW d \in SentDates, NEW f \in Filings, created'[f] # 0, created'[f] <= d
        PROVE  created'[f] = created[f]
    <3>1. CASE Crawl(f)
      <4>1. created'[f] = today /\ d < today /\ d \in Nat
        BY <1>1, <3>1, OrderlyFacts, Constants
           DEF Crawl, InTime, OrderlyDays, Ready, TypeOK, SentDates
      <4> QED BY <2>1, <4>1, OrderlyFacts
    <3>2. CASE ~Crawl(f)
      BY <3>2, OrderlyFacts DEF Surroundings, Crawl, Extract, BriefTime, Midnight, Leave, Ask, world, TypeOK
    <3> QED BY <3>1, <3>2
  <2> QED BY <1>1, <1>2, <2>1, OrderlyFacts DEF NothingLost
<1> QED BY <1>8, <1>9

LEMMA OrderlyEnqueueing ==
  ASSUME OrderlyInv, orderly, Enqueueing
  PROVE  OrderlyDays' /\ NothingLost'
<1>1. UNCHANGED <<world, rows>> BY DEF Enqueueing, Trigger, Recompose
<1>2. UNCHANGED <<SentDates, Briefed>> /\ \A d : Ready(d)' <=> Ready(d)
  BY <1>1 DEF world, rows, SentDates, Briefed, Ready
<1>3. PICK j \in Jobs :
        /\ UNCHANGED <<pc, since, picked>> /\ state[j] = "absent"
        /\ state' = [state EXCEPT ![j] = "pending"] /\ Ready(date'[j])
        /\ \A i \in Jobs \ {j} : date'[i] = date[i]
  <2>1. ASSUME NEW c \in Callers, NEW j \in Jobs, Trigger(c, j)
        PROVE  NewJob(j, asking[c]) /\ Ready(asking[c])
    BY <2>1, OrderlyFacts DEF Trigger, OrderlyDays
  <2>2. PICK j \in Jobs : \E d : NewJob(j, d) /\ Ready(d)
    BY <2>1 DEF Enqueueing, Recompose
  <2> QED BY <2>2, OrderlyFacts DEF NewJob, TypeOK
<1>4. Composing' = Composing /\ \A i \in Composing : i \in Jobs \ {j} /\ date'[i] = date[i]
  BY <1>3, OrderlyFacts DEF Composing, TypeOK
<1>5. \A i \in Composing : InWindow(i)' = InWindow(i) BY <1>1, <1>3, <1>4 DEF InWindow, world
<1>6. \A c \in Callers : asking'[c] # 0 => Ready(asking'[c])
  BY OrderlyFacts DEF Enqueueing, Trigger, Recompose, OrderlyDays, TypeOK
<1>7. \A i \in Jobs : state'[i] \in {"pending", "running"} => Ready(date'[i])
  BY <1>3, OrderlyFacts DEF OrderlyDays, TypeOK
<1>8. OrderlyDays'
  BY <1>1, <1>2, <1>3, <1>4, <1>5, <1>6, <1>7, OrderlyFacts
     DEF OrderlyDays, CrawledAreRead, world
<1> QED BY <1>1, <1>2, <1>8, OrderlyFacts DEF NothingLost, world

\* A brief's window reaches from the last brief that was sent to its own day,
\* so a mark extends what is briefed without a gap.
LEMMA MarkLosesNothing ==
  ASSUME OrderlyInv, orderly, Parallel = FALSE, NEW j \in Jobs, MarkSent(j)
  PROVE  NothingLost'
<1> DEFINE d == date[j]
<1>1. /\ d \in Days /\ d \notin SentDates /\ SentDates' = SentDates \cup {d}
      /\ listed[d] = picked[j] /\ \A e \in SentDates : e < d
      /\ UNCHANGED <<listed, created, orderly>>
  BY OrderlyFacts, MarkSentRows DEF MarkSent, world
<1>2. Briefed' = Briefed \cup picked[j] BY <1>1 DEF Briefed
<1>3. j \in Composing /\ pc[j] = "accepted" /\ d \in Nat /\ Ready(d)
  BY <1>1, OrderlyFacts DEF MarkSent, At, Composing
<1>4. picked[j] = InWindow(j) /\ since[j] = Since(d)
  BY <1>3, OrderlyFacts DEF OrderlyDays, DeliveryInv, HandlerInv
<1>5. SentDates \subseteq Nat /\ Lookback \in Nat BY Constants DEF SentDates
<1> SUFFICES ASSUME NEW b \in SentDates', NEW f \in Filings, created[f] # 0, created[f] <= b,
                    \A e \in SentDates' :
                      created[f] >= e - Lookback \/ \E a \in SentDates' : a < e
             PROVE  f \in Briefed'
  BY <1>1 DEF NothingLost
<1>6. created[f] \in Nat /\ b \in Nat BY <1>1, <1>3, <1>5, OrderlyFacts
<1>7. created[f] <= d BY <1>1, <1>3, <1>5, <1>6
<1>8. f \in extracted BY <1>3, <1>7, ReadyIsComplete
<1>9. CASE SentDates = {}
  <2>1. Since(d) = d - Lookback BY <1>1, <1>9, SinceFacts
  <2>2. SentDates' = {d} BY <1>1, <1>9
  <2>3. created[f] >= d - Lookback BY <1>3, <2>2
  <2>4. created[f] \in since[j] .. d BY <1>3, <1>4, <1>5, <1>6, <1>7, <2>1, <2>3
  <2> QED BY <1>2, <1>4, <1>8, <2>4 DEF InWindow
<1>10. CASE SentDates # {}
  <2>1. LastBriefDate \in SentDates /\ Since(d) = LastBriefDate + 1 BY <1>1, <1>10, SinceFacts
  <2>2. CASE created[f] > LastBriefDate
    <3>1. created[f] \in since[j] .. d BY <1>3, <1>4, <1>5, <1>6, <1>7, <2>1, <2>2
    <3> QED BY <1>2, <1>4, <1>8, <3>1 DEF InWindow
  <2>3. CASE created[f] <= LastBriefDate
    <3>1. ASSUME NEW e \in SentDates
          PROVE  created[f] >= e - Lookback \/ \E a \in SentDates : a < e
      <4>1. ~(d < e) BY <1>1, <1>3, <1>5
      <4> QED BY <1>1, <4>1
    <3>2. f \in Briefed BY <2>1, <2>3, <3>1, OrderlyFacts DEF NothingLost
    <3> QED BY <1>2, <3>2
  <2> QED BY <1>5, <1>6, <2>1, <2>2, <2>3
<1> QED BY <1>9, <1>10

LEMMA OrderlyHandler ==
  ASSUME OrderlyInv, orderly, Parallel = FALSE, NEW j \in Jobs, Handler(j)
  PROVE  OrderlyDays' /\ NothingLost'
<1>1. UNCHANGED <<world, asking>> BY MailingStep, OrderlyFacts DEF DeliveryInv
<1>2. \A d : Ready(d)' <=> Ready(d) BY <1>1 DEF world, Ready
<1>3. state[j] \in {"pending", "running"} /\ Ready(date[j])
  <2>1. state[j] \in {"pending", "running"}
    BY DEF Handler, Claim, Maintenance, ReadWindow, QuietDay, ReadFilings, InsertBrief, SendAccepted,
           SendRejected, MarkSent, Complete, Abort, Reopen, At
  <2> QED BY <2>1, OrderlyFacts DEF OrderlyDays
<1>4. \A i \in Jobs : state'[i] \in {"pending", "running"} => Ready(date'[i])
  <2>1. \A i \in Jobs : state'[i] \in {"pending", "running"} =>
          date'[i] = date[i] /\ (i = j \/ state'[i] = state[i])
    BY OrderlyFacts
       DEF Handler, Claim, Maintenance, ReadWindow, QuietDay, ReadFilings, InsertBrief, SendAccepted,
           SendRejected, MarkSent, Complete, Abort, Reopen, Close, TypeOK
  <2> QED BY <1>3, <2>1, OrderlyFacts DEF OrderlyDays
<1>5. \A d \in SentDates' : Ready(d)
  <2>1. CASE SentDates' = SentDates BY <2>1, OrderlyFacts DEF OrderlyDays
  <2>2. CASE MarkSent(j) BY <1>3, <2>2, MarkSentRows, OrderlyFacts DEF OrderlyDays
  <2> QED BY <2>1, <2>2, InsertBriefRows, SendAcceptedRows, AbortRows, ReadsRows, OrderlyFacts
          DEF Handler, Reads, rows, SentDates
<1>6. \A i \in Composing' :
        pc'[i] \in {"insert", "send", "accepted"} => picked'[i] = InWindow(i)'
  <2> SUFFICES ASSUME j \in Composing', pc'[j] \in {"insert", "send", "accepted"}
               PROVE  picked'[j] = InWindow(j)'
    BY Alone, OrderlyFacts
  <2>1. CASE ReadFilings(j)
    <3>1. picked'[j] = InWindow(j) /\ UNCHANGED <<since, date>>
      BY <2>1, OrderlyFacts DEF ReadFilings, Go, TypeOK
    <3> QED BY <1>1, <3>1 DEF InWindow, world
  <2>2. CASE InsertBrief(j) \/ SendAccepted(j)
    <3>1. j \in Composing /\ pc[j] \in {"insert", "send"} /\ UNCHANGED <<since, date, picked>>
      BY <2>2 DEF InsertBrief, SendAccepted, At, Composing
    <3>2. picked[j] = InWindow(j) BY <3>1, OrderlyFacts DEF OrderlyDays
    <3> QED BY <1>1, <3>1, <3>2 DEF InWindow, world
  <2>3. CASE ~(ReadFilings(j) \/ InsertBrief(j) \/ SendAccepted(j))
    <3>1. pc'[j] \notin {"insert", "send", "accepted"}
      BY <2>3, OrderlyFacts
         DEF Handler, Claim, Maintenance, ReadWindow, QuietDay, SendRejected, MarkSent, Complete, Abort,
             Reopen, LeaveHandler, Go, TypeOK
    <3> QED BY <3>1
  <2> QED BY <2>1, <2>2, <2>3
<1>7. OrderlyDays' BY <1>1, <1>2, <1>4, <1>5, <1>6, OrderlyFacts
                     DEF OrderlyDays, CrawledAreRead, world
<1>8. NothingLost'
  <2>1. CASE MarkSent(j) BY <2>1, MarkLosesNothing
  <2>2. CASE ~MarkSent(j)
    <3>1. SentDates' = SentDates /\ \A d \in SentDates : listed'[d] = listed[d]
      BY <2>2, InsertBriefRows, SendAcceptedRows, AbortRows, ReadsRows, OrderlyFacts
         DEF Handler, Reads, rows, SentDates, SendAccepted
    <3>2. Briefed' = Briefed BY <3>1 DEF Briefed
    <3> QED BY <1>1, <3>1, <3>2, OrderlyFacts DEF NothingLost, world
  <2> QED BY <2>1, <2>2
<1> QED BY <1>7, <1>8

LEMMA OrderlyHolds ==
  ASSUME Parallel = FALSE
  PROVE  Spec => []OrderlyInv
<1>1. Init => OrderlyInv
  <2> SUFFICES ASSUME Init PROVE OrderlyInv OBVIOUS
  <2>1. SentDates = {} /\ Composing = {} BY DEF Init, SentDates, Composing
  <2>2. OrderlyDays BY <2>1 DEF Init, OrderlyDays, CrawledAreRead
  <2> QED BY <2>1, <2>2, InitDelivery DEF OrderlyInv, NothingLost
<1>2. OrderlyInv /\ DeliveryInv' /\ [Next]_vars => OrderlyInv'
  <2> SUFFICES ASSUME OrderlyInv, DeliveryInv', [Next]_vars, orderly'
               PROVE  OrderlyDays' /\ NothingLost'
    BY DEF OrderlyInv
  <2>1. orderly
    BY Steps, MailingStep DEF OrderlyInv, DeliveryInv, Surroundings, Crawl, Extract, BriefTime, Midnight,
       Leave, Ask, Enqueueing, Trigger, Recompose, world, vars
  <2>2. CASE Next BY <2>1, <2>2, Steps, OrderlySurroundings, OrderlyEnqueueing, OrderlyHandler
  <2>3. CASE UNCHANGED vars
    <3>1. UNCHANGED <<world, asking, job, rows>> BY <2>3 DEF vars
    <3>2. UNCHANGED <<SentDates, Composing, Briefed>>
      BY <3>1 DEF job, rows, SentDates, Composing, Briefed
    <3>3. \A j \in Jobs : InWindow(j)' = InWindow(j) BY <3>1 DEF InWindow, job, world
    <3>4. \A d : Ready(d)' <=> Ready(d) BY <3>1 DEF Ready, world
    <3>5. OrderlyDays'
      BY <2>1, <3>1, <3>2, <3>3, <3>4, OrderlyFacts
         DEF OrderlyDays, CrawledAreRead, world, job, Composing
    <3> QED BY <2>1, <3>1, <3>2, <3>5, OrderlyFacts DEF NothingLost, world
  <2> QED BY <2>2, <2>3
<1> QED BY <1>1, <1>2, DeliveryHolds, PTL DEF Spec

-----------------------------------------------------------------------------
\* Every variable keeps its type, with any number of workers.
THEOREM BriefTypeCorrect == Spec => []TypeOK
<1>1. TypeInv => TypeOK BY DEF TypeInv
<1> QED BY <1>1, TypeHolds, PTL

\* The windows of the briefs one worker sends do not meet, in whatever order
\* their dates are asked for, retried and recomposed.
THEOREM SentBriefsDisjointHolds ==
  ASSUME Parallel = FALSE
  PROVE  Spec => []SentBriefsDisjoint
<1>1. DeliveryInv => SentBriefsDisjoint
  <2> SUFFICES ASSUME DeliveryInv, NEW d \in SentDates, NEW e \in SentDates, d # e,
                      NEW f \in listed[d] \cap listed[e]
               PROVE  FALSE
    BY DEF SentBriefsDisjoint
  <2>1. d \in Nat /\ e \in Nat /\ created[f] \in Int
    BY Constants DEF DeliveryInv, RowsInv, Tiled, TypeInv, TypeOK, SentDates
  <2>2. /\ created[f] <= d /\ created[f] <= e
        /\ (e < d => created[f] > e) /\ (d < e => created[f] > d)
    BY DEF DeliveryInv, RowsInv, Tiled
  <2> QED BY <2>1, <2>2
<1> QED BY <1>1, DeliveryHolds, PTL

\* No step takes back a sent brief or rewrites its list.
THEOREM SentIsFinalHolds ==
  ASSUME Parallel = FALSE
  PROVE  Spec => SentIsFinal
<1>1. DeliveryInv /\ [Next]_vars
        => [\A d \in SentDates : status'[d] = "sent" /\ listed'[d] = listed[d]]_vars
  BY SentStays DEF SentDates
<1> QED BY <1>1, DeliveryHolds, PTL DEF Spec, SentIsFinal

\* A sent row lists what was mailed last, and a second mail for a date means a
\* death between the acceptance and the mark.
THEOREM MailsMatchRowHolds ==
  ASSUME Parallel = FALSE
  PROVE  Spec => []MailsMatchRow
<1>1. DeliveryInv => MailsMatchRow
  <2> SUFFICES ASSUME DeliveryInv PROVE MailsMatchRow OBVIOUS
  <2>1. \A d \in Days : lost[d] \in Nat BY DEF DeliveryInv, TypeInv, TypeOK
  <2>2. \A d \in Days : Len(mails[d]) <= 1 + lost[d]
    BY <2>1 DEF DeliveryInv, RowsInv, MailsAreCounted
  <2> QED BY <2>2 DEF DeliveryInv, RowsInv, SentMatches, MailsMatchRow
<1> QED BY <1>1, DeliveryHolds, PTL

\* On orderly days a mark leaves no filing behind.
THEOREM NothingLostHolds ==
  ASSUME Parallel = FALSE
  PROVE  Spec => []NothingLost
<1>1. OrderlyInv => NothingLost BY DEF OrderlyInv, NothingLost
<1> QED BY <1>1, OrderlyHolds, PTL

\* After the user left, only the composition under way may still mail.
THEOREM OneStrayAtMostHolds ==
  ASSUME Parallel = FALSE
  PROVE  Spec => []OneStrayAtMost
<1>1. DeliveryInv => OneStrayAtMost
  BY DEF DeliveryInv, TypeInv, TypeOK, OneWorker, StraysAreOwed, OneStrayAtMost
<1> QED BY <1>1, DeliveryHolds, PTL
=============================================================================

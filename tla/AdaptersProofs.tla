--------------------------- MODULE AdaptersProofs ---------------------------
(* Every source, every list that grows while it is read, every calendar: a  *)
(* crawl without a complaint stores what it promised, and what a complaint  *)
(* left behind the next crawl brings.                                       *)
(* Both rest on one invariant.  At every step of a job, a filing that the   *)
(* job promised is in the result, or is still to come: a unit that covers   *)
(* it is still to be asked for, the server keeps it in the set it pages,    *)
(* or - FERC, whose list moves - it stands on the next page or after it,    *)
(* because a list that is read newest first only pushes rows back.  Or it   *)
(* was on an answer that the job took for empty, and is on the record.      *)
EXTENDS Adapters, FiniteSetTheorems, TLAPS

-----------------------------------------------------------------------------
(* The inductive invariant *)

Working == Running \cup {"done"}

\* What the parts of a unit are while it is in hand.
Parts ==
  /\ daily => day \notin Weekend
  /\ pc \in Running /\ source # "ferc" /\ pc # "page" => page = 1
  /\ source \in {"ercot-nprr", "ercot-mn"} /\ pc = "row" => todo \subseteq Listed
  /\ pc = "page" => source \in {"cpuc", "njbpu"}
  /\ pc = "page" => got = {f \in view : Position(f, view) < (page - 1) * PageSize}
  /\ pc = "unit" => source \notin {"ercot-nprr", "ercot-mn"}
  /\ pc = "open" => source \in {"cpuc", "njbpu", "ercot-nprr", "ercot-mn", "puct"}
  /\ pc = "items" => source = "puct"
  /\ pc = "row" => source \in {"ercot-nprr", "ercot-mn", "puct"}

\* Of the site: nothing is dated after today, PUCT items are listed whole, and
\* an item stored in part is on the record.
Published ==
  /\ \A f \in Listed : filed[f] <= day
  /\ source = "puct" =>
       /\ \A f \in Listed, g \in Filings : Item[g] = Item[f] => g \in Listed
       /\ \A f \in stored, g \in Listed \ stored : Item[g] = Item[f] => Item[f] \in torn

\* Why the filter at the end of a crawl keeps a filing that is due.
Taken(f) ==
  /\ filed[f] >= since
  /\ source \in {"ferc", "cpuc", "njbpu"} => Own(f)
  /\ source = "vascc" => Own(f) \/ Docket(f) \in Known
  /\ source = "mdpsc" => \/ Own(f) \/ Docket(f) \in Known
                         \/ \E g \in due : Own(g) /\ Docket(g) = Docket(f)

\* The unit that brings a filing.
Covers(u, f) ==
  CASE source \in {"ferc", "cpuc", "njbpu", "puct"} -> u \in form[f].dockets
    [] source = "mdpsc" -> filed[f] \in u
    [] source = "vascc" -> u = Period(filed[f], MonthDays)
    [] source = "imm"   -> u = <<Period(filed[f], YearDays), form[f].report>>
    [] OTHER -> TRUE

Safe(f) == f \in stored \/ Masked(f)

\* The filing is in the unit in hand, on a page not read yet.
Ahead(f) ==
  /\ Covers(InHand, f)
  /\ source = "ferc" => f \in got \/ Position(f, Naming(InHand)) >= (page - 1) * PageSize

\* Where a filing that is due is, by the place of the job.
Coming(f) ==
  /\ pc = "open" /\ source \in {"cpuc", "njbpu"} => \E u \in todo : Covers(u, f)
  /\ pc = "unit" => f \in out \/ (\E u \in todo \ {InHand} : Covers(u, f)) \/ Ahead(f)
  /\ pc = "page" => f \in out \/ (\E u \in todo \ {InHand} : Covers(u, f)) \/ f \in view
  /\ pc = "items" => f \in out
  /\ pc = "row" => f \in out \/ (IF source = "puct" THEN Item[f] \in todo \/ Safe(f)
                                                    ELSE f \in todo)
  /\ pc \in {"finalize", "persist"} => f \in out \/ Safe(f)
  /\ pc = "done" /\ Whole => Safe(f)

Due == pc \in Working => \A f \in due : Taken(f)

\* What the job has already overlooked; a case in MD PSC when its filter has run.
Excused(f) == IF pc \in {"persist", "done"} THEN Overlooked(f) ELSE f \in Lost

Promises == pc \in Working /\ ~alarm => \A f \in due : Excused(f) \/ Coming(f)

\* The crawls of the calendar and what they owe.
Calendar ==
  /\ \A e \in clean : e <= day
  /\ day \in clean => tries > 0
  /\ \A f \in Listed : owed[f] \subseteq {filed[f], filed[f] + 1}
  /\ \A f \in stored : owed[f] = {}
  /\ daily /\ pc \in Working =>
       /\ tries > 0
       /\ \A f \in Listed : Own(f) /\ day \in owed[f] => f \in due

SiteInv     == TypeOK /\ Parts /\ Published
DeliveryInv == SiteInv /\ Due /\ Promises
AdaptersInv == DeliveryInv /\ Calendar /\ MissedOnlyByComplaint

-----------------------------------------------------------------------------
(* The constants, the numbers and the order of a list *)

LEMMA Constants ==
  /\ Sources \subseteq {"ferc", "cpuc", "njbpu", "mdpsc", "vascc", "imm", "caiso",
                        "ercot-nprr", "ercot-mn", "puct"}
  /\ N \in Nat /\ IsFiniteSet(Filings) /\ Filings \subseteq Nat
  /\ \A s \in Sources : /\ Watched[s] \subseteq Dockets /\ NoForm \notin Forms[s]
                        /\ \A x \in Forms[s] : /\ x.dockets \subseteq Nat /\ x.dockets # {}
                                               /\ x.report \in BOOLEAN
  /\ PageSize \in Nat \ {0} /\ MaxPages \in Nat \ {0} /\ WindowDays \in Nat \ {0}
  /\ MonthDays \in Nat \ {0} /\ YearDays \in Nat \ {0} /\ Attempts \in Nat \ {0}
  /\ LastDay \in Nat \ {0} /\ Lookback \in Nat \ {0} /\ MaxFilings \in Nat
<1>1. N \in Nat BY AdaptersAssumption DEF AdaptersAssumption
<1>2. IsFiniteSet(Filings)
  <2>1. 1 \in Int /\ N \in Int BY <1>1
  <2> QED BY <2>1, FS_Interval DEF Filings
<1>3. Filings \subseteq Nat BY <1>1 DEF Filings
<1>4. \A s \in Sources : /\ Watched[s] \subseteq Dockets /\ NoForm \notin Forms[s]
                         /\ \A x \in Forms[s] : /\ x.dockets \subseteq Nat /\ x.dockets # {}
                                                /\ x.report \in BOOLEAN
  <2> SUFFICES ASSUME NEW s \in Sources
               PROVE  /\ Watched[s] \subseteq Dockets /\ NoForm \notin Forms[s]
                      /\ \A x \in Forms[s] : /\ x.dockets \subseteq Nat /\ x.dockets # {}
                                             /\ x.report \in BOOLEAN
    OBVIOUS
  <2>1. Watched[s] \subseteq Dockets BY AdaptersAssumption DEF AdaptersAssumption
  <2>2. NoForm \notin Forms[s] /\ \A x \in Forms[s] : x.dockets # {}
    BY AdaptersAssumption DEF AdaptersAssumption
  <2>3. Forms[s] \subseteq [dockets : SUBSET Dockets, utility : BOOLEAN, report : BOOLEAN]
    BY AdaptersAssumption DEF AdaptersAssumption
  <2>4. Dockets \subseteq Nat BY AdaptersAssumption DEF AdaptersAssumption
  <2> QED BY <2>1, <2>2, <2>3, <2>4
<1>5. /\ PageSize \in Nat \ {0} /\ MaxPages \in Nat \ {0} /\ WindowDays \in Nat \ {0}
      /\ MonthDays \in Nat \ {0} /\ YearDays \in Nat \ {0} /\ Attempts \in Nat \ {0}
      /\ LastDay \in Nat \ {0}
  BY AdaptersAssumption DEF AdaptersAssumption
<1> QED BY <1>1, <1>2, <1>3, <1>4, <1>5, AdaptersAssumption DEF AdaptersAssumption

\* A set of naturals that is not empty has a least element.
LEMMA LeastIs ==
  ASSUME NEW S, S \subseteq Nat, S # {}
  PROVE  Least(S) \in S /\ \A y \in S : Least(S) <= y
<1> DEFINE Below(x) == 0 .. x - 1
           Starts == {Below(x) : x \in S}
<1>1. Starts \subseteq FiniteSubsetsOf(Nat)
  <2>1. ASSUME NEW x \in S PROVE IsFiniteSet(Below(x)) /\ Below(x) \subseteq Nat
    <3>1. 0 \in Int /\ x - 1 \in Int OBVIOUS
    <3> QED BY <3>1, FS_Interval
  <2> QED BY <2>1 DEF FiniteSubsetsOf
<1>2. IsWellFoundedOn(StrictSubsetOrdering(Nat), FiniteSubsetsOf(Nat))
  BY FS_StrictSubsetOrderingWellFounded
<1>3. \E A \in Starts : \A B \in Starts : <<B, A>> \notin StrictSubsetOrdering(Nat)
  <2>1. Starts # {} OBVIOUS
  <2> HIDE DEF Starts
  <2> QED BY <1>1, <1>2, <2>1, WFMin
<1>4. PICK x \in S : \A y \in S : <<Below(y), Below(x)>> \notin StrictSubsetOrdering(Nat)
  BY <1>3
<1>5. ASSUME NEW y \in S, y < x PROVE FALSE
  <2>1. /\ Below(y) \subseteq Below(x) /\ y \in Below(x) /\ y \notin Below(y)
        /\ Below(x) \subseteq Nat
    BY <1>5
  <2> QED BY <2>1, <1>4 DEF StrictSubsetOrdering
<1>6. \A y \in S : x <= y BY <1>5
<1> QED BY <1>6 DEF Least

\* Days fall into periods one after the other.
LEMMA PeriodFacts ==
  ASSUME NEW d \in Int, NEW length \in Nat \ {0}
  PROVE  /\ Period(d, length) \in Int
         /\ PeriodEnd(d, length) <= d - 1 /\ d - 1 < PeriodEnd(d, length) + length
         /\ d >= 1 => Period(d, length) >= 0 /\ PeriodEnd(d, length) >= 0
<1> DEFINE q == (d - 1) \div length
<1>1. q \in Int /\ length * q <= d - 1 /\ d - 1 < length * q + length
  OBVIOUS
<1>2. q * length = length * q BY <1>1
<1>3. d >= 1 => q >= 0
  OBVIOUS
<1>4. d >= 1 => q * length >= 0 BY <1>1, <1>3
<1> QED BY <1>1, <1>2, <1>3, <1>4 DEF Period, PeriodEnd

\* The positions in a list: 0, 1, ... one each, the newer first.
LEMMA Positions ==
  ASSUME filed \in [Filings -> 0 .. LastDay], NEW H, H \subseteq Filings
  PROVE  /\ IsFiniteSet(H) /\ Cardinality(H) \in Nat
         /\ \A f \in H : Position(f, H) \in 0 .. Cardinality(H) - 1
         /\ \A f, g \in H : Newer(f, g) => Position(f, H) < Position(g, H)
         /\ \A f, g \in H : Position(f, H) = Position(g, H) => f = g
         /\ \A i \in 0 .. Cardinality(H) - 1 : \E f \in H : Position(f, H) = i
<1> DEFINE before(f) == {g \in H : Newer(g, f)}
           rank == [f \in H |-> Cardinality(before(f))]
           c == Cardinality(H)
           places == 0 .. c - 1
<1>0. IsFiniteSet(H) BY Constants, FS_Subset
<1>1. c \in Nat BY <1>0, FS_CardinalityType
<1>2. /\ \A f \in H : ~Newer(f, f)
      /\ \A f, g, h \in H : Newer(f, g) /\ Newer(g, h) => Newer(f, h)
      /\ \A f, g \in H : f # g => Newer(f, g) \/ Newer(g, f)
  <2>0. Filings \subseteq Nat /\ LastDay \in Nat BY Constants
  <2>1. \A f \in H : f \in Nat /\ filed[f] \in Int BY <2>0
  <2> QED BY <2>1 DEF Newer
<1>3. ASSUME NEW f \in H PROVE IsFiniteSet(before(f)) /\ Cardinality(before(f)) \in places
  <2>1. before(f) \subseteq H \ {f} BY <1>2
  <2>2. IsFiniteSet(H \ {f}) /\ Cardinality(H \ {f}) = c - 1 BY <1>0, FS_RemoveElement
  <2>3. IsFiniteSet(before(f)) /\ Cardinality(before(f)) <= c - 1
    BY <2>1, <2>2, FS_Subset
  <2>4. Cardinality(before(f)) \in Nat BY <2>3, FS_CardinalityType
  <2> HIDE DEF c
  <2> QED BY <1>1, <2>3, <2>4
<1>4. ASSUME NEW f \in H, NEW g \in H, Newer(f, g) PROVE rank[f] < rank[g]
  <2>1. before(f) \subseteq before(g) /\ f \in before(g) /\ f \notin before(f)
    BY <1>2, <1>4
  <2>2. /\ Cardinality(before(f)) <= Cardinality(before(g))
        /\ Cardinality(before(f)) # Cardinality(before(g))
    BY <1>3, <2>1, FS_Subset
  <2>3. Cardinality(before(f)) \in Int /\ Cardinality(before(g)) \in Int BY <1>3
  <2> QED BY <2>2, <2>3
<1>5. rank \in [H -> places] BY <1>3
<1>6. ASSUME NEW f \in H, NEW g \in H, rank[f] = rank[g] PROVE f = g
  <2>1. rank[f] \in Int /\ rank[g] \in Int BY <1>5
  <2>2. ~(rank[f] < rank[g]) /\ ~(rank[g] < rank[f])
    <3> HIDE DEF rank
    <3> QED BY <1>6, <2>1
  <2> QED BY <1>2, <1>4, <2>2
<1>7. rank \in Injection(H, places) BY <1>5, <1>6 DEF Injection, IsInjective
<1>8. IsFiniteSet(places) /\ Cardinality(places) = c
  <2>1. 0 \in Int /\ c - 1 \in Int BY <1>1
  <2>2. IsFiniteSet(places) /\ Cardinality(places) = IF 0 > c - 1 THEN 0 ELSE c - 1 - 0 + 1
    BY <2>1, FS_Interval
  <2> HIDE DEF c
  <2> QED BY <1>1, <2>2
<1>9. rank \in Surjection(H, places) BY <1>0, <1>7, <1>8, FS_Injection
<1>10. \A i \in places : \E f \in H : rank[f] = i BY <1>9 DEF Surjection
<1>11. \A f \in H : rank[f] = Position(f, H) BY DEF Position
<1> HIDE DEF rank
<1> QED BY <1>0, <1>1, <1>4, <1>5, <1>6, <1>10, <1>11

\* Products with a page size.
LEMMA Offsets ==
  ASSUME NEW n \in Nat \ {0}
  PROVE  /\ (n - 1) * PageSize \in Nat /\ n * PageSize = (n - 1) * PageSize + PageSize
         /\ (n + 1 - 1) * PageSize = n * PageSize
<1>1. PageSize \in Nat BY Constants
<1>2. n * PageSize = (n - 1) * PageSize + PageSize BY <1>1
<1>3. (n - 1) * PageSize \in Int BY <1>1
<1>4. (n - 1) * PageSize >= 0
  <2>1. n - 1 >= 0 OBVIOUS
  <2> QED BY <1>1, <2>1
<1>5. n + 1 - 1 = n OBVIOUS
<1> QED BY <1>2, <1>3, <1>4, <1>5

\* A page has PageSize rows at most, and that many when the list goes on.
LEMMA PageFacts ==
  ASSUME filed \in [Filings -> 0 .. LastDay], NEW H, H \subseteq Filings,
         NEW n \in Nat \ {0}
  PROVE  /\ PageOf(H, n) \subseteq H /\ Cardinality(PageOf(H, n)) \in Nat
         /\ Cardinality(PageOf(H, n)) <= PageSize
         /\ Cardinality(H) > n * PageSize => Cardinality(PageOf(H, n)) = PageSize
<1> DEFINE low == (n - 1) * PageSize
           high == low + PageSize - 1
           places == low .. high
           P == PageOf(H, n)
           index == [f \in P |-> Position(f, H)]
<1>0. PageSize \in Nat \ {0} /\ low \in Nat /\ n * PageSize = low + PageSize
  BY Constants, Offsets
<1> HIDE DEF low
<1>1. P = {f \in H : Position(f, H) \in places} BY <1>0 DEF PageOf, low
<1>2. /\ IsFiniteSet(H) /\ Cardinality(H) \in Nat
      /\ \A f \in H : Position(f, H) \in 0 .. Cardinality(H) - 1
      /\ \A f, g \in H : Position(f, H) = Position(g, H) => f = g
      /\ \A i \in 0 .. Cardinality(H) - 1 : \E f \in H : Position(f, H) = i
  BY Positions
<1> HIDE DEF P
<1>3. IsFiniteSet(P) /\ P \subseteq H BY <1>1, <1>2, FS_Subset
<1>4. Cardinality(P) \in Nat BY <1>3, FS_CardinalityType
<1>5. IsFiniteSet(places) /\ Cardinality(places) = PageSize
  <2>1. low \in Int /\ high \in Int BY <1>0
  <2>2. /\ IsFiniteSet(places)
        /\ Cardinality(places) = IF low > high THEN 0 ELSE high - low + 1
    <3> HIDE DEF high
    <3> QED BY <2>1, FS_Interval
  <2> QED BY <1>0, <2>2
<1>6. index \in [P -> places] BY <1>1
<1>7. \A f, g \in P : index[f] = index[g] => f = g BY <1>2, <1>3
<1> HIDE DEF index, places
<1>8. index \in Injection(P, places) BY <1>6, <1>7 DEF Injection, IsInjective
<1>9. Cardinality(P) <= PageSize BY <1>3, <1>5, <1>8, FS_Injection
<1>10. ASSUME Cardinality(H) > n * PageSize PROVE Cardinality(P) = PageSize
  <2>1. ASSUME NEW i \in places PROVE \E f \in P : index[f] = i
    <3>1. i \in 0 .. Cardinality(H) - 1 BY <1>0, <1>2, <1>10 DEF places
    <3>2. PICK f \in H : Position(f, H) = i BY <1>2, <3>1
    <3>3. f \in P BY <1>1, <3>2
    <3> QED BY <3>2, <3>3 DEF index
  <2>2. index \in Surjection(P, places) BY <1>6, <2>1 DEF Surjection
  <2> QED BY <1>3, <1>5, <1>8, <2>2, FS_Injection
<1> QED BY <1>3, <1>4, <1>9, <1>10 DEF P

-----------------------------------------------------------------------------
(* What one step changes *)

Ercots == {"ercot-nprr", "ercot-mn"}

\* The steps of a running job: a unit that is taken at once, fails or is passed
\* over, a row, a step between them, a page.
UnitStep ==
  \/ CpucNothing \/ CpucNoTable \/ NjbpuNothing \/ NjbpuNoTable \/ PageFails
  \/ MdpscWindow \/ MdpscNothing \/ VasccMonth \/ VasccNothing \/ ImmFilings \/ ImmReports
  \/ ImmNothing \/ CaisoIndex \/ UnitFails \/ PuctItems \/ PuctNoItems

RowStep == NprrDocument \/ NoticeDocument \/ PuctDocuments \/ PuctNoDocuments

BetweenStep ==
  OpenSession \/ NprrListing \/ NoticeListing \/ PuctDockets \/ PuctNoDockets \/ PuctNewItems

PagedStep == CpucSearch \/ CpucPage \/ NjbpuSearch \/ NjbpuPage

Work == FercPage \/ FercNull \/ PagedStep \/ UnitStep \/ RowStep \/ BetweenStep \/ Finalize

\* What they leave alone, and the record they only add to.
Framed == /\ UNCHANGED <<site, db, clean, due, job>>
          /\ unread \subseteq unread' /\ unread' \subseteq Listed

LEMMA Steps ==
  Next <=> \/ \E x \in Forms[source] : \E d \in Dates(x) : Publish(x, d)
           \/ Midnight \/ Daily \/ Backfill \/ Work \/ Persist \/ Raises \/ Kill
BY DEF Next, Work, UnitStep, RowStep, BetweenStep, PagedStep

\* One of the units that are left is in hand.
LEMMA InHandIs == todo # {} => InHand \in todo
BY DEF InHand

\* What is listed appears once: a filing that is new was not on the list, and
\* the others stay as they are.
LEMMA PublishFacts ==
  ASSUME TypeOK, Published, NEW x \in Forms[source], NEW d \in Dates(x), Publish(x, d)
  PROVE  /\ Appearing \subseteq Filings \ Listed /\ Listed' = Listed \cup Appearing
         /\ Listed \subseteq Listed' /\ d \in Int /\ d \in 0 .. day
         /\ \A f \in Listed : form'[f] = form[f] /\ filed'[f] = filed[f] /\ owed'[f] = owed[f]
         /\ \A f \in Appearing : form'[f] = x /\ filed'[f] = d /\ owed'[f] = Chances(d)
<1> DEFINE next == Least(Filings \ Listed)
<1>1. /\ source \in Sources /\ day \in 1 .. LastDay
      /\ form \in [Filings -> Forms[source] \cup {NoForm}]
  BY DEF TypeOK
<1>2. next \in Filings \ Listed
  <2>1. Filings \ Listed # {} BY DEF Publish, Listed
  <2>2. Filings \ Listed \subseteq Nat BY Constants
  <2> QED BY <2>1, <2>2, LeastIs
<1>3. Appearing \subseteq Filings \ Listed
  <2>1. CASE source = "puct"
    <3>1. Appearing = {f \in Filings : Item[f] = Item[next]} BY <2>1 DEF Appearing
    <3>2. \A f \in Listed : Item[next] = Item[f] => next \in Listed
      BY <1>2, <2>1 DEF Published
    <3> HIDE DEF next
    <3> QED BY <1>2, <3>1, <3>2
  <2>2. CASE source # "puct"
    <3> HIDE DEF next
    <3> QED BY <1>2, <2>2 DEF Appearing, next
  <2> QED BY <2>1, <2>2
<1>4. x # NoForm
  <2>1. NoForm \notin Forms[source] BY <1>1, Constants
  <2> QED BY <2>1
<1> HIDE DEF next
<1>5. Listed \subseteq Filings BY DEF Listed
<1>6. /\ form' = [f \in Filings |-> IF f \in Appearing THEN x ELSE form[f]]
      /\ filed' = [f \in Filings |-> IF f \in Appearing THEN d ELSE filed[f]]
      /\ owed' = [f \in Filings |-> IF f \in Appearing THEN Chances(d) ELSE owed[f]]
  BY DEF Publish
<1>7. /\ \A f \in Listed : form'[f] = form[f] /\ filed'[f] = filed[f] /\ owed'[f] = owed[f]
      /\ \A f \in Appearing : form'[f] = x /\ filed'[f] = d /\ owed'[f] = Chances(d)
  BY <1>3, <1>5, <1>6
<1>8. Listed' = Listed \cup Appearing
  <2>1. \A f \in Filings : form'[f] = IF f \in Appearing THEN x ELSE form[f] BY <1>6
  <2>2. \A f \in Filings : form'[f] # NoForm <=> f \in Appearing \/ form[f] # NoForm
    BY <1>4, <2>1
  <2>3. Listed' = {f \in Filings : form'[f] # NoForm} BY DEF Listed
  <2>4. Listed = {f \in Filings : form[f] # NoForm} BY DEF Listed
  <2>5. Appearing \subseteq Filings BY <1>3
  <2> HIDE DEF Appearing
  <2> QED BY <2>2, <2>3, <2>4, <2>5
<1>9. d \in Int /\ d \in 0 .. day
  <2>1. day \in Nat \ {0} BY <1>1, Constants
  <2>2. CASE source = "imm" /\ x.report
    <3>1. YearDays \in Nat \ {0} BY Constants
    <3>2. d = PeriodEnd(day, YearDays) BY <2>2 DEF Dates
    <3>3. day \in Int BY <2>1
    <3>4. PeriodEnd(day, YearDays) <= day - 1 /\ PeriodEnd(day, YearDays) >= 0
      BY <2>1, <3>1, <3>3, PeriodFacts
    <3>5. PeriodEnd(day, YearDays) \in Int BY <3>1, <3>3, PeriodFacts DEF PeriodEnd
    <3> QED BY <2>1, <3>2, <3>4, <3>5
  <2>3. CASE ~(source = "imm" /\ x.report)
    <3>1. d \in {e \in {day - 1, day} : e > 0} BY <2>3 DEF Dates
    <3> QED BY <2>1, <3>1
  <2> QED BY <2>2, <2>3
<1> QED BY <1>3, <1>7, <1>8, <1>9

\* A step of the calendar or of a job leaves the list alone.
LEMMA SiteSame ==
  ASSUME TypeOK, UNCHANGED <<form>>
  PROVE  Listed' = Listed
BY DEF Listed

-----------------------------------------------------------------------------
(* Types *)

LEMMA TypeInit == Init => TypeOK /\ Parts
<1> SUFFICES ASSUME Init PROVE TypeOK /\ Parts OBVIOUS
<1>1. /\ LastDay \in Nat \ {0} /\ MaxPages \in Nat \ {0} /\ Attempts \in Nat \ {0}
  BY Constants
<1>2. \A s \in Sources : NoForm \notin Forms[s] BY Constants
<1>3. Listed = {} BY DEF Init, Listed
<1>4. 1 \in 1 .. LastDay /\ 0 \in 0 .. LastDay /\ 1 \in 1 .. MaxPages /\ 0 \in 0 .. Attempts
  BY <1>1
<1>5. TypeOK
  <2>1. /\ source \in Sources /\ day \in 1 .. LastDay /\ filed \in [Filings -> 0 .. LastDay]
        /\ form \in [Filings -> Forms[source] \cup {NoForm}]
        /\ owed \in [Filings -> SUBSET Weekdays]
    BY <1>4 DEF Init
  <2>2. /\ stored \subseteq Listed /\ due \subseteq Listed /\ clean \subseteq Weekdays
        /\ unread \subseteq Listed
        /\ torn \subseteq {Item[f] : f \in stored}
        /\ view \subseteq Listed /\ got \subseteq Listed /\ out \subseteq Listed
    BY DEF Init
  <2>3. /\ pc \in Running \cup {"idle", "done"} /\ pc \notin {"unit", "page", "row"}
        /\ tries \in 0 .. Attempts /\ since \in Int /\ page \in 1 .. MaxPages
    BY <1>4 DEF Init
  <2>4. daily \in BOOLEAN /\ served \in BOOLEAN /\ refilled \in BOOLEAN /\ alarm \in BOOLEAN
    BY Zenon DEF Init
  <2> QED BY <2>1, <2>2, <2>3, <2>4 DEF TypeOK
<1>6. Parts BY DEF Init, Parts, Running
<1> QED BY <1>5, <1>6

LEMMA ChancesType == ASSUME NEW d \in Int PROVE Chances(d) \subseteq Weekdays
BY DEF Chances

LEMMA PublishTypes ==
  ASSUME TypeOK, Parts, Published, NEW x \in Forms[source], NEW d \in Dates(x), Publish(x, d)
  PROVE  TypeOK' /\ Parts'
<1>1. /\ Appearing \subseteq Filings \ Listed /\ Listed' = Listed \cup Appearing
      /\ Listed \subseteq Listed' /\ d \in Int /\ d \in 0 .. day
      /\ \A f \in Listed : form'[f] = form[f] /\ filed'[f] = filed[f]
  BY PublishFacts
<1>2. UNCHANGED <<source, day, stored, torn, history, pc, job, todo, unit, out, alarm>>
  BY DEF Publish
<1>3. form' \in [Filings -> Forms[source] \cup {NoForm}] BY DEF Publish, TypeOK
<1>4. filed' \in [Filings -> 0 .. LastDay]
  <2>1. d \in 0 .. LastDay
    <3>1. LastDay \in Nat /\ day \in 1 .. LastDay BY Constants DEF TypeOK
    <3> QED BY <1>1, <3>1
  <2> QED BY <2>1 DEF Publish, TypeOK
<1>5. owed' \in [Filings -> SUBSET Weekdays]
  BY <1>1, ChancesType DEF Publish, TypeOK
<1>6. TypeOK'
  BY <1>1, <1>2, <1>3, <1>4, <1>5 DEF TypeOK, history, job, unit, Weekdays, Running
<1>7. ASSUME pc = "page"
      PROVE  got' = {f \in view' : Position(f, view)' < (page' - 1) * PageSize}
  <2>1. view \subseteq Listed /\ view' = view /\ got' = got /\ page' = page
    BY <1>2 DEF TypeOK, unit
  <2>2. ASSUME NEW f \in view PROVE Position(f, view)' = Position(f, view)
    <3>1. \A g \in view : Newer(g, f)' <=> Newer(g, f) BY <1>1, <2>1 DEF Newer
    <3> QED BY <2>1, <3>1 DEF Position
  <2>3. got = {f \in view : Position(f, view) < (page - 1) * PageSize} BY <1>7 DEF Parts
  <2> QED BY <2>1, <2>2, <2>3
<1>8. Parts'
  BY <1>1, <1>2, <1>7 DEF Parts, history, job, unit, Running
<1> QED BY <1>6, <1>8

LEMMA MidnightTypes == ASSUME TypeOK, Parts, Midnight PROVE TypeOK' /\ Parts'
<1>1. LastDay \in Nat \ {0} /\ Attempts \in Nat BY Constants
<1>2. Listed' = Listed BY SiteSame DEF Midnight
<1>3. day' \in 1 .. LastDay /\ 0 \in 0 .. Attempts BY <1>1 DEF Midnight, TypeOK
<1>4. TypeOK'
  <2>1. /\ UNCHANGED <<source, form, filed, stored, owed, torn, clean, refilled, todo, page,
                      view, got>>
        /\ tries' = 0 /\ pc' = "idle" /\ since' = 0 /\ due' = {} /\ unread' = {} /\ out' = {}
    BY DEF Midnight, db, unit
  <2>2. served' \in BOOLEAN /\ daily' \in BOOLEAN /\ alarm' \in BOOLEAN
    BY Zenon DEF Midnight
  <2>3. Weekdays' = Weekdays BY DEF Weekdays
  <2> QED BY <1>2, <1>3, <2>1, <2>2, <2>3 DEF TypeOK, Running
<1>5. Parts' BY DEF Midnight, Parts, Running
<1> QED BY <1>4, <1>5

LEMMA BeginTypes ==
  ASSUME TypeOK, Parts, NEW s \in Int, NEW promised \in SUBSET Listed, NEW units,
         Begin(s, promised, units), daily' \in BOOLEAN, tries' \in 0 .. Attempts,
         served' \in BOOLEAN, refilled' \in BOOLEAN, daily' => day \notin Weekend,
         source \in Ercots => units = {}
  PROVE  TypeOK' /\ Parts'
<1>1. MaxPages \in Nat \ {0} BY Constants
<1>2. UNCHANGED <<site, db, clean>> BY DEF Begin
<1>3. Listed' = Listed BY <1>2, SiteSame DEF site
<1>4. 1 \in 1 .. MaxPages BY <1>1
<1>5. /\ since' = s /\ due' = promised /\ unread' = {} /\ todo' = units /\ page' = 1 /\ view' = {}
      /\ got' = {} /\ out' = {} /\ alarm' = FALSE
      /\ pc' = IF units # {} /\ source \notin {"cpuc", "njbpu"} THEN "unit"
               ELSE IF HasForm THEN "open" ELSE "finalize"
  BY DEF Begin
<1>6. TypeOK'
  <2>1. pc' \in {"unit", "open", "finalize"} /\ (pc' = "unit" => todo' # {}) BY <1>5
  <2> QED BY <1>2, <1>3, <1>4, <1>5, <2>1 DEF TypeOK, site, db, Weekdays, Running
<1>7. Parts'
  <2>1. /\ pc' \in {"unit", "open", "finalize"}
        /\ pc' = "unit" => source \notin Ercots
        /\ pc' = "open" => source \in {"cpuc", "njbpu", "ercot-nprr", "ercot-mn", "puct"}
    BY <1>5 DEF HasForm
  <2>2. source' = source /\ day' = day BY <1>2 DEF site
  <2> QED BY <1>5, <2>1, <2>2 DEF Parts, Ercots
<1> QED BY <1>6, <1>7

LEMMA SinceIs == ASSUME TypeOK PROVE Since = day - 1 /\ Since \in Int /\ day \in Int
<1>1. Lookback \in Nat \ {0} /\ LastDay \in Nat /\ day \in 1 .. LastDay BY Constants DEF TypeOK
<1> QED BY <1>1 DEF Since

LEMMA WantedIs == ASSUME NEW s PROVE Wanted(s) \subseteq Listed
BY DEF Wanted

LEMMA ErcotUnits == ASSUME NEW s, source \in Ercots PROVE Units(s) = {}
BY DEF Units, Ercots

LEMMA DailyTypes == ASSUME TypeOK, Parts, Daily PROVE TypeOK' /\ Parts'
<1>1. Attempts \in Nat BY Constants
<1>2. Begin(Since, Wanted(day - 1), Units(Since)) BY DEF Daily
<1>3. /\ daily' \in BOOLEAN /\ tries' \in 0 .. Attempts /\ served' \in BOOLEAN
      /\ refilled' \in BOOLEAN /\ day \notin Weekend
  BY <1>1 DEF Daily, TypeOK
<1>4. Wanted(day - 1) \in SUBSET Listed BY WantedIs
<1> QED BY <1>2, <1>3, <1>4, SinceIs, ErcotUnits, BeginTypes

LEMMA BackfillTypes == ASSUME TypeOK, Parts, Backfill PROVE TypeOK' /\ Parts'
<1>1. /\ daily' \in BOOLEAN /\ ~daily' /\ tries' \in 0 .. Attempts /\ served' \in BOOLEAN
      /\ refilled' \in BOOLEAN /\ source \notin Ercots
  BY DEF Backfill, TypeOK, Ercots
<1>2. CASE source = "puct"
  <2>1. PICK d \in Dockets : Begin(1, {f \in Wanted(1) : Docket(f) = d}, {d})
    BY <1>2 DEF Backfill
  <2>2. {f \in Wanted(1) : Docket(f) = d} \in SUBSET Listed BY WantedIs
  <2> QED BY <1>1, <2>1, <2>2, BeginTypes
<1>3. CASE source # "puct"
  <2>1. Begin(1, Wanted(1), Units(1)) BY <1>3 DEF Backfill
  <2>2. Wanted(1) \in SUBSET Listed BY WantedIs
  <2> QED BY <1>1, <2>1, <2>2, BeginTypes
<1> QED BY <1>2, <1>3

\* A working step leaves the list, the database and the window of the job alone.
LEMMA WorkFrame ==
  ASSUME TypeOK, Framed, pc' \in Running,
         page' \in 1 .. MaxPages, view' \subseteq Listed, got' \subseteq Listed,
         out' \subseteq Listed, alarm' \in BOOLEAN,
         pc' \in {"unit", "page", "row"} => todo' # {}
  PROVE  TypeOK'
<1>0. UNCHANGED <<site, db, clean, due, job>> /\ unread' \subseteq Listed BY DEF Framed
<1>1. Listed' = Listed BY <1>0, SiteSame DEF site
<1>2. Weekdays' = Weekdays BY DEF Weekdays
<1> QED BY <1>0, <1>1, <1>2 DEF TypeOK, site, db, job, Running

\* A step that adds nothing to the record.
LEMMA NothingLost ==
  ASSUME TypeOK, UNCHANGED <<site, db, history, job>>
  PROVE  Framed
BY DEF TypeOK, Framed, history

LEMMA EndUnitTypes ==
  ASSUME TypeOK, Parts, pc \in {"unit", "page"}, NEW rows \in SUBSET Listed,
         NEW lost \in SUBSET Listed, NEW warned \in BOOLEAN, EndUnit(rows, lost, warned)
  PROVE  TypeOK' /\ Parts' /\ pc' \in Running /\ Framed
<1>1. MaxPages \in Nat \ {0} BY Constants
<1>2. /\ out' = out \cup rows /\ unread' = unread \cup lost /\ todo' = todo \ {InHand}
      /\ page' = 1 /\ view' = {} /\ got' = {} /\ alarm' = (alarm \/ warned)
      /\ pc' = IF todo' # {} THEN "unit" ELSE IF source = "puct" THEN "items" ELSE "finalize"
      /\ UNCHANGED <<site, db, clean, due, job>>
  BY DEF EndUnit, Advance
<1>3. pc' \in Running /\ pc' \notin {"page", "row", "open"} /\ (pc' = "unit" => todo' # {})
  BY <1>2 DEF Running
<1>4. 1 \in 1 .. MaxPages /\ out' \subseteq Listed BY <1>1, <1>2 DEF TypeOK
<1>5. alarm' \in BOOLEAN BY <1>2 DEF TypeOK
<1>6. Framed BY <1>2 DEF Framed, TypeOK
<1>7. TypeOK' BY <1>2, <1>3, <1>4, <1>5, <1>6, WorkFrame
<1>8. Parts'
  <2>1. source' = source /\ day' = day /\ daily' = daily BY <1>2 DEF site, job
  <2>2. source \notin Ercots BY DEF Parts, Ercots
  <2>3. pc' = "items" => source = "puct" BY <1>2
  <2> QED BY <1>2, <1>3, <2>1, <2>2, <2>3 DEF Parts, Ercots
<1> QED BY <1>3, <1>6, <1>7, <1>8

\* The rows that were asked for and did not come are on the list like the others.
LEMMA NextUnitTypes ==
  ASSUME TypeOK, Parts, pc \in {"unit", "page"}, NEW rows \in SUBSET Listed,
         NEW asked \in SUBSET Listed, NEW warned \in BOOLEAN,
         NextUnit(rows, warned) \/ PassOver(rows, asked, warned)
  PROVE  TypeOK' /\ Parts' /\ pc' \in Running /\ Framed
<1>1. {} \in SUBSET Listed /\ asked \ rows \in SUBSET Listed OBVIOUS
<1> QED BY <1>1, EndUnitTypes DEF NextUnit, PassOver

LEMMA EndRowTypes ==
  ASSUME TypeOK, Parts, pc = "row", NEW rows \in SUBSET Listed,
         NEW lost \in SUBSET Listed, NEW warned \in BOOLEAN, EndRow(rows, lost, warned)
  PROVE  TypeOK' /\ Parts' /\ pc' \in Running /\ Framed
<1>1. MaxPages \in Nat \ {0} BY Constants
<1>2. /\ out' = out \cup rows /\ unread' = unread \cup lost /\ todo' = todo \ {InHand}
      /\ page' = 1 /\ view' = {} /\ got' = {} /\ alarm' = (alarm \/ warned)
      /\ pc' = IF todo' # {} THEN "row" ELSE "finalize"
      /\ UNCHANGED <<site, db, clean, due, job>>
  BY DEF EndRow, Advance
<1>3. pc' \in Running /\ pc' \in {"row", "finalize"} /\ (pc' = "row" => todo' # {})
  BY <1>2 DEF Running
<1>4. 1 \in 1 .. MaxPages /\ out' \subseteq Listed BY <1>1, <1>2 DEF TypeOK
<1>5. alarm' \in BOOLEAN BY <1>2 DEF TypeOK
<1>6. Framed BY <1>2 DEF Framed, TypeOK
<1>7. TypeOK' BY <1>2, <1>3, <1>4, <1>5, <1>6, WorkFrame
<1>8. Parts'
  <2>1. source' = source /\ day' = day /\ daily' = daily BY <1>2 DEF site, job
  <2>2. Listed' = Listed BY <1>2, SiteSame DEF site
  <2> QED BY <1>2, <1>3, <2>1, <2>2 DEF Parts
<1> QED BY <1>3, <1>6, <1>7, <1>8

\* The next page of a set: what is there are the rows of the pages before it.
LEMMA TurnTypes ==
  ASSUME TypeOK, Parts, pc \in {"unit", "page"}, source \in {"ferc", "cpuc", "njbpu"},
         page # MaxPages, NEW rows \in SUBSET Listed, NEW set \in SUBSET Listed,
         Turn(rows, set),
         source # "ferc" => rows = {f \in set : Position(f, set) < page * PageSize}
  PROVE  TypeOK' /\ Parts' /\ pc' \in Running /\ Framed
<1>1. MaxPages \in Nat \ {0} /\ page \in 1 .. MaxPages BY Constants DEF TypeOK
<1>2. /\ page' = page + 1 /\ got' = rows /\ view' = set
      /\ pc' = IF source = "ferc" THEN "unit" ELSE "page"
      /\ UNCHANGED <<site, db, history, job, todo, out, alarm>>
  BY DEF Turn
<1>3. pc' \in Running /\ pc' \in {"unit", "page"} /\ todo' # {} BY <1>2 DEF Running, TypeOK
<1>4. page' \in 1 .. MaxPages BY <1>1, <1>2
<1>5. out' \subseteq Listed /\ alarm' \in BOOLEAN BY <1>2 DEF TypeOK
<1>0. Framed BY <1>2, NothingLost
<1>6. TypeOK' BY <1>0, <1>2, <1>3, <1>4, <1>5, WorkFrame
<1>7. Parts'
  <2>1. source' = source /\ day' = day /\ daily' = daily /\ filed' = filed
    BY <1>2 DEF site, job
  <2>2. ASSUME pc' = "page"
        PROVE  got' = {f \in view' : Position(f, view)' < (page' - 1) * PageSize}
    <3>1. (page' - 1) * PageSize = page * PageSize BY <1>1, <1>2, Offsets
    <3>2. \A f \in set : Position(f, view)' = Position(f, set)
      BY <1>2, <2>1 DEF Position, Newer
    <3>3. source # "ferc" BY <1>2, <2>2
    <3> QED BY <1>2, <3>1, <3>2, <3>3
  <2> QED BY <1>2, <1>3, <2>1, <2>2 DEF Parts
<1> QED BY <1>0, <1>3, <1>6, <1>7

\* The first n pages of a set.
LEMMA PagesSoFar ==
  ASSUME filed \in [Filings -> 0 .. LastDay], NEW H, H \subseteq Filings, NEW n \in Nat \ {0}
  PROVE  {f \in H : Position(f, H) < (n - 1) * PageSize} \cup PageOf(H, n)
           = {f \in H : Position(f, H) < n * PageSize}
<1> DEFINE low == (n - 1) * PageSize
<1>1. /\ PageSize \in Nat \ {0} /\ low \in Nat /\ n * PageSize = low + PageSize
  BY Constants, Offsets
<1>2. \A f \in H : Position(f, H) \in 0 .. Cardinality(H) - 1 BY Positions
<1>3. PageOf(H, n) = {f \in H : Position(f, H) \in low .. n * PageSize - 1} BY DEF PageOf
<1>4. Cardinality(H) \in Nat BY Positions
<1> HIDE DEF low
<1>5. \A f \in H : Position(f, H) < n * PageSize
                    <=> Position(f, H) < low \/ Position(f, H) \in low .. n * PageSize - 1
  BY <1>1, <1>2, <1>4
<1> QED BY <1>3, <1>5 DEF low

LEMMA FirstPage ==
  ASSUME filed \in [Filings -> 0 .. LastDay], NEW H, H \subseteq Filings
  PROVE  PageOf(H, 1) = {f \in H : Position(f, H) < 1 * PageSize}
<1>1. \A f \in H : Position(f, H) \in 0 .. Cardinality(H) - 1 BY Positions
<1>2. Cardinality(H) \in Nat /\ PageSize \in Nat BY Positions, Constants
<1>3. (1 - 1) * PageSize = 0 /\ 1 * PageSize = PageSize BY <1>2
<1>4. \A f \in H : ~(Position(f, H) < (1 - 1) * PageSize) BY <1>1, <1>2, <1>3
<1>5. {f \in H : Position(f, H) < (1 - 1) * PageSize} = {} BY <1>4
<1> QED BY <1>5, PagesSoFar

LEMMA SetTypes ==
  /\ \A S : InWindow(S) \subseteq S
  /\ \A u : Naming(u) \subseteq Listed
  /\ \A S, n : PageOf(S, n) \subseteq S
  /\ Listed \subseteq Filings
BY DEF InWindow, Naming, PageOf, Listed

LEMMA AskedIs == Asked \subseteq Listed
<1>1. CASE source \in {"ferc", "cpuc", "njbpu", "puct"} BY <1>1, SetTypes DEF Asked
<1>2. CASE source \notin {"ferc", "cpuc", "njbpu", "puct"} BY <1>2 DEF Asked, InWindow
<1> QED BY <1>1, <1>2

\* A result set whose rows have all been read is whole.
LEMMA WholeSet ==
  ASSUME NEW set \in SUBSET Filings, NEW rows \in SUBSET set,
         ~(Cardinality(rows) < Cardinality(set))
  PROVE  rows = set
<1>0. IsFiniteSet(set) /\ IsFiniteSet(rows) BY Constants, FS_Subset
<1>1. Cardinality(set) \in Nat /\ Cardinality(rows) \in Nat BY <1>0, FS_CardinalityType
<1>2. Cardinality(rows) <= Cardinality(set) BY <1>0, FS_Subset
<1>3. Cardinality(rows) = Cardinality(set) BY <1>1, <1>2
<1> QED BY <1>0, <1>3, FS_Subset

\* After a page of a set the next one is asked for, or the unit is over: what it
\* has not brought is on the record, or somebody was warned.
LEMMA AfterPage ==
  ASSUME NEW set \in SUBSET Filings, NEW rows \in SUBSET set, NEW n \in Nat,
         CpucAfter(set, rows, n) \/ NjbpuAfter(set, rows, n)
  PROVE  \/ n # MaxPages /\ Turn(rows, set)
         \/ \E lost \in SUBSET set : \E warned \in BOOLEAN :
              EndUnit(rows, lost, warned) /\ (~warned => rows \cup lost = set)
<1> DEFINE missing == Cardinality(rows) < Cardinality(set)
<1>1. MaxPages \in Nat BY Constants
<1>2. ~missing => rows = set BY WholeSet
<1>3. {} \in SUBSET set /\ set \ rows \in SUBSET set OBVIOUS
<1> HIDE DEF missing
<1>4. CASE CpucAfter(set, rows, n)
  <2> DEFINE warned == set # {} /\ n >= MaxPages
  <2>1. (n # MaxPages /\ Turn(rows, set)) \/ (~(missing /\ n < MaxPages) /\ NextUnit(rows, warned))
    BY <1>1, <1>4 DEF CpucAfter, missing
  <2>2. CASE ~(missing /\ n < MaxPages) /\ NextUnit(rows, warned)
    <3>1. EndUnit(rows, {}, warned) BY <2>2 DEF NextUnit
    <3>2. ~warned => rows \cup {} = set
      <4>1. set = {} => rows = set OBVIOUS
      <4> QED BY <1>1, <1>2, <2>2, <4>1
    <3>3. warned \in BOOLEAN BY Zenon
    <3> HIDE DEF warned
    <3> QED BY <1>3, <3>1, <3>2, <3>3
  <2> QED BY <2>1, <2>2
<1>5. CASE NjbpuAfter(set, rows, n)
  <2>0. n < MaxPages => n # MaxPages BY <1>1
  <2>1. \/ ~missing /\ NextUnit(rows, FALSE)
        \/ n # MaxPages /\ Turn(rows, set)
        \/ NextUnit(rows, TRUE)
        \/ PassOver(rows, set, FALSE)
    BY <1>5, <2>0, Zenon DEF NjbpuAfter, missing
  <2>2. CASE ~missing /\ NextUnit(rows, FALSE)
    <3>1. EndUnit(rows, {}, FALSE) /\ rows \cup {} = set BY <1>2, <2>2 DEF NextUnit
    <3> QED BY <1>3, <3>1
  <2>3. CASE NextUnit(rows, TRUE)
    <3>1. EndUnit(rows, {}, TRUE) BY <2>3 DEF NextUnit
    <3> QED BY <1>3, <3>1
  <2>4. CASE PassOver(rows, set, FALSE)
    <3>1. EndUnit(rows, set \ rows, FALSE) /\ rows \cup (set \ rows) = set
      BY <2>4 DEF PassOver
    <3> QED BY <1>3, <3>1
  <2> QED BY <2>1, <2>2, <2>3, <2>4
<1> QED BY <1>4, <1>5

LEMMA PagedTypes ==
  ASSUME TypeOK, Parts, PagedStep
  PROVE  TypeOK' /\ Parts' /\ pc' \in Running /\ Framed
<1>1. /\ MaxPages \in Nat \ {0} /\ page \in 1 .. MaxPages /\ view \subseteq Listed
      /\ got \subseteq Listed /\ filed \in [Filings -> 0 .. LastDay] /\ Listed \subseteq Filings
  BY Constants, SetTypes DEF TypeOK
<1>2. ASSUME NEW set \in SUBSET Listed, NEW rows \in SUBSET set,
             pc \in {"unit", "page"}, source \in {"cpuc", "njbpu"},
             rows = {f \in set : Position(f, set) < page * PageSize},
             CpucAfter(set, rows, page) \/ NjbpuAfter(set, rows, page)
      PROVE  TypeOK' /\ Parts' /\ pc' \in Running /\ Framed
  <2>0. set \in SUBSET Filings /\ rows \in SUBSET Listed /\ page \in Nat BY <1>1
  <2>1. CASE page # MaxPages /\ Turn(rows, set) BY <1>2, <2>0, <2>1, TurnTypes
  <2>2. ASSUME NEW lost \in SUBSET set, NEW warned \in BOOLEAN, EndUnit(rows, lost, warned)
        PROVE  TypeOK' /\ Parts' /\ pc' \in Running /\ Framed
    <3>1. lost \in SUBSET Listed OBVIOUS
    <3> QED BY <1>2, <2>0, <2>2, <3>1, EndUnitTypes
  <2> QED BY <1>2, <2>0, <2>1, <2>2, AfterPage
<1>3. CASE CpucSearch \/ NjbpuSearch
  <2> DEFINE set == Asked
  <2>1. pc = "unit" /\ source \in {"cpuc", "njbpu"} BY <1>3 DEF CpucSearch, NjbpuSearch
  <2>2. page = 1 BY <2>1 DEF Parts, Running
  <2>3. set \subseteq Listed /\ set \subseteq Filings /\ PageOf(set, 1) \subseteq set
    BY <1>1, AskedIs, SetTypes
  <2>4. CpucAfter(set, PageOf(set, 1), page) \/ NjbpuAfter(set, PageOf(set, 1), page)
    BY <1>3, <2>2 DEF CpucSearch, NjbpuSearch
  <2> HIDE DEF set
  <2>5. PageOf(set, 1) = {f \in set : Position(f, set) < page * PageSize}
    BY <1>1, <2>2, <2>3, FirstPage
  <2> QED BY <1>2, <2>1, <2>3, <2>4, <2>5
<1>4. CASE CpucPage \/ NjbpuPage
  <2> DEFINE rows == got \cup PageOf(view, page)
  <2>1. pc = "page" /\ source \in {"cpuc", "njbpu"} BY <1>4 DEF CpucPage, NjbpuPage
  <2>2. rows \subseteq view BY <2>1, SetTypes DEF Parts
  <2>3. CpucAfter(view, rows, page) \/ NjbpuAfter(view, rows, page)
    BY <1>4 DEF CpucPage, NjbpuPage
  <2>4. got = {f \in view : Position(f, view) < (page - 1) * PageSize} BY <2>1 DEF Parts
  <2>5. page \in Nat \ {0} /\ view \subseteq Filings BY <1>1
  <2>6. rows = {f \in view : Position(f, view) < page * PageSize}
    BY <1>1, <2>4, <2>5, PagesSoFar
  <2> HIDE DEF rows
  <2> QED BY <1>1, <1>2, <2>1, <2>2, <2>3, <2>6
<1> QED BY <1>3, <1>4 DEF PagedStep

LEMMA FercTypes ==
  ASSUME TypeOK, Parts, FercPage \/ FercNull
  PROVE  TypeOK' /\ Parts' /\ pc' \in Running /\ Framed
<1>0. got \subseteq Listed /\ InWindow(got) \subseteq got /\ Asked \subseteq Listed
  BY SetTypes, AskedIs DEF TypeOK
<1>1. CASE FercNull
  <2>1. pc = "unit" /\ PassOver(InWindow(got), Asked, FALSE) BY <1>1 DEF FercNull
  <2>2. InWindow(got) \in SUBSET Listed /\ Asked \in SUBSET Listed BY <1>0
  <2> QED BY <2>1, <2>2, NextUnitTypes
<1>2. CASE FercPage
  <2> DEFINE hits  == Naming(InHand)
             batch == PageOf(hits, page)
             rows  == got \cup batch
             last  == FercLast(batch, hits)
  <2>1. source = "ferc" /\ pc = "unit" BY <1>2 DEF FercPage
  <2>2. rows \subseteq Listed /\ InWindow(rows) \subseteq Listed /\ view \subseteq Listed
    BY SetTypes DEF TypeOK
  <2>3. NextUnit(InWindow(rows), ~last) \/ (page # MaxPages /\ Turn(rows, view))
    BY <1>2 DEF FercPage
  <2>4. (~last) \in BOOLEAN BY Zenon
  <2> HIDE DEF rows, last
  <2>5. CASE NextUnit(InWindow(rows), ~last)
    <3>1. InWindow(rows) \in SUBSET Listed /\ {} \in SUBSET Listed BY <2>2
    <3> QED BY <2>1, <2>4, <2>5, <3>1, NextUnitTypes
  <2>6. CASE page # MaxPages /\ Turn(rows, view) BY <2>1, <2>2, <2>6, TurnTypes
  <2> QED BY <2>3, <2>5, <2>6
<1> QED BY <1>1, <1>2

\* A unit that is taken at once, that fails, or that is passed over.
LEMMA UnitSteps ==
  ASSUME UnitStep
  PROVE  \/ pc = "page" /\ NextUnit(got, TRUE)
         \/ pc = "unit" /\ NextUnit({}, TRUE)
         \/ /\ pc = "unit" /\ source # "ferc"
            /\ \E warned \in BOOLEAN : NextUnit(Asked, warned) \/ PassOver({}, Asked, warned)
         \/ pc = "page" /\ \E warned \in BOOLEAN : PassOver(got, view, warned)
<1>1. CASE PageFails BY <1>1 DEF PageFails
<1>2. CASE UnitFails BY <1>2 DEF UnitFails
<1>3. CASE MdpscWindow \/ VasccMonth \/ ImmFilings \/ ImmReports \/ CaisoIndex
  BY <1>3 DEF MdpscWindow, VasccMonth, ImmFilings, ImmReports, ImmPage, CaisoIndex
<1>4. CASE CpucNothing \/ NjbpuNothing \/ MdpscNothing \/ VasccNothing \/ ImmNothing
  BY <1>4 DEF CpucNothing, NjbpuNothing, MdpscNothing, VasccNothing, ImmNothing, Nothing
<1>5. CASE PuctItems
  <2> DEFINE warned == ~daily /\ Asked = {}
  <2>1. source = "puct" /\ pc = "unit" /\ NextUnit(Asked, warned) BY <1>5 DEF PuctItems
  <2>2. warned \in BOOLEAN BY Zenon
  <2> HIDE DEF warned
  <2> QED BY <2>1, <2>2
<1>6. CASE PuctNoItems
  <2> DEFINE warned == ~daily
  <2>1. source = "puct" /\ pc = "unit" /\ PassOver({}, Asked, warned) BY <1>6 DEF PuctNoItems
  <2>2. warned \in BOOLEAN BY Zenon
  <2> HIDE DEF warned
  <2> QED BY <2>1, <2>2
<1>7. CASE CpucNoTable
  <2>1. pc = "page" /\ PassOver(got, view, page >= MaxPages) BY <1>7 DEF CpucNoTable
  <2>2. CASE page >= MaxPages
    <3>1. PassOver(got, view, TRUE) BY <2>1, <2>2 DEF PassOver, EndUnit, Advance
    <3> QED BY <2>1, <3>1
  <2>3. CASE ~(page >= MaxPages)
    <3>1. PassOver(got, view, FALSE) BY <2>1, <2>3 DEF PassOver, EndUnit, Advance
    <3> QED BY <2>1, <3>1
  <2> QED BY <2>2, <2>3
<1>8. CASE NjbpuNoTable BY <1>8 DEF NjbpuNoTable
<1> QED BY <1>1, <1>2, <1>3, <1>4, <1>5, <1>6, <1>7, <1>8 DEF UnitStep

LEMMA UnitTypes ==
  ASSUME TypeOK, Parts, UnitStep
  PROVE  TypeOK' /\ Parts' /\ pc' \in Running /\ Framed
<1>1. /\ got \in SUBSET Listed /\ view \in SUBSET Listed /\ Asked \in SUBSET Listed
      /\ {} \in SUBSET Listed
  BY AskedIs DEF TypeOK
<1>2. CASE pc = "page" /\ NextUnit(got, TRUE) BY <1>1, <1>2, NextUnitTypes
<1>3. CASE pc = "unit" /\ NextUnit({}, TRUE) BY <1>1, <1>3, NextUnitTypes
<1>4. ASSUME NEW warned \in BOOLEAN, pc = "unit",
             NextUnit(Asked, warned) \/ PassOver({}, Asked, warned)
      PROVE  TypeOK' /\ Parts' /\ pc' \in Running /\ Framed
  BY <1>1, <1>4, NextUnitTypes
<1>5. ASSUME NEW warned \in BOOLEAN, pc = "page", PassOver(got, view, warned)
      PROVE  TypeOK' /\ Parts' /\ pc' \in Running /\ Framed
  BY <1>1, <1>5, NextUnitTypes
<1> QED BY <1>2, <1>3, <1>4, <1>5, UnitSteps

\* A row whose document comes, or not.
LEMMA RowSteps ==
  ASSUME TypeOK, Parts, RowStep
  PROVE  /\ pc = "row"
         /\ \E rows \in SUBSET Listed : \E lost \in SUBSET Listed : \E warned \in BOOLEAN :
              /\ EndRow(rows, lost, warned)
              /\ ~warned => IF source = "puct" THEN rows \cup lost = Documents
                                              ELSE InHand \in rows
<1>1. {} \in SUBSET Listed /\ Documents \in SUBSET Listed BY DEF Documents
<1>2. CASE NprrDocument \/ NoticeDocument
  <2>1. source \in Ercots /\ pc = "row" /\ (NextRow({InHand}, FALSE) \/ NextRow({}, TRUE))
    BY <1>2 DEF NprrDocument, NoticeDocument, Document, Ercots
  <2>2. todo # {} /\ todo \subseteq Listed BY <2>1 DEF TypeOK, Parts, Ercots
  <2>3. {InHand} \in SUBSET Listed BY <2>2, InHandIs
  <2>4. source # "puct" BY <2>1 DEF Ercots
  <2>5. CASE NextRow({InHand}, FALSE)
    <3>1. EndRow({InHand}, {}, FALSE) BY <2>5 DEF NextRow
    <3> QED BY <1>1, <2>1, <2>3, <2>4, <3>1
  <2>6. CASE NextRow({}, TRUE)
    <3>1. EndRow({}, {}, TRUE) BY <2>6 DEF NextRow
    <3> QED BY <1>1, <2>1, <3>1
  <2> QED BY <2>1, <2>5, <2>6
<1>3. CASE PuctDocuments
  <2>1. source = "puct" /\ pc = "row" /\ EndRow(Documents, {}, FALSE)
    BY <1>3 DEF PuctDocuments, NextRow
  <2> QED BY <1>1, <2>1
<1>4. CASE PuctNoDocuments
  <2>1. source = "puct" /\ pc = "row" /\ EndRow({}, Documents, FALSE)
    BY <1>4 DEF PuctNoDocuments
  <2> QED BY <1>1, <2>1
<1> QED BY <1>2, <1>3, <1>4 DEF RowStep

LEMMA RowTypes ==
  ASSUME TypeOK, Parts, RowStep
  PROVE  TypeOK' /\ Parts' /\ pc' \in Running /\ Framed
BY RowSteps, EndRowTypes

\* The steps between the units.
LEMMA BetweenTypes ==
  ASSUME TypeOK, Parts, BetweenStep \/ Finalize
  PROVE  TypeOK' /\ Parts' /\ pc' \in Running /\ Framed
<1>1. /\ pc \in {"open", "items", "finalize"} /\ source' = source /\ day' = day
      /\ UNCHANGED <<site, db, clean, due, job, unit>>
  BY DEF BetweenStep, OpenSession, NprrListing, NoticeListing, Listing, PuctDockets,
         PuctNoDockets, PuctNewItems, Finalize, site, history
<1>0. Framed
  <2>1. \/ UNCHANGED unread
        \/ unread' = unread \cup InWindow(Listed)
    BY DEF BetweenStep, OpenSession, NprrListing, NoticeListing, Listing, PuctDockets,
           PuctNoDockets, PuctNewItems, Finalize, history
  <2> QED BY <1>1, <2>1, SetTypes DEF Framed, TypeOK
<1>2. /\ Listed' = Listed /\ page' \in 1 .. MaxPages /\ view' \subseteq Listed
      /\ got' \subseteq Listed /\ daily' = daily
  BY <1>1, SiteSame DEF TypeOK, site, unit, job
<1>3. source # "ferc" => page' = 1 BY <1>1 DEF Parts, Running, unit
<1> SUFFICES /\ pc' \in Running /\ out' \subseteq Listed /\ alarm' \in BOOLEAN
             /\ pc' # "page"
             /\ pc' \in {"unit", "row"} => todo' # {}
             /\ source \in Ercots /\ pc' = "row" => todo' \subseteq Listed
             /\ pc' = "unit" => source \notin Ercots
             /\ pc' = "open" => source \in {"cpuc", "njbpu", "ercot-nprr", "ercot-mn", "puct"}
             /\ pc' = "items" => source = "puct"
             /\ pc' = "row" => source \in {"ercot-nprr", "ercot-mn", "puct"}
  <2>1. ASSUME pc' \in Running, out' \subseteq Listed, alarm' \in BOOLEAN, pc' # "page",
               pc' \in {"unit", "row"} => todo' # {}
        PROVE  TypeOK'
    BY <1>0, <1>2, <2>1, WorkFrame
  <2>2. ASSUME /\ pc' # "page"
               /\ source \in Ercots /\ pc' = "row" => todo' \subseteq Listed
               /\ pc' = "unit" => source \notin Ercots
               /\ pc' = "open" => source \in {"cpuc", "njbpu", "ercot-nprr", "ercot-mn", "puct"}
               /\ pc' = "items" => source = "puct"
               /\ pc' = "row" => source \in {"ercot-nprr", "ercot-mn", "puct"}
        PROVE  Parts'
    BY <1>1, <1>2, <1>3, <2>2 DEF Parts, Ercots
  <2> QED BY <1>0, <2>1, <2>2
<1>4. alarm \in BOOLEAN /\ out \subseteq Listed BY DEF TypeOK
<1>5. CASE OpenSession
  BY <1>4, <1>5 DEF OpenSession, Running, Ercots
<1>6. CASE NprrListing \/ NoticeListing
  <2>1. InWindow(Listed) \subseteq Listed BY SetTypes
  <2> QED BY <1>4, <1>6, <2>1 DEF NprrListing, NoticeListing, Listing, Running, Ercots
<1>7. CASE PuctDockets \/ PuctNoDockets
  BY <1>4, <1>7 DEF PuctDockets, PuctNoDockets, Running, Ercots
<1>8. CASE PuctNewItems
  BY <1>4, <1>8 DEF PuctNewItems, Running, Ercots
<1>9. CASE Finalize
  <2>1. Kept \subseteq out BY DEF Kept, MdpscKept, VasccKept
  <2>2. alarm' \in BOOLEAN BY <1>4, <1>9 DEF Finalize
  <2> QED BY <1>4, <1>9, <2>1, <2>2 DEF Finalize, Running
<1> QED BY <1>5, <1>6, <1>7, <1>8, <1>9 DEF BetweenStep

LEMMA WorkTypes ==
  ASSUME TypeOK, Parts, Work
  PROVE  TypeOK' /\ Parts' /\ pc \in Running /\ pc' \in Running /\ Framed
<1>1. pc \in Running
  <2>1. UnitStep => pc \in {"unit", "page"} BY UnitSteps
  <2>2. RowStep => pc = "row" BY RowSteps
  <2>3. CASE FercPage \/ FercNull \/ PagedStep \/ BetweenStep \/ Finalize
    BY <2>3 DEF FercPage, FercNull, PagedStep, CpucSearch, CpucPage, NjbpuSearch, NjbpuPage,
         BetweenStep, OpenSession, NprrListing, NoticeListing, Listing, PuctDockets,
         PuctNoDockets, PuctNewItems, Finalize, Running
  <2> QED BY <2>1, <2>2, <2>3 DEF Work, Running
<1> QED BY <1>1, FercTypes, PagedTypes, UnitTypes, RowTypes, BetweenTypes DEF Work

\* What a job that is done has overlooked, when the calendar counts on it.
Spared == IF daily THEN Lost ELSE {}

\* The end of a job, in one of its ways.
LEMMA CappedTypes ==
  ASSUME TypeOK, NEW C \in Capped
  PROVE  C \subseteq out /\ C \subseteq Listed /\ (Whole => C = out)
BY DEF Capped, TypeOK

LEMMA WriteTypes ==
  ASSUME TypeOK, NEW S \in SUBSET Listed, NEW spared, Write(S, spared)
  PROVE  /\ stored' \subseteq Listed /\ torn' \subseteq {Item[f] : f \in stored'}
         /\ owed' \in [Filings -> SUBSET Weekdays]
<1>1. stored' = stored \cup S /\ stored \subseteq Listed BY DEF Write, TypeOK
<1>2. torn' \subseteq {Item[f] : f \in stored'}
  <2>1. torn \subseteq {Item[f] : f \in stored} BY DEF TypeOK
  <2>2. Partial(stored \cup S) \subseteq {Item[f] : f \in stored'} BY <1>1 DEF Partial
  <2>3. torn' \subseteq torn \cup Partial(stored \cup S) BY DEF Write
  <2> QED BY <1>1, <2>1, <2>2, <2>3
<1>3. owed' \in [Filings -> SUBSET Weekdays] BY DEF Write, TypeOK
<1> QED BY <1>1, <1>2, <1>3

LEMMA PersistTypes == ASSUME TypeOK, Parts, Persist PROVE TypeOK' /\ Parts'
<1>1. PICK C \in Capped : \E S \in SUBSET C : Write(S, Spared) /\ alarm' = (alarm \/ S # C)
  BY DEF Persist, Spared
<1>2. PICK S \in SUBSET C : Write(S, Spared) /\ alarm' = (alarm \/ S # C) BY <1>1
<1>3. S \in SUBSET Listed BY CappedTypes
<1>4. /\ UNCHANGED <<source, day, form, filed, due, unread, daily, tries, refilled, since, todo,
                     page, view, got, out>>
      /\ pc' = "done" /\ served' = (served \/ daily)
      /\ clean' = IF daily /\ ~alarm' THEN clean \cup {day} ELSE clean
  BY DEF Persist, site, unit
<1>5. Listed' = Listed /\ Weekdays' = Weekdays BY <1>4, SiteSame DEF Weekdays
<1>6. served' \in BOOLEAN /\ alarm' \in BOOLEAN BY <1>2, <1>4 DEF TypeOK
<1>7. clean' \subseteq Weekdays
  <2>1. clean \subseteq Weekdays /\ day \in 1 .. LastDay BY DEF TypeOK
  <2>2. daily => day \in Weekdays BY <2>1 DEF Parts, Weekdays
  <2> QED BY <1>4, <2>1, <2>2
<1>8. /\ stored' \subseteq Listed /\ torn' \subseteq {Item[f] : f \in stored'}
      /\ owed' \in [Filings -> SUBSET Weekdays]
  BY <1>2, <1>3, WriteTypes
<1>9. TypeOK' BY <1>4, <1>5, <1>6, <1>7, <1>8 DEF TypeOK, Running
<1>10. Parts' BY <1>4 DEF Parts, Running
<1> QED BY <1>9, <1>10

LEMMA EndTypes == ASSUME TypeOK, Parts, Raises \/ Kill PROVE TypeOK' /\ Parts'
<1>0. MaxPages \in Nat \ {0} BY Constants
<1>1. GiveUp BY DEF Raises, Kill
<1>2. /\ stored' \subseteq Listed /\ torn' \subseteq {Item[f] : f \in stored'}
      /\ owed' \in [Filings -> SUBSET Weekdays]
  <2>1. CASE Raises BY <2>1 DEF Raises, db, TypeOK
  <2>2. CASE Kill
    <3>1. PICK C \in IF pc = "persist" THEN Capped ELSE {{}} : \E S \in SUBSET C : Write(S, {})
      BY <2>2 DEF Kill
    <3>2. C \subseteq Listed BY CappedTypes
    <3>3. PICK S \in SUBSET C : Write(S, {}) BY <3>1
    <3> QED BY <3>2, <3>3, WriteTypes
  <2> QED BY <2>1, <2>2
<1>3. /\ UNCHANGED <<source, day, form, filed, clean, tries, served, refilled>>
      /\ pc' = "idle" /\ todo' = {} /\ page' = 1 /\ view' = {} /\ got' = {} /\ out' = {}
      /\ due' = {} /\ unread' = {} /\ since' = 0 /\ ~daily'
  BY <1>1 DEF GiveUp, site
<1>4. Listed' = Listed /\ Weekdays' = Weekdays BY <1>3, SiteSame DEF Weekdays
<1>5. daily' \in BOOLEAN /\ alarm' \in BOOLEAN BY <1>1, Zenon DEF GiveUp
<1>6. page' \in 1 .. MaxPages BY <1>0, <1>3
<1>7. TypeOK' BY <1>2, <1>3, <1>4, <1>5, <1>6 DEF TypeOK, Running
<1>8. Parts' BY <1>3 DEF Parts, Running
<1> QED BY <1>7, <1>8

LEMMA StutterTypes == ASSUME TypeOK, Parts, UNCHANGED vars PROVE TypeOK' /\ Parts'
<1>1. UNCHANGED <<source, day, form, filed, stored, owed, torn, clean, due, unread, pc, daily,
                  tries, served, refilled, since, todo, page, view, got, out, alarm>>
  BY DEF vars, site, db, history, job, unit
<1>2. Listed' = Listed /\ Weekdays' = Weekdays BY <1>1, SiteSame DEF Weekdays
<1>3. TypeOK' BY <1>1, <1>2 DEF TypeOK, Running
<1>4. Parts' BY <1>1, <1>2 DEF Parts, Running, Position, Newer
<1> QED BY <1>3, <1>4

-----------------------------------------------------------------------------
(* The list and the database *)

LEMMA PublishedInit == Init => Published
<1>1. Init => Listed = {} BY DEF Init, Listed
<1>2. Init => stored = {} BY DEF Init
<1> QED BY <1>1, <1>2 DEF Published

LEMMA PublishPublished ==
  ASSUME TypeOK, Published, NEW x \in Forms[source], NEW d \in Dates(x), Publish(x, d)
  PROVE  Published'
<1>1. /\ Appearing \subseteq Filings \ Listed /\ Listed' = Listed \cup Appearing
      /\ d \in Int /\ d \in 0 .. day
      /\ \A f \in Listed : filed'[f] = filed[f]
      /\ \A f \in Appearing : filed'[f] = d
  BY PublishFacts
<1>2. UNCHANGED <<source, day, stored, torn>> BY DEF Publish
<1>3. \A f \in Listed' : filed'[f] <= day'
  <2>1. d <= day BY <1>1 DEF TypeOK
  <2> QED BY <1>1, <1>2, <2>1 DEF Published
<1>4. ASSUME source = "puct", NEW f \in Listed', NEW g \in Filings, Item[g] = Item[f]
      PROVE  g \in Listed'
  <2>1. CASE f \in Listed BY <1>1, <1>4, <2>1 DEF Published
  <2>2. CASE f \in Appearing
    <3>1. Appearing = {h \in Filings : Item[h] = Item[Least(Filings \ Listed)]}
      BY <1>4 DEF Appearing
    <3> HIDE DEF Appearing
    <3>2. g \in Appearing BY <1>4, <2>2, <3>1
    <3> QED BY <1>1, <3>2
  <2> QED BY <1>1, <2>1, <2>2
<1>5. ASSUME source = "puct", NEW f \in stored, NEW g \in Listed' \ stored, Item[g] = Item[f]
      PROVE  Item[f] \in torn
  <2>1. f \in Listed /\ g \in Filings BY SetTypes, <1>1 DEF TypeOK
  <2>2. g \in Listed BY <1>5, <2>1 DEF Published
  <2> QED BY <1>5, <2>2 DEF Published
<1> QED BY <1>2, <1>3, <1>4, <1>5 DEF Published

LEMMA WritePublished ==
  ASSUME TypeOK, Published, NEW S \in SUBSET Listed, NEW spared, Write(S, spared),
         UNCHANGED site
  PROVE  Published'
<1>1. UNCHANGED <<source, day, form, filed>> /\ Listed' = Listed BY SiteSame DEF site
<1>2. stored' = stored \cup S BY DEF Write
<1>3. ASSUME source = "puct", NEW f \in stored', NEW g \in Listed \ stored', Item[g] = Item[f]
      PROVE  Item[f] \in torn'
  <2>1. Item[f] \in Partial(stored \cup S) BY <1>2, <1>3 DEF Partial
  <2> QED BY <1>3, <2>1 DEF Write
<1> QED BY <1>1, <1>3 DEF Published

LEMMA OthersPublished ==
  ASSUME TypeOK, Published, UNCHANGED <<source, form, filed, stored, torn>>,
         day' = day \/ day' = day + 1
  PROVE  Published'
<1>1. Listed' = Listed BY SiteSame
<1>2. \A f \in Listed : filed[f] <= day'
  <2>1. day \in Int /\ LastDay \in Nat BY Constants DEF TypeOK
  <2>2. \A f \in Listed : filed[f] \in Int /\ filed[f] <= day
    BY <2>1, SetTypes DEF TypeOK, Published
  <2> QED BY <2>1, <2>2
<1> QED BY <1>1, <1>2 DEF Published

LEMMA PublishedStep ==
  ASSUME TypeOK, Parts, Published, [Next]_vars
  PROVE  Published'
<1>1. CASE \E x \in Forms[source] : \E d \in Dates(x) : Publish(x, d)
  BY <1>1, PublishPublished
<1>2. CASE Midnight BY <1>2, OthersPublished DEF Midnight, db
<1>3. CASE Daily \/ Backfill
  <2>1. UNCHANGED <<site, db>> BY <1>3 DEF Daily, Backfill, Begin
  <2> QED BY <2>1, OthersPublished DEF site, db
<1>4. CASE Work
  <2>1. UNCHANGED <<site, db>> BY <1>4, WorkTypes DEF Framed
  <2> QED BY <2>1, OthersPublished DEF site, db
<1>5. CASE Persist
  <2>1. PICK C \in Capped : \E S \in SUBSET C : Write(S, Spared) BY <1>5 DEF Persist, Spared
  <2>2. PICK S \in SUBSET C : Write(S, Spared) BY <2>1
  <2>3. S \in SUBSET Listed /\ UNCHANGED site BY <1>5, CappedTypes DEF Persist
  <2> QED BY <2>2, <2>3, WritePublished
<1>6. CASE Raises BY <1>6, OthersPublished DEF Raises, GiveUp, site, db
<1>7. CASE Kill
  <2>1. PICK C \in IF pc = "persist" THEN Capped ELSE {{}} : \E S \in SUBSET C : Write(S, {})
    BY <1>7 DEF Kill
  <2>2. PICK S \in SUBSET C : Write(S, {}) BY <2>1
  <2>3. S \in SUBSET Listed BY CappedTypes
  <2>4. UNCHANGED site BY <1>7 DEF Kill, GiveUp
  <2> QED BY <2>2, <2>3, <2>4, WritePublished
<1>8. CASE UNCHANGED vars BY <1>8, OthersPublished DEF vars, site, db
<1> QED BY <1>1, <1>2, <1>3, <1>4, <1>5, <1>6, <1>7, <1>8, Steps

LEMMA TypeStep == ASSUME TypeOK, Parts, Published, [Next]_vars PROVE TypeOK' /\ Parts'
<1>1. CASE \E x \in Forms[source] : \E d \in Dates(x) : Publish(x, d) BY <1>1, PublishTypes
<1> QED BY <1>1, MidnightTypes, DailyTypes, BackfillTypes, WorkTypes, PersistTypes, EndTypes,
           StutterTypes, Steps

LEMMA SiteInvariant == Spec => []SiteInv
<1>1. Init => SiteInv BY TypeInit, PublishedInit DEF SiteInv
<1>2. SiteInv /\ [Next]_vars => SiteInv' BY TypeStep, PublishedStep DEF SiteInv
<1> QED BY <1>1, <1>2, PTL DEF Spec

\* Any source, calendar and list: the states of the model are what they are
\* declared to be - a filing is stored, due or in a result only when it is on the
\* list, and a loop over units runs only while there is one.
THEOREM AdaptersTypeCorrect == Spec => []TypeOK
<1>1. SiteInv => TypeOK BY DEF SiteInv
<1> QED BY <1>1, SiteInvariant, PTL

-----------------------------------------------------------------------------
(* What a crawl promises *)

\* A filing on the list keeps its case and its taker.
LEMMA FilingKeeps ==
  ASSUME NEW f \in Listed, source' = source, form'[f] = form[f]
  PROVE  Docket(f)' = Docket(f) /\ (Own(f)' <=> Own(f))
<1>1. Docket(f)' = Docket(f) BY DEF Docket
<1> QED BY <1>1 DEF Own, ElectricCase

\* What is known stays known.
LEMMA KnownGrows ==
  ASSUME TypeOK, source' = source, stored \subseteq stored',
         \A f \in Listed : form'[f] = form[f]
  PROVE  Known \subseteq Known'
<1>1. \A f \in stored : Docket(f)' = Docket(f) BY FilingKeeps DEF TypeOK
<1> QED BY <1>1 DEF Known

LEMMA TakenKept ==
  ASSUME TypeOK, NEW f \in due, Taken(f), UNCHANGED <<source, due, since>>,
         stored \subseteq stored',
         \A g \in Listed : form'[g] = form[g] /\ filed'[g] = filed[g]
  PROVE  Taken(f)'
<1>1. due \subseteq Listed BY DEF TypeOK
<1>2. \A g \in due : Docket(g)' = Docket(g) /\ (Own(g)' <=> Own(g)) BY <1>1, FilingKeeps
<1>3. Known \subseteq Known' BY KnownGrows
<1>4. filed'[f] = filed[f] BY <1>1
<1> QED BY <1>2, <1>3, <1>4 DEF Taken

\* A window takes what is wanted from its first day on.
LEMMA WantedTaken ==
  ASSUME TypeOK, NEW s \in Int, NEW f \in Wanted(s)
  PROVE  /\ f \in Listed /\ filed[f] >= s
         /\ source \in {"ferc", "cpuc", "njbpu"} => Own(f)
         /\ source = "vascc" => Own(f) \/ Docket(f) \in Known
         /\ source = "mdpsc" => \/ Own(f) \/ Docket(f) \in Known
                                \/ \E g \in Wanted(s) : Own(g) /\ Docket(g) = Docket(f)
<1>1. f \in Listed /\ filed[f] >= s BY DEF Wanted
<1>2. \/ Own(f)
      \/ source \in {"mdpsc", "vascc"} /\ Docket(f) \in Known
      \/ source = "mdpsc" /\ \E g \in {h \in Listed : filed[h] >= s} : Own(g) /\ Docket(g) = Docket(f)
  BY DEF Wanted
<1>3. \A g \in {h \in Listed : filed[h] >= s} : Own(g) => g \in Wanted(s) BY DEF Wanted
<1> QED BY <1>1, <1>2, <1>3

LEMMA BeginDue ==
  ASSUME TypeOK, Daily \/ Backfill
  PROVE  Due'
<1>1. ASSUME NEW s \in Int, NEW promised \in SUBSET Wanted(s), NEW units,
             Begin(s, promised, units), source = "mdpsc" => promised = Wanted(s)
      PROVE  Due'
  <2>1. /\ UNCHANGED <<source, form, filed, stored>> /\ since' = s /\ due' = promised
    BY <1>1 DEF Begin, site, db
  <2>2. ASSUME NEW f \in promised PROVE Taken(f)'
    <3>1. /\ f \in Listed /\ filed[f] >= s
          /\ source \in {"ferc", "cpuc", "njbpu"} => Own(f)
          /\ source = "vascc" => Own(f) \/ Docket(f) \in Known
          /\ source = "mdpsc" => \/ Own(f) \/ Docket(f) \in Known
                                 \/ \E g \in Wanted(s) : Own(g) /\ Docket(g) = Docket(f)
      BY WantedTaken
    <3>2. \A g \in Wanted(s) : Docket(g)' = Docket(g) /\ (Own(g)' <=> Own(g))
      BY <2>1, FilingKeeps, WantedIs
    <3>3. Known \subseteq Known' BY <2>1, KnownGrows
    <3> QED BY <1>1, <2>1, <3>1, <3>2, <3>3 DEF Taken
  <2> QED BY <2>1, <2>2 DEF Due
<1>2. CASE Daily
  <2>1. Begin(Since, Wanted(Since), Units(Since)) BY <1>2, SinceIs DEF Daily
  <2> QED BY <1>1, <2>1, SinceIs
<1>3. CASE Backfill
  <2>1. CASE source = "puct"
    <3>1. PICK d \in Dockets : Begin(1, {f \in Wanted(1) : Docket(f) = d}, {d})
      BY <1>3, <2>1 DEF Backfill
    <3>2. {f \in Wanted(1) : Docket(f) = d} \in SUBSET Wanted(1) OBVIOUS
    <3> QED BY <1>1, <2>1, <3>1, <3>2
  <2>2. CASE source # "puct"
    <3>1. Begin(1, Wanted(1), Units(1)) BY <1>3, <2>2 DEF Backfill
    <3> QED BY <1>1, <3>1
  <2> QED BY <2>1, <2>2
<1> QED BY <1>2, <1>3

LEMMA DueStep == ASSUME SiteInv, Due, [Next]_vars PROVE Due'
<1>0. TypeOK /\ Parts /\ Published BY DEF SiteInv
<1>1. ASSUME pc \in Working, UNCHANGED <<source, due, since>>, stored \subseteq stored',
             \A g \in Listed : form'[g] = form[g] /\ filed'[g] = filed[g]
      PROVE  Due'
  BY <1>0, <1>1, TakenKept DEF Due
<1>2. ASSUME NEW x \in Forms[source], NEW d \in Dates(x), Publish(x, d) PROVE Due'
  <2>1. \A g \in Listed : form'[g] = form[g] /\ filed'[g] = filed[g]
    BY <1>0, <1>2, PublishFacts
  <2>2. UNCHANGED <<source, stored, due, since, pc>> BY <1>2 DEF Publish, history, job
  <2> QED BY <1>1, <2>1, <2>2 DEF Due
<1>3. CASE Midnight \/ Raises \/ Kill
  <2>1. pc' = "idle" BY <1>3 DEF Midnight, Raises, Kill, GiveUp
  <2> QED BY <2>1 DEF Due, Working, Running
<1>4. CASE Daily \/ Backfill BY <1>0, <1>4, BeginDue
<1>5. CASE Work
  <2>1. UNCHANGED <<site, db, due, job>> /\ pc \in Running BY <1>0, <1>5, WorkTypes DEF Framed
  <2> QED BY <1>1, <2>1 DEF site, db, job, Working
<1>6. CASE Persist
  <2>1. /\ UNCHANGED <<source, form, filed, due, since>> /\ pc \in Working
        /\ stored \subseteq stored'
    BY <1>6 DEF Persist, site, Working, Running, Write
  <2> QED BY <1>1, <2>1
<1>7. CASE UNCHANGED vars
  <2>1. UNCHANGED <<source, form, filed, due, since, stored, pc>>
    BY <1>7 DEF vars, site, db, history, job
  <2> QED BY <1>1, <2>1 DEF Due
<1> QED BY <1>2, <1>3, <1>4, <1>5, <1>6, <1>7, Steps

-----------------------------------------------------------------------------
(* A filing that is due stays on its way *)

\* Every filing of the window is in a unit.
LEMMA UnitsCover ==
  ASSUME TypeOK, Published, NEW s \in Nat, NEW f \in Wanted(s),
         source \notin {"ercot-nprr", "ercot-mn", "puct"}
  PROVE  \E u \in Units(s) : Covers(u, f)
<1>1. /\ f \in Listed /\ filed[f] >= s
      /\ source \in {"ferc", "cpuc", "njbpu"} => Own(f)
  BY WantedTaken
<1>2. f \in Filings /\ filed[f] \in 0 .. LastDay /\ filed[f] <= day /\ day \in 1 .. LastDay
  BY <1>1, SetTypes DEF TypeOK, Published
<1>3. LastDay \in Nat /\ WindowDays \in Nat \ {0} /\ source \in Sources BY Constants DEF TypeOK
<1>4. filed[f] \in s .. day /\ filed[f] \in Nat /\ day \in Nat BY <1>1, <1>2, <1>3
<1>5. CASE source \in {"ferc", "cpuc", "njbpu"}
  <2>1. PICK u \in Watched[source] : u \in form[f].dockets BY <1>1, <1>5 DEF Own
  <2>2. u \in Units(s) BY <1>5, <2>1 DEF Units
  <2>3. Covers(u, f) BY <1>5, <2>1 DEF Covers
  <2> QED BY <2>2, <2>3
<1>6. CASE source = "mdpsc"
  <2> DEFINE e == filed[f] - s + 1
             i == Period(e, WindowDays)
             last == s + (i + 1) * WindowDays - 1
             u == (s + i * WindowDays) .. Least({last, day})
  <2>1. /\ i \in Int /\ i >= 0 /\ i * WindowDays <= filed[f] - s
        /\ filed[f] - s < i * WindowDays + WindowDays
    <3>1. e \in Int /\ e >= 1 /\ e - 1 = filed[f] - s BY <1>4
    <3> HIDE DEF e
    <3>2. /\ i \in Int /\ i >= 0 /\ PeriodEnd(e, WindowDays) <= e - 1
          /\ e - 1 < PeriodEnd(e, WindowDays) + WindowDays
      BY <1>3, <3>1, PeriodFacts
    <3> QED BY <3>1, <3>2 DEF PeriodEnd
  <2>2. i <= Period(day - s + 1, WindowDays)
    BY <1>3, <1>4 DEF Period
  <2>3. Period(day - s + 1, WindowDays) \in Int BY <1>3, <1>4, PeriodFacts
  <2> HIDE DEF i
  <2>4. i * WindowDays \in Int /\ (i + 1) * WindowDays = i * WindowDays + WindowDays
    BY <1>3, <2>1
  <2>5. last \in Nat /\ filed[f] <= last BY <1>3, <1>4, <2>1, <2>4
  <2>6. Least({last, day}) \in {last, day}
    <3> HIDE DEF last
    <3> QED BY <1>4, <2>5, LeastIs
  <2>7. filed[f] <= Least({last, day}) /\ Least({last, day}) \in Int
    <3> HIDE DEF last
    <3> QED BY <1>4, <2>5, <2>6
  <2>8. filed[f] \in u
    <3> HIDE DEF last
    <3> QED BY <1>4, <2>1, <2>4, <2>7
  <2>9. i \in 0 .. Period(day - s + 1, WindowDays) BY <2>1, <2>2, <2>3
  <2>10. u \in DateWindows(s) BY <2>9 DEF DateWindows
  <2> HIDE DEF u
  <2>11. u \in Units(s) /\ Covers(u, f) BY <1>6, <2>8, <2>10 DEF Units, Covers
  <2> QED BY <2>11
<1>7. CASE source = "vascc"
  <2>1. Period(filed[f], MonthDays) \in Units(s) BY <1>4, <1>7 DEF Units, Periods
  <2>2. Covers(Period(filed[f], MonthDays), f) BY <1>7 DEF Covers
  <2> QED BY <2>1, <2>2
<1>8. CASE source = "imm"
  <2> DEFINE u == <<Period(filed[f], YearDays), form[f].report>>
  <2>1. form[f].report \in BOOLEAN
    <3>1. form[f] \in Forms[source] BY <1>1, <1>2 DEF TypeOK, Listed
    <3> QED BY <1>3, <3>1, Constants
  <2>2. u \in Units(s) BY <1>4, <1>8, <2>1 DEF Units, Periods
  <2>3. Covers(u, f) BY <1>8 DEF Covers
  <2> QED BY <2>2, <2>3
<1>9. CASE source = "caiso"
  <2>1. "index" \in Units(s) /\ Covers("index", f) BY <1>9 DEF Units, Covers
  <2> QED BY <2>1
<1> QED BY <1>3, <1>5, <1>6, <1>7, <1>8, <1>9, Constants

\* Filings can be counted, so a position in a list is a number.
LEMMA CountIs == ASSUME NEW S, S \subseteq Filings PROVE IsFiniteSet(S) /\ Cardinality(S) \in Nat
BY Constants, FS_Subset, FS_CardinalityType

\* At the start of a unit everything that it covers is ahead.
LEMMA AllAhead ==
  ASSUME TypeOK', page' = 1, todo' # {}, NEW f,
         \E u \in todo' : Covers(u, f)'
  PROVE  (\E u \in todo' \ {InHand'} : Covers(u, f)') \/ Ahead(f)'
<1>1. PICK u \in todo' : Covers(u, f)' OBVIOUS
<1>2. CASE u = InHand'
  <2>1. Covers(InHand, f)' BY <1>1, <1>2
  <2>2. Position(f, Naming(InHand))' \in Nat
    <3>1. Naming(InHand)' \subseteq Filings BY DEF Naming, Listed
    <3>2. {g \in Naming(InHand)' : Newer(g, f)'} \subseteq Filings BY <3>1
    <3>3. Cardinality({g \in Naming(InHand)' : Newer(g, f)'}) \in Nat BY <3>2, CountIs
    <3> QED BY <3>3 DEF Position
  <2>3. (page' - 1) * PageSize = 0 BY Constants
  <2> QED BY <2>1, <2>2, <2>3 DEF Ahead
<1> QED BY <1>1, <1>2

LEMMA CoversSame ==
  ASSUME UNCHANGED <<source, form, filed>>, NEW f, NEW u
  PROVE  Covers(u, f)' <=> Covers(u, f)
BY DEF Covers

\* A unit that is over has brought what was in it, or it is on the record.
LEMMA EndUnitComing ==
  ASSUME TypeOK, TypeOK', pc \in {"unit", "page"}, NEW rows, NEW lost, NEW warned,
         EndUnit(rows, lost, warned), NEW f, Coming(f),
         pc = "unit" /\ Ahead(f) => f \in rows \cup lost,
         pc = "page" /\ f \in view => f \in rows \cup lost
  PROVE  f \in Lost' \/ Coming(f)'
<1>1. /\ out' = out \cup rows /\ unread' = unread \cup lost /\ todo' = todo \ {InHand}
      /\ page' = 1
      /\ pc' = IF todo' # {} THEN "unit" ELSE IF source = "puct" THEN "items" ELSE "finalize"
      /\ UNCHANGED <<source, form, filed>>
  BY DEF EndUnit, Advance, site
<1>2. f \in out' \/ f \in Lost' \/ \E u \in todo' : Covers(u, f)'
  BY <1>1, CoversSame DEF Coming, Lost
<1>3. CASE todo' = {} BY <1>1, <1>2, <1>3 DEF Coming
<1>4. CASE todo' # {}
  <2>1. pc' = "unit" BY <1>1, <1>4
  <2>2. CASE f \in out' BY <2>1, <2>2 DEF Coming
  <2>3. CASE \E u \in todo' : Covers(u, f)'
    <3>1. (\E u \in todo' \ {InHand'} : Covers(u, f)') \/ Ahead(f)'
      BY <1>1, <1>4, <2>3, AllAhead
    <3> QED BY <2>1, <3>1 DEF Coming
  <2> QED BY <1>2, <2>2, <2>3
<1> QED BY <1>3, <1>4

LEMMA NextUnitComing ==
  ASSUME TypeOK, TypeOK', pc \in {"unit", "page"}, NEW rows, NEW asked, NEW warned,
         NEW f, Coming(f),
         \/ /\ NextUnit(rows, warned)
            /\ pc = "unit" /\ Ahead(f) => f \in rows
            /\ pc = "page" /\ f \in view => f \in rows
         \/ /\ PassOver(rows, asked, warned)
            /\ pc = "unit" /\ Ahead(f) => f \in asked
            /\ pc = "page" /\ f \in view => f \in asked
  PROVE  f \in Lost' \/ Coming(f)'
<1>1. CASE /\ NextUnit(rows, warned)
           /\ pc = "unit" /\ Ahead(f) => f \in rows
           /\ pc = "page" /\ f \in view => f \in rows
  <2>1. EndUnit(rows, {}, warned) BY <1>1 DEF NextUnit
  <2>2. /\ pc = "unit" /\ Ahead(f) => f \in rows \cup {}
        /\ pc = "page" /\ f \in view => f \in rows \cup {}
    BY <1>1
  <2> QED BY <2>1, <2>2, EndUnitComing
<1>2. CASE /\ PassOver(rows, asked, warned)
           /\ pc = "unit" /\ Ahead(f) => f \in asked
           /\ pc = "page" /\ f \in view => f \in asked
  <2>1. EndUnit(rows, asked \ rows, warned) BY <1>2 DEF PassOver
  <2>2. /\ pc = "unit" /\ Ahead(f) => f \in rows \cup (asked \ rows)
        /\ pc = "page" /\ f \in view => f \in rows \cup (asked \ rows)
    BY <1>2
  <2> QED BY <2>1, <2>2, EndUnitComing
<1> QED BY <1>1, <1>2

\* What is ahead of the unit in hand and in the window is what the unit is asked for.
LEMMA AheadAsked ==
  ASSUME NEW f \in Listed, filed[f] >= since, Ahead(f)
  PROVE  f \in Asked
<1>1. Covers(InHand, f) BY DEF Ahead
<1>2. CASE source \in {"ferc", "cpuc", "njbpu", "puct"}
  BY <1>1, <1>2 DEF Covers, Asked, Naming, InWindow
<1>3. CASE source = "mdpsc" BY <1>1, <1>3 DEF Covers, Asked
<1>4. CASE source = "vascc" BY <1>1, <1>4 DEF Covers, Asked, InWindow
<1>5. CASE source = "imm"
  <2>1. InHand = <<Period(filed[f], YearDays), form[f].report>> BY <1>1, <1>5 DEF Covers
  <2>2. InHand[1] = Period(filed[f], YearDays) /\ InHand[2] = form[f].report BY <2>1
  <2> QED BY <1>5, <2>2 DEF Asked, InWindow
<1>6. CASE source \notin {"ferc", "cpuc", "njbpu", "puct", "mdpsc", "vascc", "imm"}
  BY <1>6 DEF Asked, InWindow
<1> QED BY <1>2, <1>3, <1>4, <1>5, <1>6

\* A last page has what is left of the window: it is short, or the list counts
\* no more rows, or it ends before the window and the list is newest first.
LEMMA LastPage ==
  ASSUME TypeOK, NEW H \in SUBSET Listed, NEW f \in H, filed[f] >= since,
         Position(f, H) >= (page - 1) * PageSize, FercLast(PageOf(H, page), H)
  PROVE  f \in PageOf(H, page)
<1> DEFINE P == PageOf(H, page)
<1>1. /\ filed \in [Filings -> 0 .. LastDay] /\ H \subseteq Filings /\ since \in Int
      /\ page \in Nat \ {0} /\ LastDay \in Nat
  BY SetTypes, Constants DEF TypeOK
<1>2. /\ PageSize \in Nat \ {0} /\ (page - 1) * PageSize \in Nat
      /\ page * PageSize = (page - 1) * PageSize + PageSize
  BY <1>1, Constants, Offsets
<1>3. /\ P \subseteq H /\ Cardinality(P) \in Nat /\ Cardinality(P) <= PageSize
      /\ Cardinality(H) > page * PageSize => Cardinality(P) = PageSize
  BY <1>1, PageFacts
<1>4. /\ Cardinality(H) \in Nat
      /\ \A g \in H : Position(g, H) \in 0 .. Cardinality(H) - 1
      /\ \A g, h \in H : Newer(g, h) => Position(g, H) < Position(h, H)
  BY <1>1, Positions
<1>5. P = {g \in H : Position(g, H) \in (page - 1) * PageSize .. page * PageSize - 1}
  BY DEF PageOf
<1> SUFFICES ASSUME f \notin P PROVE FALSE OBVIOUS
<1> HIDE DEF P
<1>6. Position(f, H) >= page * PageSize /\ Position(f, H) \in 0 .. Cardinality(H) - 1
  <2>1. Position(f, H) \in 0 .. Cardinality(H) - 1 BY <1>4
  <2>2. Position(f, H) \notin (page - 1) * PageSize .. page * PageSize - 1 BY <1>5
  <2> QED BY <1>2, <1>4, <2>1, <2>2
<1>7. Cardinality(H) > page * PageSize BY <1>2, <1>4, <1>6
<1>8. ~(Cardinality(P) < PageSize) /\ ~((page - 1) * PageSize + Cardinality(P) >= Cardinality(H))
  BY <1>2, <1>3, <1>4, <1>7
<1>9. PICK g \in P : filed[g] < since BY <1>8 DEF FercLast, P
<1>10. g \in H /\ Position(g, H) < Position(f, H)
  <2>1. g \in H /\ Position(g, H) \in (page - 1) * PageSize .. page * PageSize - 1 BY <1>5
  <2> QED BY <1>2, <1>4, <1>6, <2>1
<1>11. ~Newer(f, g) BY <1>4, <1>10
<1>12. filed[f] <= filed[g]
  <2>1. filed[f] \in Int /\ filed[g] \in Int BY <1>1, <1>10
  <2> QED BY <1>11, <2>1 DEF Newer
<1> QED BY <1>1, <1>9, <1>10, <1>12

LEMMA FercComing ==
  ASSUME TypeOK, Parts, FercPage, ~alarm', NEW f \in due, Taken(f), Coming(f)
  PROVE  f \in Lost' \/ Coming(f)'
<1> DEFINE hits  == Naming(InHand)
           batch == PageOf(hits, page)
           rows  == got \cup batch
<1>0. TypeOK' /\ UNCHANGED <<source, form, filed>> /\ f \in Listed
  BY FercTypes DEF Framed, site, TypeOK
<1>1. source = "ferc" /\ pc = "unit" BY DEF FercPage
<1>2. filed[f] >= since BY DEF Taken
<1>3. Ahead(f) => f \in hits /\ (f \in got \/ Position(f, hits) >= (page - 1) * PageSize)
  BY <1>0, <1>1 DEF Ahead, Covers, Naming
<1>4. hits \in SUBSET Listed BY SetTypes
<1>5. \/ NextUnit(InWindow(rows), ~FercLast(batch, hits))
      \/ Turn(rows, view)
  BY DEF FercPage
<1> HIDE DEF hits
<1>6. CASE NextUnit(InWindow(rows), ~FercLast(batch, hits))
  <2>1. FercLast(batch, hits) BY <1>6 DEF NextUnit, EndUnit, Advance
  <2>2. Ahead(f) => f \in rows BY <1>2, <1>3, <1>4, <2>1, LastPage
  <2>3. Ahead(f) => f \in InWindow(rows) BY <1>2, <2>2 DEF InWindow
  <2> HIDE DEF rows, batch
  <2> QED BY <1>0, <1>1, <1>6, <2>3, NextUnitComing
<1>7. CASE Turn(rows, view)
  <2>1. /\ page' = page + 1 /\ got' = rows /\ pc' = "unit" /\ todo' = todo /\ out' = out
        /\ source' = source
    BY <1>1, <1>7 DEF Turn, site
  <2>2. InHand' = InHand /\ Listed' = Listed BY <1>0, <2>1 DEF InHand, Listed
  <2>3. page \in Nat \ {0} /\ PageSize \in Nat BY Constants DEF TypeOK
  <2>4. (page' - 1) * PageSize = page * PageSize BY <2>1, <2>3, Offsets
  <2>5. Ahead(f) => f \in rows \/ Position(f, hits) >= page * PageSize
    <3>1. ASSUME f \in hits, Position(f, hits) >= (page - 1) * PageSize, f \notin batch
          PROVE  Position(f, hits) >= page * PageSize
      <4>1. Position(f, hits) \notin (page - 1) * PageSize .. page * PageSize - 1
        BY <3>1 DEF PageOf
      <4>2. {g \in hits : Newer(g, f)} \subseteq Filings BY <1>4, SetTypes
      <4>3. Position(f, hits) \in Nat BY <4>2, CountIs DEF Position
      <4>4. (page - 1) * PageSize \in Nat /\ page * PageSize = (page - 1) * PageSize + PageSize
        BY <2>3, Offsets
      <4> QED BY <2>3, <3>1, <4>1, <4>3, <4>4
    <3> QED BY <1>3, <3>1
  <2>6. Ahead(f) => Ahead(f)'
    <3>1. Position(f, Naming(InHand))' = Position(f, hits)
      <4>1. Naming(InHand)' = hits BY <1>0, <2>2 DEF Naming, hits
      <4> QED BY <1>0, <4>1 DEF Position, Newer
    <3>2. Covers(InHand, f)' <=> Covers(InHand, f) BY <1>0, <2>2 DEF Covers
    <3> QED BY <2>1, <2>4, <2>5, <3>1, <3>2 DEF Ahead
  <2>7. \A u : Covers(u, f)' <=> Covers(u, f) BY <1>0, CoversSame
  <2> HIDE DEF rows
  <2> QED BY <1>1, <2>1, <2>2, <2>6, <2>7 DEF Coming
<1> QED BY <1>5, <1>6, <1>7

\* An answer without hits ends the docket: the pages before it are kept, and the
\* rest of the window is on the record.
LEMMA NullComing ==
  ASSUME TypeOK, Parts, FercNull, NEW f \in due, Taken(f), Coming(f)
  PROVE  f \in Lost' \/ Coming(f)'
<1>1. TypeOK' /\ f \in Listed /\ filed[f] >= since BY FercTypes DEF TypeOK, Taken
<1>2. pc = "unit" /\ PassOver(InWindow(got), Asked, FALSE) BY DEF FercNull
<1>3. Ahead(f) => f \in Asked BY <1>1, AheadAsked
<1> QED BY <1>1, <1>2, <1>3, NextUnitComing

LEMMA AfterComing ==
  ASSUME TypeOK, TypeOK', pc \in {"unit", "page"}, source \in {"cpuc", "njbpu"}, ~alarm',
         NEW set \in SUBSET Filings, NEW rows \in SUBSET set, NEW n \in Nat,
         CpucAfter(set, rows, n) \/ NjbpuAfter(set, rows, n),
         NEW f, Coming(f),
         pc = "unit" /\ Ahead(f) => f \in set, pc = "page" => view = set
  PROVE  f \in Lost' \/ Coming(f)'
<1>1. CASE Turn(rows, set)
  <2>1. /\ pc' = "page" /\ view' = set /\ todo' = todo /\ out' = out
        /\ UNCHANGED <<source, form, filed>>
    BY <1>1 DEF Turn, site
  <2>2. InHand' = InHand BY <2>1 DEF InHand
  <2>3. \A u : Covers(u, f)' <=> Covers(u, f) BY <2>1, CoversSame
  <2> QED BY <2>1, <2>2, <2>3 DEF Coming
<1>2. ASSUME NEW lost \in SUBSET set, NEW warned \in BOOLEAN, EndUnit(rows, lost, warned),
             ~warned => rows \cup lost = set
      PROVE  f \in Lost' \/ Coming(f)'
  <2>1. ~warned BY <1>2 DEF EndUnit, Advance
  <2> QED BY <1>2, <2>1, EndUnitComing
<1> QED BY <1>1, <1>2, AfterPage

LEMMA PagedComing ==
  ASSUME TypeOK, Parts, PagedStep, ~alarm', NEW f \in due, Taken(f), Coming(f)
  PROVE  f \in Lost' \/ Coming(f)'
<1>0. TypeOK' /\ Listed \subseteq Filings /\ page \in Nat /\ f \in Listed /\ filed[f] >= since
  BY PagedTypes, SetTypes, Constants DEF TypeOK, Taken
<1>1. CASE CpucSearch \/ NjbpuSearch
  <2> DEFINE set == Asked
  <2>1. pc = "unit" /\ source \in {"cpuc", "njbpu"} BY <1>1 DEF CpucSearch, NjbpuSearch
  <2>2. set \in SUBSET Filings /\ PageOf(set, 1) \in SUBSET set BY <1>0, AskedIs, SetTypes
  <2>3. CpucAfter(set, PageOf(set, 1), 1) \/ NjbpuAfter(set, PageOf(set, 1), 1)
    BY <1>1 DEF CpucSearch, NjbpuSearch
  <2>4. Ahead(f) => f \in set BY <1>0, AheadAsked
  <2> HIDE DEF set
  <2> QED BY <1>0, <2>1, <2>2, <2>3, <2>4, AfterComing
<1>2. CASE CpucPage \/ NjbpuPage
  <2> DEFINE rows == got \cup PageOf(view, page)
  <2>1. pc = "page" /\ source \in {"cpuc", "njbpu"} BY <1>2 DEF CpucPage, NjbpuPage
  <2>2. CpucAfter(view, rows, page) \/ NjbpuAfter(view, rows, page)
    BY <1>2 DEF CpucPage, NjbpuPage
  <2>3. view \in SUBSET Filings BY <1>0 DEF TypeOK
  <2>4. rows \in SUBSET view
    <3>1. got \subseteq view BY <2>1 DEF Parts
    <3> QED BY <3>1, SetTypes
  <2> HIDE DEF rows
  <2> QED BY <1>0, <2>1, <2>2, <2>3, <2>4, AfterComing
<1> QED BY <1>1, <1>2 DEF PagedStep

LEMMA UnitComing ==
  ASSUME TypeOK, Parts, UnitStep, ~alarm', NEW f \in due, Taken(f), Coming(f)
  PROVE  f \in Lost' \/ Coming(f)'
<1>0. TypeOK' /\ f \in Listed /\ filed[f] >= since BY UnitTypes DEF TypeOK, Taken
<1>1. Ahead(f) => f \in Asked BY <1>0, AheadAsked
<1>2. CASE NextUnit(got, TRUE) \/ NextUnit({}, TRUE)
  BY <1>2 DEF NextUnit, EndUnit, Advance
<1>3. ASSUME NEW warned \in BOOLEAN, pc = "unit",
             NextUnit(Asked, warned) \/ PassOver({}, Asked, warned)
      PROVE  f \in Lost' \/ Coming(f)'
  BY <1>0, <1>1, <1>3, NextUnitComing
<1>4. ASSUME NEW warned \in BOOLEAN, pc = "page", PassOver(got, view, warned)
      PROVE  f \in Lost' \/ Coming(f)'
  BY <1>0, <1>4, NextUnitComing
<1> QED BY <1>2, <1>3, <1>4, UnitSteps

LEMMA RowComing ==
  ASSUME TypeOK, Parts, RowStep, ~alarm', NEW f \in due, Coming(f)
  PROVE  f \in Lost' \/ Coming(f)'
<1>1. pc = "row" /\ f \in Listed BY RowSteps DEF TypeOK
<1>2. ASSUME NEW rows, NEW lost, NEW warned \in BOOLEAN, EndRow(rows, lost, warned),
             ~warned => IF source = "puct" THEN rows \cup lost = Documents ELSE InHand \in rows
      PROVE  f \in Lost' \/ Coming(f)'
  <2>1. /\ out' = out \cup rows /\ unread' = unread \cup lost /\ todo' = todo \ {InHand}
        /\ pc' = IF todo' # {} THEN "row" ELSE "finalize"
        /\ UNCHANGED <<source, stored, torn>> /\ ~warned
    BY <1>2 DEF EndRow, Advance, site, db
  <2>2. Safe(f)' <=> Safe(f) BY <2>1 DEF Safe, Masked
  <2>3. IF source = "puct" THEN Item[f] = InHand => f \in rows \cup lost ELSE InHand \in rows
    BY <1>1, <1>2, <2>1 DEF Documents
  <2>4. \/ f \in out' \/ f \in Lost'
        \/ IF source = "puct" THEN Item[f] \in todo' \/ Safe(f) ELSE f \in todo'
    BY <1>1, <2>1, <2>3 DEF Coming, Lost
  <2> QED BY <2>1, <2>2, <2>4 DEF Coming
<1> QED BY <1>2, RowSteps

\* A docket of a filing is one of those it names.
LEMMA DocketIs == ASSUME TypeOK, NEW f \in Listed PROVE Docket(f) \in form[f].dockets
<1>1. form[f] \in Forms[source] /\ source \in Sources BY DEF TypeOK, Listed
<1>2. form[f].dockets \subseteq Nat /\ form[f].dockets # {} BY <1>1, Constants
<1> QED BY <1>2, LeastIs DEF Docket

\* The units are known: what they cover is ahead of the first of them.
LEMMA OpenComing ==
  ASSUME TypeOK', page' = 1, pc' = IF todo' = {} THEN "finalize" ELSE "unit", NEW f,
         \E u \in todo' : Covers(u, f)'
  PROVE  Coming(f)'
<1>1. todo' # {} /\ pc' = "unit" OBVIOUS
<1>2. (\E u \in todo' \ {InHand'} : Covers(u, f)') \/ Ahead(f)' BY <1>1, AllAhead
<1> QED BY <1>1, <1>2 DEF Coming

LEMMA BetweenComing ==
  ASSUME TypeOK, Parts, Published,
         BetweenStep, ~alarm', NEW f \in due, Taken(f), Coming(f)
  PROVE  f \in Lost' \/ Coming(f)'
<1>0. /\ TypeOK' /\ UNCHANGED <<source, form, filed, stored, torn>>
      /\ f \in Listed /\ filed[f] >= since
  BY BetweenTypes DEF Framed, site, db, TypeOK, Taken
<1>1. /\ \A u : Covers(u, f)' <=> Covers(u, f)
      /\ Safe(f)' <=> Safe(f)
  BY <1>0, CoversSame DEF Safe, Masked
<1>2. CASE OpenSession
  <2>1. /\ source \in {"cpuc", "njbpu"} /\ pc = "open" /\ todo' = todo /\ page' = page
        /\ pc' = IF todo' = {} THEN "finalize" ELSE "unit"
    BY <1>2 DEF OpenSession, unit
  <2>2. page = 1 BY <2>1 DEF Parts, Running
  <2>3. \E u \in todo' : Covers(u, f)' BY <1>1, <2>1 DEF Coming
  <2> QED BY <1>0, <2>1, <2>2, <2>3, OpenComing
<1>3. CASE NprrListing \/ NoticeListing
  <2>1. source # "puct" /\ Listing BY <1>3 DEF NprrListing, NoticeListing
  <2>2. f \in InWindow(Listed) BY <1>0 DEF InWindow
  <2>3. CASE todo' = InWindow(Listed) /\ pc' = "row"
    BY <1>0, <2>1, <2>2, <2>3 DEF Coming
  <2>4. CASE pc' = "finalize" /\ unread' = unread \cup InWindow(Listed)
    BY <2>2, <2>4 DEF Coming, Lost
  <2> QED BY <2>1, <2>2, <2>3, <2>4 DEF Listing
<1>4. CASE PuctDockets
  <2> DEFINE named == {Docket(g) : g \in InWindow(Listed)}
  <2>1. /\ source = "puct" /\ pc = "open" /\ todo' = named /\ page' = page
        /\ pc' = IF named = {} THEN "items" ELSE "unit"
    BY <1>4 DEF PuctDockets, unit
  <2>2. page = 1 BY <2>1 DEF Parts, Running
  <2>3. Docket(f) \in named BY <1>0 DEF InWindow
  <2>4. Covers(Docket(f), f) BY <1>0, <2>1, DocketIs DEF Covers
  <2> HIDE DEF named
  <2>5. \E u \in todo' : Covers(u, f)' BY <1>1, <2>1, <2>3, <2>4
  <2>6. pc' = IF todo' = {} THEN "finalize" ELSE "unit" BY <2>1, <2>3
  <2> QED BY <1>0, <2>1, <2>2, <2>5, <2>6, OpenComing
<1>5. CASE PuctNewItems
  <2>1. /\ source = "puct" /\ pc = "items" /\ todo' = NewItems
        /\ pc' = IF NewItems = {} THEN "finalize" ELSE "row"
    BY <1>5 DEF PuctNewItems
  <2>2. f \in out BY <2>1 DEF Coming
  <2>3. CASE Item[f] \in NewItems BY <1>0, <2>1, <2>3 DEF Coming
  <2>4. CASE Item[f] \notin NewItems
    <3>1. PICK g \in stored : Item[g] = Item[f] BY <2>2, <2>4 DEF NewItems
    <3>2. f \in stored \/ Item[g] \in torn BY <1>0, <2>1, <3>1 DEF Published
    <3>3. Safe(f) BY <2>1, <3>1, <3>2 DEF Safe, Masked
    <3> QED BY <1>0, <1>1, <2>1, <3>3 DEF Coming
  <2> QED BY <2>3, <2>4
<1>6. CASE PuctNoDockets BY <1>6 DEF PuctNoDockets
<1> QED BY <1>2, <1>3, <1>4, <1>5, <1>6 DEF BetweenStep

\* What is overlooked stays so while the job and the filings of its window do.
LEMMA OverlookedSame ==
  ASSUME UNCHANGED <<source, due, unread, out>>, NEW f,
         \A g \in due \cup {f} : form'[g] = form[g]
  PROVE  Overlooked(f)' <=> Overlooked(f)
<1>1. Lost' = Lost BY DEF Lost
<1>2. \A g \in due \cup {f} : Docket(g)' = Docket(g) /\ (Own(g)' <=> Own(g))
  <2>1. \A g \in due \cup {f} : Docket(g)' = Docket(g) BY DEF Docket
  <2> QED BY <2>1 DEF Own, ElectricCase
<1> DEFINE makers == {g \in due : Own(g) /\ Docket(g) = Docket(f)}
<1>3. makers' = makers BY <1>2
<1>4. Own(f)' <=> Own(f) BY <1>2
<1>5. Overlooked(f) <=> \/ f \in Lost
                        \/ source = "mdpsc" /\ ~Own(f) /\ makers # {} /\ makers \subseteq Lost
  BY DEF Overlooked
<1>6. Overlooked(f)' <=> \/ f \in Lost'
                         \/ source' = "mdpsc" /\ ~Own(f)' /\ makers' # {} /\ makers' \subseteq Lost'
  BY DEF Overlooked
<1> HIDE DEF makers
<1> QED BY <1>1, <1>3, <1>4, <1>5, <1>6

\* The filter at the end keeps what is due: a case of a utility that files in it
\* is in the result with that filing, or has been known since an earlier crawl, or
\* all that the utility filed in it was overlooked.
LEMMA FinalizeComing ==
  ASSUME TypeOK, Parts, Finalize, \A g \in due : Taken(g) /\ (g \in Lost \/ Coming(g)),
         NEW f \in due
  PROVE  Overlooked(f)' \/ Coming(f)'
<1>1. /\ pc = "finalize" /\ pc' = "persist" /\ out' = Kept
      /\ UNCHANGED <<source, form, stored, torn, due, unread>>
  BY DEF Finalize, site, db, history
<1>2. \A g \in due : g \in Lost \/ g \in out \/ Safe(g) BY <1>1 DEF Coming
<1>3. /\ Safe(f)' <=> Safe(f)
      /\ \A g : Docket(g)' = Docket(g) /\ (Own(g)' <=> Own(g))
  <2>1. \A g : Docket(g)' = Docket(g) BY <1>1 DEF Docket
  <2> QED BY <1>1, <2>1 DEF Safe, Masked, Own, ElectricCase
<1>4. Kept \subseteq out BY DEF Kept, MdpscKept, VasccKept
<1>5. Lost \subseteq Lost' BY <1>1, <1>4 DEF Lost
<1>6. ASSUME f \in out, f \notin Kept PROVE Overlooked(f)' \/ Safe(f)
  <2>1. CASE source = "mdpsc"
    <3>1. \/ Own(f) \/ Docket(f) \in Known
          \/ \E g \in due : Own(g) /\ Docket(g) = Docket(f)
      BY <2>1 DEF Taken
    <3>2. ~Own(f) /\ Docket(f) \notin Known \cup {Docket(h) : h \in {i \in out : Own(i)}}
      BY <1>6, <2>1 DEF Kept, MdpscKept
    <3>3. ASSUME NEW g \in due, Own(g), Docket(g) = Docket(f) PROVE g \in Lost
      <4>1. CASE g \in out BY <3>2, <3>3, <4>1
      <4>2. CASE Safe(g)
        <5>1. g \in stored BY <2>1, <4>2 DEF Safe, Masked
        <5>2. Docket(g) \in Known BY <5>1 DEF Known
        <5> QED BY <3>2, <3>3, <5>2
      <4> QED BY <1>2, <4>1, <4>2
    <3> DEFINE makers == {g \in due : Own(g) /\ Docket(g) = Docket(f)}
    <3>4. makers # {} /\ makers \subseteq Lost' BY <1>5, <3>1, <3>2, <3>3
    <3>5. makers = {g \in due : Own(g) /\ Docket(g) = Docket(f)}' BY <1>1, <1>3
    <3> QED BY <1>1, <1>3, <2>1, <3>2, <3>4, <3>5 DEF Overlooked
  <2>2. CASE source = "vascc"
    <3>1. Own(f) \/ Docket(f) \in Known BY <2>2 DEF Taken
    <3>2. f \in VasccKept(out) BY <1>6, <3>1 DEF VasccKept
    <3> QED BY <1>6, <2>2, <3>2 DEF Kept
  <2>3. CASE source \notin {"mdpsc", "vascc"} BY <1>6, <2>3 DEF Kept
  <2> QED BY <2>1, <2>2, <2>3
<1>7. f \in Lost => Overlooked(f)' BY <1>5 DEF Overlooked
<1>8. Overlooked(f)' \/ f \in Kept \/ Safe(f) BY <1>2, <1>6, <1>7
<1> QED BY <1>1, <1>3, <1>8 DEF Coming

LEMMA PersistComing ==
  ASSUME TypeOK, Persist, ~alarm', NEW f \in due, Overlooked(f) \/ Coming(f)
  PROVE  Overlooked(f)' \/ Coming(f)'
<1>1. PICK C \in Capped : \E S \in SUBSET C : Write(S, Spared) /\ alarm' = (alarm \/ S # C)
  BY DEF Persist, Spared
<1>2. PICK S \in SUBSET C : Write(S, Spared) /\ alarm' = (alarm \/ S # C) BY <1>1
<1>3. /\ pc = "persist" /\ pc' = "done"
      /\ UNCHANGED <<source, form, due, unread, daily, out>>
  BY DEF Persist, site
<1>4. ASSUME Whole, Coming(f) PROVE Safe(f)'
  <2>1. S = out BY <1>2, <1>4, CappedTypes
  <2>2. stored' = stored \cup out /\ torn \subseteq torn' BY <1>2, <2>1 DEF Write
  <2> QED BY <1>3, <1>4, <2>2 DEF Coming, Safe, Masked
<1>5. Whole' <=> Whole BY <1>3 DEF Whole
<1>6. Overlooked(f) => Overlooked(f)' BY <1>3, OverlookedSame
<1> QED BY <1>3, <1>4, <1>5, <1>6 DEF Coming

\* The job begins with what it promised ahead of it.
LEMMA BeginComing ==
  ASSUME TypeOK, Published, Daily \/ Backfill, TypeOK', NEW f \in due'
  PROVE  Coming(f)'
<1>0. day - 1 \in Nat
  <2>1. day \in 1 .. LastDay /\ LastDay \in Nat BY Constants DEF TypeOK
  <2> QED BY <2>1
<1>1. ASSUME NEW s \in Nat, NEW promised \in SUBSET Wanted(s), NEW units,
             Begin(s, promised, units),
             units # {} \/ source \notin {"ercot-nprr", "ercot-mn", "puct"}
               => \A g \in promised : \E u \in units : Covers(u, g)
      PROVE  Coming(f)'
  <2>1. /\ due' = promised /\ todo' = units /\ page' = 1
        /\ UNCHANGED <<source, form, filed>>
        /\ pc' = IF units # {} /\ source \notin {"cpuc", "njbpu"} THEN "unit"
                 ELSE IF HasForm THEN "open" ELSE "finalize"
    BY <1>1 DEF Begin, site
  <2>2. \A u : Covers(u, f)' <=> Covers(u, f) BY <2>1, CoversSame
  <2>3. CASE units # {}
    <3>1. \E u \in todo' : Covers(u, f)' BY <1>1, <2>1, <2>2, <2>3
    <3>2. CASE source \in {"cpuc", "njbpu"}
      <4>1. pc' = "open" BY <2>1, <3>2 DEF HasForm
      <4> QED BY <3>1, <4>1 DEF Coming
    <3>3. CASE source \notin {"cpuc", "njbpu"}
      <4>1. pc' = "unit" BY <2>1, <2>3, <3>3
      <4>2. (\E u \in todo' \ {InHand'} : Covers(u, f)') \/ Ahead(f)'
        BY <2>1, <2>3, <3>1, AllAhead
      <4> QED BY <4>1, <4>2 DEF Coming
    <3> QED BY <3>2, <3>3
  <2>4. CASE units = {}
    <3>1. source \in {"ercot-nprr", "ercot-mn", "puct"} BY <1>1, <2>1, <2>4
    <3>2. pc' = "open" BY <2>1, <2>4, <3>1 DEF HasForm
    <3> QED BY <2>1, <3>1, <3>2 DEF Coming
  <2> QED BY <2>3, <2>4
<1>2. ASSUME NEW s \in Nat, source \notin {"ercot-nprr", "ercot-mn", "puct"}
      PROVE  \A g \in Wanted(s) : \E u \in Units(s) : Covers(u, g)
  BY <1>2, UnitsCover
<1>3. CASE Daily
  <2>1. Begin(Since, Wanted(Since), Units(Since)) /\ Since \in Nat
    BY <1>0, <1>3, SinceIs DEF Daily
  <2>2. source \in {"ercot-nprr", "ercot-mn", "puct"} => Units(Since) = {} BY DEF Units
  <2> QED BY <1>1, <1>2, <2>1, <2>2
<1>4. CASE Backfill /\ source = "puct"
  <2>1. PICK d \in Dockets : Begin(1, {g \in Wanted(1) : Docket(g) = d}, {d})
    BY <1>4 DEF Backfill
  <2> DEFINE promised == {g \in Wanted(1) : Docket(g) = d}
  <2>2. promised \in SUBSET Wanted(1) OBVIOUS
  <2>3. ASSUME NEW g \in promised PROVE \E u \in {d} : Covers(u, g)
    <3>1. g \in Listed /\ Docket(g) = d BY WantedIs
    <3>2. Covers(d, g) BY <1>4, <3>1, DocketIs DEF Covers
    <3> QED BY <3>2
  <2> HIDE DEF promised
  <2>4. Begin(1, promised, {d}) BY <2>1 DEF promised
  <2> QED BY <1>1, <2>2, <2>3, <2>4
<1>5. CASE Backfill /\ source # "puct"
  <2>1. Begin(1, Wanted(1), Units(1)) /\ source \notin {"ercot-nprr", "ercot-mn", "puct"}
    BY <1>5 DEF Backfill
  <2> QED BY <1>1, <1>2, <2>1
<1> QED BY <1>3, <1>4, <1>5

\* The site publishes: the list of a docket grows, and what was still ahead moves
\* further back.
LEMMA PublishComing ==
  ASSUME TypeOK, Published, NEW x \in Forms[source], NEW d \in Dates(x), Publish(x, d),
         NEW f \in due, Coming(f)
  PROVE  Coming(f)'
<1>1. /\ Listed \subseteq Listed' /\ f \in Listed
      /\ \A g \in Listed : form'[g] = form[g] /\ filed'[g] = filed[g]
  BY PublishFacts DEF TypeOK
<1>2. /\ UNCHANGED <<source, pc, todo, page, view, got, out, stored, torn, daily>>
      /\ InHand' = InHand
  BY DEF Publish, unit, job, InHand
<1>3. /\ \A u : Covers(u, f)' <=> Covers(u, f)
      /\ (Safe(f)' <=> Safe(f)) /\ (Whole' <=> Whole)
  <2>1. \A u : Covers(u, f)' <=> Covers(u, f) BY <1>1, <1>2 DEF Covers
  <2> QED BY <1>2, <2>1 DEF Safe, Masked, Whole
<1>4. Ahead(f) => Ahead(f)'
  <2> DEFINE ahead  == {g \in Naming(InHand) : Newer(g, f)}
             ahead2 == {g \in Naming(InHand)' : Newer(g, f)'}
  <2>1. ahead \subseteq ahead2
    <3>1. Naming(InHand) \subseteq Naming(InHand)'
      <4>1. \A g \in Listed : form'[g] = form[g] BY <1>1
      <4>2. Naming(InHand)' = {g \in Listed' : InHand \in form'[g].dockets} BY <1>2 DEF Naming
      <4> QED BY <1>1, <4>1, <4>2 DEF Naming
    <3>2. \A g \in Listed : Newer(g, f) => Newer(g, f)' BY <1>1 DEF Newer
    <3>3. Naming(InHand) \subseteq Listed BY SetTypes
    <3> QED BY <3>1, <3>2, <3>3
  <2>2. ahead2 \subseteq Filings BY DEF Naming, Listed
  <2>3. Position(f, Naming(InHand)) = Cardinality(ahead) BY DEF Position
  <2>4. Position(f, Naming(InHand))' = Cardinality(ahead2) BY DEF Position
  <2> HIDE DEF ahead, ahead2
  <2>5. /\ IsFiniteSet(ahead2) /\ Cardinality(ahead2) \in Nat /\ Cardinality(ahead) \in Nat
    BY <2>1, <2>2, CountIs
  <2>6. Cardinality(ahead) <= Cardinality(ahead2) BY <2>1, <2>5, FS_Subset
  <2>7. (page - 1) * PageSize \in Int
    <3>1. page \in Int /\ PageSize \in Int BY Constants DEF TypeOK
    <3> QED BY <3>1
  <2>8. Covers(InHand, f)' <=> Covers(InHand, f) BY <1>1, <1>2 DEF Covers
  <2> QED BY <1>2, <2>3, <2>4, <2>5, <2>6, <2>7, <2>8 DEF Ahead
<1> QED BY <1>2, <1>3, <1>4 DEF Coming

LEMMA StutterComing ==
  ASSUME UNCHANGED vars, NEW f, Coming(f)
  PROVE  Coming(f)'
<1>1. UNCHANGED <<source, form, filed, pc, todo, page, view, got, out, stored, torn, daily>>
  BY DEF vars, site, db, job, unit
<1>2. InHand' = InHand /\ Listed' = Listed BY <1>1 DEF InHand, Listed
<1>3. \A u : Covers(u, f)' <=> Covers(u, f) BY <1>1, CoversSame
<1>4. Ahead(f)' <=> Ahead(f)
  <2>1. Naming(InHand)' = Naming(InHand) BY <1>1, <1>2 DEF Naming
  <2>2. Position(f, Naming(InHand))' = Position(f, Naming(InHand))
    BY <1>1, <2>1 DEF Position, Newer
  <2>3. Covers(InHand, f)' <=> Covers(InHand, f) BY <1>1, <1>2 DEF Covers
  <2> QED BY <1>1, <2>2, <2>3 DEF Ahead
<1> QED BY <1>1, <1>2, <1>3, <1>4 DEF Coming, Safe, Masked, Whole

\* Where a working step begins and ends, and that no complaint is taken back.
LEMMA WorkPlaces ==
  ASSUME TypeOK, Parts, Work
  PROVE  pc # "persist" /\ pc' # "open" /\ (~alarm' => ~alarm)
<1>1. pc # "persist"
  <2>1. UnitStep => pc \in {"unit", "page"} BY UnitSteps
  <2>2. RowStep => pc = "row" BY RowSteps
  <2>3. CASE FercPage \/ FercNull \/ PagedStep \/ BetweenStep \/ Finalize
    BY <2>3 DEF FercPage, FercNull, PagedStep, CpucSearch, CpucPage, NjbpuSearch, NjbpuPage,
         BetweenStep, OpenSession, NprrListing, NoticeListing, Listing, PuctDockets,
         PuctNoDockets, PuctNewItems, Finalize
  <2> QED BY <2>1, <2>2, <2>3 DEF Work
<1>2. ASSUME NEW rows, NEW lost, NEW warned, EndUnit(rows, lost, warned)
      PROVE  pc' # "open" /\ (~alarm' => ~alarm)
  BY <1>2 DEF EndUnit, Advance
<1>3. ASSUME NEW rows, NEW set, Turn(rows, set) PROVE pc' # "open" /\ (~alarm' => ~alarm)
  BY <1>3 DEF Turn
<1>4. CASE UnitStep
  <2>1. \E rows, lost, warned : EndUnit(rows, lost, warned)
    BY <1>4, UnitSteps, Zenon DEF NextUnit, PassOver
  <2> QED BY <1>1, <1>2, <2>1
<1>5. CASE RowStep
  <2>1. PICK rows, lost, warned : EndRow(rows, lost, warned) BY <1>5, RowSteps
  <2> QED BY <1>1, <2>1 DEF EndRow, Advance
<1>6. CASE FercPage \/ FercNull
  <2>1. \/ \E rows, lost, warned : EndUnit(rows, lost, warned)
        \/ \E rows, set : Turn(rows, set)
    BY <1>6, Zenon DEF FercPage, FercNull, NextUnit, PassOver
  <2> QED BY <1>1, <1>2, <1>3, <2>1
<1>7. CASE PagedStep
  <2>1. \E set, rows, n : CpucAfter(set, rows, n) \/ NjbpuAfter(set, rows, n)
    BY <1>7, Zenon DEF PagedStep, CpucSearch, CpucPage, NjbpuSearch, NjbpuPage
  <2>2. \/ \E rows, lost, warned : EndUnit(rows, lost, warned)
        \/ \E rows, set : Turn(rows, set)
    BY <2>1, Zenon DEF CpucAfter, NjbpuAfter, NextUnit, PassOver
  <2> QED BY <1>1, <1>2, <1>3, <2>2
<1>8. CASE BetweenStep \/ Finalize
  <2>1. CASE OpenSession BY <2>1 DEF OpenSession
  <2>2. CASE NprrListing \/ NoticeListing BY <2>2 DEF NprrListing, NoticeListing, Listing
  <2>3. CASE PuctDockets \/ PuctNoDockets BY <2>3 DEF PuctDockets, PuctNoDockets
  <2>4. CASE PuctNewItems BY <2>4 DEF PuctNewItems
  <2>5. CASE Finalize BY <2>5 DEF Finalize
  <2> QED BY <1>1, <1>8, <2>1, <2>2, <2>3, <2>4, <2>5 DEF BetweenStep
<1> QED BY <1>4, <1>5, <1>6, <1>7, <1>8 DEF Work

\* A step of the site, or none, takes nothing from the record and adds nothing.
LEMMA ExcusedSame ==
  ASSUME UNCHANGED <<source, pc, due, unread, out>>, NEW f \in due,
         \A g \in due : form'[g] = form[g], Excused(f)
  PROVE  Excused(f)'
<1>1. Overlooked(f)' <=> Overlooked(f) BY OverlookedSame
<1> QED BY <1>1 DEF Excused, Lost

LEMMA PromisesStep == ASSUME SiteInv, Due, Promises, [Next]_vars PROVE Promises'
<1>0. TypeOK /\ Parts /\ Published /\ TypeOK' BY TypeStep DEF SiteInv
<1>1. ASSUME pc \in Working, ~alarm
      PROVE  \A f \in due : Taken(f) /\ (Excused(f) \/ Coming(f))
  BY <1>1 DEF Due, Promises
<1>2. ASSUME NEW x \in Forms[source], NEW d \in Dates(x), Publish(x, d) PROVE Promises'
  <2>1. UNCHANGED <<source, pc, due, unread, out, alarm>> BY <1>2 DEF Publish, history
  <2>2. \A g \in due : form'[g] = form[g]
    BY <1>0, <1>2, PublishFacts DEF TypeOK
  <2>3. ASSUME pc \in Working, ~alarm, NEW f \in due PROVE Excused(f)' \/ Coming(f)'
    <3>1. CASE Excused(f) BY <2>1, <2>2, <2>3, <3>1, ExcusedSame
    <3>2. CASE Coming(f) BY <1>0, <1>2, <2>3, <3>2, PublishComing
    <3> QED BY <1>1, <2>3, <3>1, <3>2
  <2> QED BY <2>1, <2>3 DEF Promises
<1>3. CASE Midnight \/ Raises \/ Kill
  <2>1. pc' = "idle" BY <1>3 DEF Midnight, Raises, Kill, GiveUp
  <2> QED BY <2>1 DEF Promises, Working, Running
<1>4. CASE Daily \/ Backfill BY <1>0, <1>4, BeginComing DEF Promises
<1>5. CASE Work
  <2>1. UNCHANGED due /\ unread \subseteq unread' /\ pc \in Working /\ pc' \in Running
    BY <1>0, <1>5, WorkTypes DEF Framed, Working
  <2>2. pc # "persist" /\ pc' # "open" /\ (~alarm' => ~alarm) BY <1>0, <1>5, WorkPlaces
  <2>3. ASSUME ~alarm', NEW f \in due PROVE Excused(f)' \/ Coming(f)'
    <3>1. \A g \in due : Taken(g) /\ (g \in Lost \/ Coming(g))
      <4>1. pc # "done" BY <1>5, <1>0, WorkTypes DEF Running
      <4> QED BY <1>1, <2>1, <2>2, <2>3, <4>1 DEF Excused
    <3>2. f \in Lost' => Excused(f)' BY DEF Excused, Overlooked
    <3>3. CASE Finalize
      <4>1. Overlooked(f)' \/ Coming(f)' BY <1>0, <3>1, <3>3, FinalizeComing
      <4>2. pc' = "persist" BY <3>3 DEF Finalize
      <4> QED BY <4>1, <4>2 DEF Excused
    <3>4. CASE f \in Lost
      <4>1. f \in Lost' \/ f \in out' BY <2>1, <3>4 DEF Lost
      <4>2. f \in out' => Coming(f)' BY <2>1, <2>2 DEF Coming, Running
      <4> QED BY <3>2, <4>1, <4>2
    <3>5. CASE Coming(f) /\ ~Finalize
      <4>1. CASE FercPage BY <1>0, <2>3, <3>1, <3>2, <3>5, <4>1, FercComing
      <4>2. CASE FercNull BY <1>0, <3>1, <3>2, <3>5, <4>2, NullComing
      <4>3. CASE PagedStep BY <1>0, <2>3, <3>1, <3>2, <3>5, <4>3, PagedComing
      <4>4. CASE UnitStep BY <1>0, <2>3, <3>1, <3>2, <3>5, <4>4, UnitComing
      <4>5. CASE RowStep BY <1>0, <2>3, <3>1, <3>2, <3>5, <4>5, RowComing
      <4>6. CASE BetweenStep BY <1>0, <2>3, <3>1, <3>2, <3>5, <4>6, BetweenComing
      <4> QED BY <1>5, <3>5, <4>1, <4>2, <4>3, <4>4, <4>5, <4>6 DEF Work
    <3> QED BY <3>1, <3>3, <3>4, <3>5
  <2> QED BY <2>1, <2>2, <2>3 DEF Promises
<1>6. CASE Persist
  <2>1. UNCHANGED due /\ pc = "persist" /\ pc' = "done" /\ (~alarm' => ~alarm)
    BY <1>6 DEF Persist
  <2>2. ASSUME ~alarm', NEW f \in due PROVE Excused(f)' \/ Coming(f)'
    <3>1. Overlooked(f) \/ Coming(f) BY <1>1, <2>1, <2>2 DEF Excused, Working, Running
    <3>2. Overlooked(f)' \/ Coming(f)' BY <1>0, <1>6, <2>2, <3>1, PersistComing
    <3> QED BY <2>1, <3>2 DEF Excused
  <2> QED BY <2>1, <2>2 DEF Promises
<1>7. CASE UNCHANGED vars
  <2>1. UNCHANGED <<source, form, pc, due, unread, out, alarm>>
    BY <1>7 DEF vars, site, history
  <2>2. ASSUME pc \in Working, ~alarm, NEW f \in due PROVE Excused(f)' \/ Coming(f)'
    <3>1. CASE Excused(f) BY <2>1, <3>1, ExcusedSame
    <3>2. CASE Coming(f) BY <1>7, <3>2, StutterComing
    <3> QED BY <1>1, <2>2, <3>1, <3>2
  <2> QED BY <2>1, <2>2 DEF Promises
<1> QED BY <1>2, <1>3, <1>4, <1>5, <1>6, <1>7, Steps

LEMMA DeliveryInvariant == Spec => []DeliveryInv
<1>1. Init => Due /\ Promises BY DEF Init, Due, Promises, Working, Running
<1>2. SiteInv /\ Due /\ Promises /\ [Next]_vars => Due' /\ Promises'
  BY DueStep, PromisesStep
<1> QED BY <1>1, <1>2, SiteInvariant, PTL DEF Spec, DeliveryInv

\* Any source and calendar, any list that grows under the crawl: a crawl that
\* ends without a word above INFO, and is not cut by a cap, has stored all that
\* its window held when it began, but for what was on an answer that it took for
\* empty, and for PUCT items taken for done.
THEOREM QuietCrawlIsCompleteHolds == Spec => []QuietCrawlIsComplete
<1>1. DeliveryInv => QuietCrawlIsComplete
  BY DEF DeliveryInv, Promises, Excused, Coming, Safe, Working, QuietCrawlIsComplete
<1> QED BY <1>1, DeliveryInvariant, PTL

-----------------------------------------------------------------------------
(* What the calendar owes *)

\* Storing a filing settles what is owed of it, and what is spared is owed no
\* more by the day at hand.
LEMMA WriteOwed ==
  ASSUME NEW S, NEW spared, Write(S, spared)
  PROVE  \A f \in Filings : /\ owed'[f] \subseteq owed[f]
                            /\ f \in S => owed'[f] = {}
                            /\ f \in spared => day \notin owed'[f]
BY DEF Write

LEMMA CalendarInit == Init => Calendar /\ MissedOnlyByComplaint
<1>1. Init => Listed = {} /\ stored = {} BY DEF Init, Listed
<1>2. Init => clean = {} /\ ~daily BY DEF Init
<1> QED BY <1>1, <1>2 DEF Calendar, MissedOnlyByComplaint

LEMMA PublishCalendar ==
  ASSUME TypeOK, Parts, Published, Calendar, MissedOnlyByComplaint,
         NEW x \in Forms[source], NEW d \in Dates(x), Publish(x, d)
  PROVE  Calendar' /\ MissedOnlyByComplaint'
<1>1. /\ Appearing \subseteq Filings \ Listed /\ Listed' = Listed \cup Appearing
      /\ Listed \subseteq Listed' /\ d \in Int
      /\ \A f \in Listed : form'[f] = form[f] /\ filed'[f] = filed[f] /\ owed'[f] = owed[f]
      /\ \A f \in Appearing : filed'[f] = d /\ owed'[f] = Chances(d)
  BY PublishFacts
<1>2. UNCHANGED <<source, day, stored, torn, clean, due, pc, daily, tries>>
  BY DEF Publish, history, job
<1>3. stored \subseteq Listed /\ day \in Int /\ tries \in Int
  <2>1. LastDay \in Nat /\ Attempts \in Nat BY Constants
  <2> QED BY <2>1 DEF TypeOK
<1>4. \A f \in Listed : (Own(f)' <=> Own(f)) BY <1>1, <1>2, FilingKeeps
<1>5. ASSUME NEW e \in Chances(d) PROVE e \in {d, d + 1} /\ (day < e \/ (day = e /\ tries = 0))
  BY <1>5 DEF Chances
<1>6. Chances(d) \cap clean = {}
  <2>1. ASSUME NEW e \in Chances(d), e \in clean PROVE FALSE
    <3>1. e <= day /\ (day \in clean => tries > 0) BY <2>1 DEF Calendar
    <3>2. e \in Int BY <1>1, <1>5, <2>1
    <3> QED BY <1>3, <1>5, <2>1, <3>1, <3>2
  <2> QED BY <2>1
<1>7. Calendar'
  <2>1. \A f \in Listed' : owed'[f] \subseteq {filed'[f], filed'[f] + 1}
    BY <1>1, <1>5 DEF Calendar
  <2>2. \A f \in stored : owed'[f] = {} BY <1>1, <1>3 DEF Calendar
  <2>3. daily /\ pc \in Working =>
          \A f \in Listed' : Own(f)' /\ day \in owed'[f] => f \in due
    <3>1. SUFFICES ASSUME daily /\ pc \in Working, NEW f \in Listed', Own(f)', day \in owed'[f]
                   PROVE  f \in due
      OBVIOUS
    <3>2. tries > 0 BY <3>1 DEF Calendar
    <3>3. f \notin Appearing BY <1>1, <1>3, <1>5, <3>1, <3>2
    <3> QED BY <1>1, <1>4, <3>1, <3>3 DEF Calendar
  <2> QED BY <1>2, <2>1, <2>2, <2>3 DEF Calendar
<1>8. MissedOnlyByComplaint'
  <2>1. ASSUME NEW f \in Listed', Own(f)', owed'[f] \cap clean # {} PROVE Masked(f)'
    <3>1. f \in Listed BY <1>1, <1>6, <2>1
    <3>2. Masked(f) BY <1>1, <1>4, <2>1, <3>1 DEF MissedOnlyByComplaint
    <3> QED BY <1>2, <3>2 DEF Masked
  <2> QED BY <1>2, <2>1 DEF MissedOnlyByComplaint
<1> QED BY <1>7, <1>8

\* The list, the database and the clean days as they were, or less owed.
LEMMA OwedLess ==
  ASSUME TypeOK, MissedOnlyByComplaint, UNCHANGED <<source, form, clean>>,
         torn \subseteq torn', \A f \in Filings : owed'[f] \subseteq owed[f]
  PROVE  MissedOnlyByComplaint'
<1>1. Listed' = Listed /\ Listed \subseteq Filings BY SiteSame, SetTypes
<1>2. \A f \in Listed : (Own(f)' <=> Own(f)) BY FilingKeeps
<1>3. \A f \in Listed : Masked(f) => Masked(f)' BY DEF Masked
<1> QED BY <1>1, <1>2, <1>3 DEF MissedOnlyByComplaint

LEMMA IdleCalendar ==
  ASSUME TypeOK, Calendar, UNCHANGED <<form, filed, clean>>, Listed' = Listed,
         (day' = day /\ tries' = tries) \/ day' = day + 1,
         \A f \in Filings : owed'[f] \subseteq owed[f],
         \A f \in stored' \ stored : owed'[f] = {}, stored \subseteq stored',
         ~(daily' /\ pc' \in Working)
  PROVE  Calendar'
<1>1. /\ day \in Int /\ Listed \subseteq Filings /\ stored \subseteq Listed
      /\ \A e \in clean : e \in Int /\ e <= day
  <2>1. LastDay \in Nat BY Constants
  <2> QED BY <2>1, SetTypes DEF TypeOK, Calendar, Weekdays
<1>2. \A e \in clean : e <= day' BY <1>1
<1>3. day' \in clean => tries' > 0 BY <1>1 DEF Calendar
<1>4. \A f \in Listed : owed'[f] \subseteq {filed[f], filed[f] + 1} BY <1>1 DEF Calendar
<1>5. \A f \in stored' : owed'[f] = {} BY <1>1 DEF Calendar
<1> QED BY <1>2, <1>3, <1>4, <1>5 DEF Calendar

LEMMA DailyCalendar ==
  ASSUME TypeOK, Published, Calendar, MissedOnlyByComplaint, Daily
  PROVE  Calendar' /\ MissedOnlyByComplaint'
<1>1. /\ UNCHANGED <<site, db, clean>> /\ due' = Wanted(day - 1) /\ tries' = tries + 1
      /\ daily' = TRUE
  BY DEF Daily, Begin
<1>2. /\ UNCHANGED <<source, day, form, filed, stored, owed, torn>> /\ Listed' = Listed
      /\ Listed \subseteq Filings
  BY <1>1, SiteSame, SetTypes DEF site, db
<1>3. tries' > 0
  <2>1. tries \in 0 .. Attempts /\ Attempts \in Nat BY Constants DEF TypeOK
  <2> QED BY <1>1, <2>1
<1>4. \A f \in Listed : (Own(f)' <=> Own(f)) BY <1>2, FilingKeeps
<1>5. ASSUME NEW f \in Listed, Own(f), day \in owed[f] PROVE f \in Wanted(day - 1)
  <2>1. owed[f] \subseteq {filed[f], filed[f] + 1} BY DEF Calendar
  <2>2. filed[f] \in Int /\ day \in Int
    <3>1. LastDay \in Nat BY Constants
    <3> QED BY <1>2, <3>1 DEF TypeOK
  <2>3. filed[f] >= day - 1 BY <1>5, <2>1, <2>2
  <2> QED BY <1>5, <2>3 DEF Wanted
<1>6. Calendar' BY <1>1, <1>2, <1>3, <1>4, <1>5 DEF Calendar
<1>7. MissedOnlyByComplaint' BY <1>1, <1>2, OwedLess
<1> QED BY <1>6, <1>7

\* A job at work or at rest, while nothing is stored.
LEMMA SameCalendar ==
  ASSUME TypeOK, Calendar, MissedOnlyByComplaint,
         UNCHANGED <<source, day, form, filed, stored, owed, torn, clean, due, daily, tries>>,
         pc' \in Working => pc \in Working
  PROVE  Calendar' /\ MissedOnlyByComplaint'
<1>1. Listed' = Listed BY SiteSame
<1>2. \A f \in Listed : (Own(f)' <=> Own(f)) BY FilingKeeps
<1>3. MissedOnlyByComplaint' BY OwedLess
<1>4. Calendar' BY <1>1, <1>2 DEF Calendar
<1> QED BY <1>3, <1>4

\* A crawl without a complaint stores what the calendar owed for its day.
LEMMA PersistCalendar ==
  ASSUME TypeOK, Parts, Due, Promises, Calendar, MissedOnlyByComplaint, Persist
  PROVE  Calendar' /\ MissedOnlyByComplaint'
<1>1. PICK C \in Capped : \E S \in SUBSET C : Write(S, Spared) /\ alarm' = (alarm \/ S # C)
  BY DEF Persist, Spared
<1>2. PICK S \in SUBSET C : Write(S, Spared) /\ alarm' = (alarm \/ S # C) BY <1>1
<1>3. S \in SUBSET Listed BY CappedTypes
<1>4. /\ pc = "persist" /\ pc' = "done" /\ UNCHANGED <<source, day, form, filed, due, daily, tries>>
      /\ clean' = IF daily /\ ~alarm' THEN clean \cup {day} ELSE clean
  BY DEF Persist, site
<1>5. Listed' = Listed /\ Listed \subseteq Filings /\ stored \subseteq Listed
  BY <1>4, SiteSame, SetTypes DEF TypeOK
<1>6. stored' = stored \cup S /\ torn \subseteq torn' BY <1>2 DEF Write
<1>7. \A f \in Filings : /\ owed'[f] \subseteq owed[f]
                         /\ f \in S => owed'[f] = {}
                         /\ f \in Spared => day \notin owed'[f]
  BY <1>2, WriteOwed
<1>8. \A f \in Listed : (Own(f)' <=> Own(f)) BY <1>4, FilingKeeps
<1>9. Calendar'
  <2>1. \A e \in clean' : e <= day'
    <3>1. day <= day
      <4>1. LastDay \in Nat BY Constants
      <4> QED BY <4>1 DEF TypeOK
    <3> QED BY <1>4, <3>1 DEF Calendar
  <2>2. day' \in clean' => tries' > 0 BY <1>4 DEF Calendar, Working, Running
  <2>3. \A f \in Listed' : owed'[f] \subseteq {filed'[f], filed'[f] + 1}
    BY <1>4, <1>5, <1>7 DEF Calendar
  <2>4. \A f \in stored' : owed'[f] = {} BY <1>3, <1>5, <1>6, <1>7 DEF Calendar
  <2>5. daily' => tries' > 0 /\ \A f \in Listed' : Own(f)' /\ day' \in owed'[f] => f \in due'
    BY <1>4, <1>5, <1>7, <1>8 DEF Calendar, Working, Running
  <2> QED BY <2>1, <2>2, <2>3, <2>4, <2>5 DEF Calendar
<1>10. ASSUME NEW f \in Listed, Own(f), owed'[f] \cap clean' # {}
       PROVE  Masked(f)'
  <2>1. f \notin S /\ owed'[f] \subseteq owed[f] BY <1>5, <1>7, <1>10
  <2>2. CASE owed[f] \cap clean # {}
    BY <1>4, <1>6, <1>10, <2>2 DEF MissedOnlyByComplaint, Masked
  <2>3. CASE owed[f] \cap clean = {}
    <3>1. daily /\ ~alarm' /\ day \in owed[f] /\ day \in owed'[f] BY <1>4, <1>10, <2>1, <2>3
    <3>2. ~alarm /\ S = C BY <1>2, <3>1
    <3>3. S = out BY <3>1, <3>2, CappedTypes DEF Whole
    <3>4. f \in due BY <1>4, <1>10, <3>1 DEF Calendar, Working, Running
    <3>5. f \in out \/ Safe(f)
      <4>1. f \notin Lost BY <1>5, <1>7, <3>1 DEF Spared
      <4>2. ~Overlooked(f) BY <1>10, <4>1 DEF Overlooked
      <4>3. Excused(f) \/ Coming(f) BY <1>4, <3>2, <3>4 DEF Promises, Working, Running
      <4> QED BY <1>4, <4>2, <4>3 DEF Excused, Coming
    <3>6. f \notin stored BY <3>1 DEF Calendar
    <3>7. Masked(f) BY <2>1, <3>3, <3>5, <3>6 DEF Safe
    <3> QED BY <1>4, <1>6, <3>7 DEF Masked
  <2> QED BY <2>2, <2>3
<1>11. MissedOnlyByComplaint' BY <1>5, <1>8, <1>10 DEF MissedOnlyByComplaint
<1> QED BY <1>9, <1>11

LEMMA CalendarStep ==
  ASSUME DeliveryInv, Calendar, MissedOnlyByComplaint, [Next]_vars
  PROVE  Calendar' /\ MissedOnlyByComplaint'
<1>0. TypeOK /\ Parts /\ Published /\ Due /\ Promises BY DEF DeliveryInv, SiteInv
<1>1. ASSUME NEW x \in Forms[source], NEW d \in Dates(x), Publish(x, d)
      PROVE  Calendar' /\ MissedOnlyByComplaint'
  BY <1>0, <1>1, PublishCalendar
<1>2. CASE Midnight
  <2>1. /\ UNCHANGED <<source, form, filed, stored, owed, torn, clean>> /\ day' = day + 1
        /\ pc' = "idle"
    BY <1>2 DEF Midnight, db
  <2>2. Listed' = Listed BY <1>0, <2>1, SiteSame
  <2>3. pc' \notin Working BY <2>1 DEF Working, Running
  <2>4. Calendar' BY <1>0, <2>1, <2>2, <2>3, IdleCalendar
  <2>5. MissedOnlyByComplaint' BY <1>0, <2>1, OwedLess
  <2> QED BY <2>4, <2>5
<1>3. CASE Daily BY <1>0, <1>3, DailyCalendar
<1>4. CASE Backfill
  <2>1. UNCHANGED <<site, db, clean>> /\ tries' = tries /\ ~daily'
    BY <1>4 DEF Backfill, Begin
  <2>2. Listed' = Listed BY <1>0, <2>1, SiteSame DEF site
  <2>3. Calendar' BY <1>0, <2>1, <2>2, IdleCalendar DEF site, db
  <2>4. MissedOnlyByComplaint' BY <1>0, <2>1, OwedLess DEF site, db
  <2> QED BY <2>3, <2>4
<1>5. CASE Work
  <2>1. UNCHANGED <<site, db, clean, due, job>> /\ pc \in Running
    BY <1>0, <1>5, WorkTypes DEF Framed
  <2> QED BY <1>0, <2>1, SameCalendar DEF site, db, job, Working
<1>6. CASE Persist BY <1>0, <1>6, PersistCalendar
<1>7. CASE Raises \/ Kill
  <2>1. /\ UNCHANGED <<source, day, form, filed, clean, tries>> /\ pc' = "idle"
    BY <1>7 DEF Raises, Kill, GiveUp, site
  <2>2. /\ stored \subseteq stored' /\ torn \subseteq torn'
        /\ \A f \in Filings : owed'[f] \subseteq owed[f]
        /\ \A f \in stored' \ stored : owed'[f] = {}
    <3>1. CASE Raises BY <3>1 DEF Raises, db
    <3>2. CASE Kill
      <4>1. PICK C \in IF pc = "persist" THEN Capped ELSE {{}} : \E S \in SUBSET C : Write(S, {})
        BY <3>2 DEF Kill
      <4>2. PICK S \in SUBSET C : Write(S, {}) BY <4>1
      <4>3. S \in SUBSET Listed /\ S \subseteq Filings BY <1>0, SetTypes, CappedTypes
      <4>4. \A f \in Filings : owed'[f] \subseteq owed[f] /\ (f \in S => owed'[f] = {})
        BY <4>2, WriteOwed
      <4> QED BY <4>2, <4>3, <4>4 DEF Write
    <3> QED BY <1>7, <3>1, <3>2
  <2>3. Listed' = Listed BY <1>0, <2>1, SiteSame
  <2>4. pc' \notin Working BY <2>1 DEF Working, Running
  <2>5. Calendar' BY <1>0, <2>1, <2>2, <2>3, <2>4, IdleCalendar
  <2>6. MissedOnlyByComplaint' BY <1>0, <2>1, <2>2, OwedLess
  <2> QED BY <2>5, <2>6
<1>8. CASE UNCHANGED vars
  BY <1>0, <1>8, SameCalendar DEF vars, site, db, history, job
<1> QED BY <1>1, <1>2, <1>3, <1>4, <1>5, <1>6, <1>7, <1>8, Steps

LEMMA AdaptersInvariant == Spec => []AdaptersInv
<1>1. Init => Calendar /\ MissedOnlyByComplaint BY CalendarInit
<1>2. DeliveryInv /\ Calendar /\ MissedOnlyByComplaint /\ [Next]_vars
        => Calendar' /\ MissedOnlyByComplaint'
  BY CalendarStep
<1> QED BY <1>1, <1>2, DeliveryInvariant, PTL DEF Spec, AdaptersInv

\* Any source and calendar: a filing that the source takes, that is not stored and
\* that a crawl without a complaint did not take for absent on an empty answer,
\* although that crawl was one of those owed for it, is of a PUCT item taken for
\* done.
THEOREM MissedOnlyByComplaintHolds == Spec => []MissedOnlyByComplaint
<1>1. AdaptersInv => MissedOnlyByComplaint BY DEF AdaptersInv
<1> QED BY <1>1, AdaptersInvariant, PTL
=============================================================================

------------------------- MODULE BriefContentProofs -------------------------
(***************************************************************************)
(* What holds of BriefContent for any number of rows and dockets, any      *)
(* scores and any limits: the types, that the body of a brief is the best  *)
(* its limits allow, and that the row lists what the mail shows.           *)
(***************************************************************************)
EXTENDS BriefContent, FiniteSetTheorems, TLAPS

-----------------------------------------------------------------------------
\* The candidates are of different submissions, in different places, and, once
\* they are scored, have a profile.
InPlay == {"allocate", "floor", "bonus", "flat", "allocated"}
CandidatesInv ==
  /\ stage # "select" =>
       \A f, g \in candidates : ItemKey[f] = ItemKey[g] /\ f # g => ItemKey[f] = NoKey
  /\ stage \in InPlay \cup {"score"} =>
       \A f, g \in candidates : f # g => place[f] # place[g]
  /\ stage \in InPlay => \A f \in candidates : profile[f] \in Profiles

\* What a stage finds in the brief.
StageInv ==
  /\ stage \in {"select", "score", "allocate", "flat"} => top = {}
  /\ stage \in {"select", "score", "allocate", "flat", "floor"} => body = Empty
  /\ stage \in {"allocate", "floor", "bonus"} => Tracked # {}
  /\ stage = "flat" => Tracked = {}
  /\ stage \in {"floor", "bonus"} => NoneBetter(candidates \ top, top)
  /\ stage # "insert" => row = {}

\* While slots are handed out: a docket's items are the first of its pool, each
\* active docket has its floor, and what a docket got beyond its floor beats all
\* that is left of a docket below its ceiling.
FirstOfPool(d) ==
  /\ body[d] \subseteq Pool(d)
  /\ \A f \in body[d], g \in Pool(d) \ body[d] : Ahead(f, g)
BeyondFloor(e) == {f \in body[e] : \E h \in body[e] \ {f} : ~Ahead(f, h)}
BonusInv ==
  /\ \A d \in Tracked : FirstOfPool(d) /\ Cardinality(body[d]) <= Ceiling
  /\ \A d \in Active : body[d] # {}
  /\ Cardinality(InBody) <= Slots
  /\ \A d \in Open : \A e \in Tracked \ {d} : NoneBetter(Pool(d) \ body[d], BeyondFloor(e))

ContentInv ==
  /\ TypeOK /\ CandidatesInv /\ StageInv /\ (stage = "bonus" => BonusInv)
  /\ BestWithinLimits /\ RowListsTheBrief

-----------------------------------------------------------------------------
(* Orders on a finite set *)

\* R orders S strictly, and any two of S.
StrictlyOrders(R, S) ==
  /\ \A x \in S : <<x, x>> \notin R
  /\ \A x, y, z \in S : <<x, y>> \in R /\ <<y, z>> \in R => <<x, z>> \in R
  /\ \A x, y \in S : x # y => <<x, y>> \in R \/ <<y, x>> \in R

Before(R, S, x)  == {y \in S : <<y, x>> \in R}
FirstOf(R, S, n) == {x \in S : Cardinality(Before(R, S, x)) < n}

\* How many come before an element numbers the set from 0.
LEMMA Numbering ==
  ASSUME NEW S, IsFiniteSet(S), NEW R, StrictlyOrders(R, S)
  PROVE  LET rank == [x \in S |-> Cardinality(Before(R, S, x))]
             places == 0 .. Cardinality(S) - 1
         IN  /\ rank \in Injection(S, places) /\ rank \in Surjection(S, places)
             /\ \A x, y \in S : <<x, y>> \in R => rank[x] < rank[y]
<1> DEFINE rank == [x \in S |-> Cardinality(Before(R, S, x))]
           c == Cardinality(S)
           places == 0 .. c - 1
<1>1. c \in Nat BY FS_CardinalityType
<1>2. ASSUME NEW x \in S
      PROVE  /\ IsFiniteSet(Before(R, S, x)) /\ Cardinality(Before(R, S, x)) \in places
  <2>1. Before(R, S, x) \subseteq S \ {x} BY DEF Before, StrictlyOrders
  <2>2. IsFiniteSet(S \ {x}) /\ Cardinality(S \ {x}) = c - 1 BY FS_RemoveElement
  <2>3. IsFiniteSet(Before(R, S, x)) /\ Cardinality(Before(R, S, x)) <= c - 1
    BY <2>1, <2>2, FS_Subset
  <2>4. Cardinality(Before(R, S, x)) \in Nat BY <2>3, FS_CardinalityType
  <2> HIDE DEF c
  <2> QED BY <1>1, <2>3, <2>4
<1>3. ASSUME NEW x \in S, NEW y \in S, <<x, y>> \in R
      PROVE  rank[x] < rank[y]
  <2>1. Before(R, S, x) \subseteq Before(R, S, y) /\ x \in Before(R, S, y)
    BY <1>3 DEF Before, StrictlyOrders
  <2>2. x \notin Before(R, S, x) BY DEF Before, StrictlyOrders
  <2>3. Cardinality(Before(R, S, x)) <= Cardinality(Before(R, S, y))
        /\ Cardinality(Before(R, S, x)) # Cardinality(Before(R, S, y))
    BY <1>2, <2>1, <2>2, FS_Subset
  <2>4. Cardinality(Before(R, S, x)) \in Int /\ Cardinality(Before(R, S, y)) \in Int
    BY <1>2
  <2> QED BY <2>3, <2>4
<1>4. rank \in [S -> places] BY <1>2
<1>5. ASSUME NEW x \in S, NEW y \in S, rank[x] = rank[y] PROVE x = y
  <2>1. rank[x] \in Int /\ rank[y] \in Int BY <1>4
  <2>2. ~(rank[x] < rank[y]) /\ ~(rank[y] < rank[x])
    <3> HIDE DEF rank
    <3> QED BY <1>5, <2>1
  <2> QED BY <1>3, <2>2 DEF StrictlyOrders
<1>6. rank \in Injection(S, places) BY <1>4, <1>5 DEF Injection, IsInjective
<1>7. IsFiniteSet(places) /\ Cardinality(places) = c
  <2>1. 0 \in Int /\ c - 1 \in Int BY <1>1
  <2>2. IsFiniteSet(places) /\ Cardinality(places) = IF 0 > c - 1 THEN 0 ELSE c - 1 - 0 + 1
    BY <2>1, FS_Interval
  <2> HIDE DEF c
  <2> QED BY <1>1, <2>2
<1>8. rank \in Surjection(S, places) BY <1>6, <1>7, FS_Injection
<1> QED BY <1>3, <1>6, <1>8

\* The first n are n, or all, and each comes before each of the others.
LEMMA FirstFacts ==
  ASSUME NEW S, IsFiniteSet(S), NEW R, StrictlyOrders(R, S), NEW n \in Nat
  PROVE  /\ FirstOf(R, S, n) \subseteq S /\ IsFiniteSet(FirstOf(R, S, n))
         /\ n <= Cardinality(S) => Cardinality(FirstOf(R, S, n)) = n
         /\ Cardinality(S) <= n => FirstOf(R, S, n) = S
         /\ \A x \in FirstOf(R, S, n), y \in S \ FirstOf(R, S, n) : <<x, y>> \in R
<1> DEFINE rank == [x \in S |-> Cardinality(Before(R, S, x))]
           c == Cardinality(S)
           places == 0 .. c - 1
           F == FirstOf(R, S, n)
<1>1. c \in Nat BY FS_CardinalityType
<1>2. /\ rank \in Injection(S, places) /\ rank \in Surjection(S, places)
      /\ \A x, y \in S : <<x, y>> \in R => rank[x] < rank[y]
  BY Numbering
<1>3. rank \in [S -> places] /\ \A x, y \in S : rank[x] = rank[y] => x = y
  BY <1>2 DEF Injection, IsInjective
<1>4. F = {x \in S : rank[x] < n} BY DEF FirstOf
<1>5. F \subseteq S /\ IsFiniteSet(F) BY <1>4, FS_Subset
<1>6. ASSUME n <= c PROVE Cardinality(F) = n
  <2> DEFINE index == [x \in F |-> rank[x]]
  <2>1. index \in [F -> 0 .. n - 1]
    <3>1. ASSUME NEW x \in F PROVE rank[x] \in 0 .. n - 1
      <4>1. rank[x] \in 0 .. c - 1 /\ rank[x] < n BY <1>3, <1>4
      <4> HIDE DEF rank, c
      <4> QED BY <1>1, <4>1
    <3> QED BY <3>1
  <2>2. index \in Injection(F, 0 .. n - 1)
    BY <1>3, <1>5, <2>1 DEF Injection, IsInjective
  <2>3. \A i \in 0 .. n - 1 : \E x \in F : index[x] = i
    <3> SUFFICES ASSUME NEW i \in 0 .. n - 1 PROVE \E x \in F : index[x] = i OBVIOUS
    <3>0. i \in 0 .. c - 1 /\ i < n
      <4> HIDE DEF c
      <4> QED BY <1>1, <1>6
    <3>1. PICK x \in S : rank[x] = i BY <1>2, <3>0 DEF Surjection
    <3>2. x \in F BY <1>4, <3>0, <3>1
    <3> QED BY <3>1, <3>2
  <2>4. index \in Surjection(F, 0 .. n - 1) BY <2>1, <2>3 DEF Surjection
  <2>5. 0 \in Int /\ n - 1 \in Int OBVIOUS
  <2>6. IsFiniteSet(0 .. n - 1) /\ Cardinality(0 .. n - 1) = n
    <3>1. IsFiniteSet(0 .. n - 1)
          /\ Cardinality(0 .. n - 1) = IF 0 > n - 1 THEN 0 ELSE n - 1 - 0 + 1
      BY <2>5, FS_Interval
    <3> QED BY <3>1
  <2> QED BY <2>2, <2>4, <2>6, FS_Injection
<1>7. ASSUME c <= n PROVE F = S
  <2>1. \A x \in S : rank[x] < n
    <3> SUFFICES ASSUME NEW x \in S PROVE rank[x] < n OBVIOUS
    <3>1. rank[x] \in 0 .. c - 1 BY <1>3
    <3> HIDE DEF rank, c
    <3> QED BY <1>1, <1>7, <3>1
  <2> QED BY <1>4, <2>1
<1>8. ASSUME NEW x \in F, NEW y \in S \ F PROVE <<x, y>> \in R
  <2>1. x # y /\ x \in S /\ y \in S BY <1>4
  <2>2. rank[x] < n /\ ~(rank[y] < n) /\ rank[x] \in Int /\ rank[y] \in Int
    BY <1>3, <1>4, <2>1
  <2>3. ~(rank[y] < rank[x])
    <3> HIDE DEF rank
    <3> QED BY <2>2
  <2> QED BY <1>2, <2>1, <2>3 DEF StrictlyOrders
<1> QED BY <1>5, <1>6, <1>7, <1>8

\* A set that is ordered and not empty has a first.
LEMMA OneIsFirst ==
  ASSUME NEW S, IsFiniteSet(S), S # {}, NEW R, StrictlyOrders(R, S)
  PROVE  \E x \in S : \A y \in S \ {x} : <<x, y>> \in R
<1> DEFINE F == FirstOf(R, S, 1)
<1>1. Cardinality(S) \in Nat /\ Cardinality(S) # 0 BY FS_CardinalityType, FS_EmptySet
<1>2. 1 \in Nat /\ 1 <= Cardinality(S) BY <1>1
<1>3. /\ IsFiniteSet(F) /\ Cardinality(F) = 1 /\ F \subseteq S
      /\ \A x \in F, y \in S \ F : <<x, y>> \in R
  BY <1>2, FirstFacts
<1>4. PICK x : F = {x} BY <1>3, FS_Singleton
<1> QED BY <1>3, <1>4

-----------------------------------------------------------------------------
(* The order of the candidates and of the dockets *)

LEMMA Limits ==
  /\ N \in Nat /\ IsFiniteSet(Rows) /\ Rows \subseteq Nat
  /\ \A x \in Profiles : Points[x] \in Nat
  /\ \A s \in Settings : /\ s.tracked \in Seq(ToSet(s.tracked)) /\ IsInjective(s.tracked)
                         /\ WhatChanged \notin ToSet(s.tracked) /\ NoDocket \notin ToSet(s.tracked)
                         /\ s.cap \in Nat /\ s.top \in Nat /\ s.top <= s.cap
                         /\ s.ceiling \in Nat /\ s.ceiling >= 1
<1>1. N \in Nat /\ FallbackCap \in Nat BY ContentAssumption DEF ContentAssumption
<1>2. IsFiniteSet(Rows) /\ Rows \subseteq Nat
  <2>1. 1 \in Int /\ N \in Int BY <1>1
  <2> QED BY <2>1, FS_Interval DEF Rows
<1>3. \A x \in Profiles : Points[x] \in Nat
  <2> SUFFICES ASSUME NEW x \in Profiles PROVE ScoreFiling(x) \in Nat BY DEF Points
  <2>1. x \in Extractions(-40 .. 40, Written(-40 .. 40))
    BY ContentAssumption DEF ContentAssumption
  <2>2. x.matches \in Nat BY <2>1 DEF Extractions
  <2> DEFINE a == If(x.doc \in Orders, 20)
             b == IF x.verdict = "relevant" THEN 10 ELSE 5
             c == IF Within(x.effective, 7) THEN 60 ELSE If(Within(x.effective, 30), 40)
             e == If(\E d \in Enriched(x) : Within(d.date, 7), 60)
  <2>3. a \in Nat /\ b \in Nat /\ c \in Nat /\ e \in Nat BY DEF If
  <2>4. ScoreFiling(x) = a + b + c + e + 10 * x.matches BY DEF ScoreFiling
  <2> HIDE DEF a, b, c, e
  <2> QED BY <2>2, <2>3, <2>4
<1>4. ASSUME NEW s \in Settings
      PROVE  /\ s.tracked \in Seq(ToSet(s.tracked)) /\ IsInjective(s.tracked)
             /\ WhatChanged \notin ToSet(s.tracked) /\ NoDocket \notin ToSet(s.tracked)
             /\ s.cap \in Nat /\ s.top \in Nat /\ s.top <= s.cap
             /\ s.ceiling \in Nat /\ s.ceiling >= 1
  <2>1. /\ s.tracked \in Seq(ToSet(s.tracked)) /\ IsInjective(s.tracked)
        /\ {NoDocket, WhatChanged} \cap ToSet(s.tracked) = {}
        /\ s.cap \in Nat /\ s.top \in 1 .. s.cap /\ s.ceiling \in Nat \ {0}
    BY ContentAssumption DEF ContentAssumption
  <2>2. WhatChanged \notin ToSet(s.tracked) /\ NoDocket \notin ToSet(s.tracked) BY <2>1
  <2>3. s.top \in Nat /\ s.top <= s.cap /\ s.ceiling \in Nat /\ s.ceiling >= 1 BY <2>1
  <2> QED BY <2>1, <2>2, <2>3
<1> QED BY <1>1, <1>2, <1>3, <1>4

LEMMA Finite ==
  ASSUME NEW S, S \subseteq Rows
  PROVE  IsFiniteSet(S) /\ Cardinality(S) \in Nat
BY Limits, FS_Subset, FS_CardinalityType

AheadIn(S) == {p \in S \X S : Ahead(p[1], p[2])}

LEMMA AheadOrders ==
  ASSUME TypeOK, CandidatesInv, stage \in InPlay
  PROVE  /\ \A f \in candidates : score(f) \in Nat /\ ~Ahead(f, f)
         /\ \A f, g \in candidates : /\ Ahead(f, g) => ~Ahead(g, f) /\ score(g) <= score(f)
                                     /\ f # g => Ahead(f, g) \/ Ahead(g, f)
         /\ \A f, g, h \in candidates : Ahead(f, g) /\ Ahead(g, h) => Ahead(f, h)
<1>1. \A f \in candidates : score(f) \in Nat /\ place[f] \in Nat
  BY Limits DEF TypeOK, CandidatesInv, score
<1>2. \A f, g \in candidates : f # g => place[f] # place[g] BY DEF CandidatesInv
<1> QED BY <1>1, <1>2 DEF Ahead

LEMMA Sorted ==
  ASSUME TypeOK, CandidatesInv, stage \in InPlay, NEW S, S \subseteq candidates
  PROVE  StrictlyOrders(AheadIn(S), S) /\ IsFiniteSet(S)
<1>1. IsFiniteSet(S) BY Finite DEF TypeOK
<1>2. \A f, g \in S : <<f, g>> \in AheadIn(S) <=> Ahead(f, g) BY DEF AheadIn
<1>3. \A x \in S : <<x, x>> \notin AheadIn(S) BY <1>2, AheadOrders
<1>4. \A x, y, z \in S : <<x, y>> \in AheadIn(S) /\ <<y, z>> \in AheadIn(S)
                           => <<x, z>> \in AheadIn(S)
  BY <1>2, AheadOrders
<1>5. \A x, y \in S : x # y => <<x, y>> \in AheadIn(S) \/ <<y, x>> \in AheadIn(S)
  BY <1>2, AheadOrders
<1> QED BY <1>1, <1>3, <1>4, <1>5 DEF StrictlyOrders

\* First takes n, or all there are, and leaves nothing better.
LEMMA Firsts ==
  ASSUME TypeOK, CandidatesInv, stage \in InPlay, NEW S, S \subseteq candidates, NEW n \in Nat
  PROVE  /\ First(S, n) \subseteq S /\ IsFiniteSet(First(S, n))
         /\ Cardinality(First(S, n)) \in Nat /\ Cardinality(First(S, n)) <= n
         /\ S \subseteq First(S, n) \/ Cardinality(First(S, n)) = n
         /\ \A f \in First(S, n), g \in S \ First(S, n) : Ahead(f, g)
         /\ NoneBetter(S \ First(S, n), First(S, n))
<1> DEFINE R == AheadIn(S)
<1>1. StrictlyOrders(R, S) /\ IsFiniteSet(S) BY Sorted
<1>2. \A f \in S : Before(R, S, f) = {g \in S : Ahead(g, f)} BY DEF Before, AheadIn
<1>3. First(S, n) = FirstOf(R, S, n) BY <1>2 DEF First, FirstOf
<1>4. /\ First(S, n) \subseteq S /\ IsFiniteSet(First(S, n))
      /\ n <= Cardinality(S) => Cardinality(First(S, n)) = n
      /\ Cardinality(S) <= n => First(S, n) = S
      /\ \A f \in First(S, n), g \in S \ First(S, n) : <<f, g>> \in R
  BY <1>1, <1>3, FirstFacts
<1>5. Cardinality(S) \in Nat /\ Cardinality(First(S, n)) \in Nat
  BY <1>1, <1>4, FS_CardinalityType
<1>6. Cardinality(First(S, n)) <= n /\ (S \subseteq First(S, n) \/ Cardinality(First(S, n)) = n)
  BY <1>4, <1>5
<1>7. \A f \in First(S, n), g \in S \ First(S, n) : Ahead(f, g) BY <1>4 DEF AheadIn
<1>8. NoneBetter(S \ First(S, n), First(S, n)) BY <1>4, <1>7, AheadOrders DEF NoneBetter
<1> QED BY <1>4, <1>5, <1>6, <1>7, <1>8

LEMMA BestIs ==
  ASSUME TypeOK, CandidatesInv, stage \in InPlay, NEW S, S \subseteq candidates, S # {}
  PROVE  /\ Best(S) \in S /\ \A g \in S \ {Best(S)} : Ahead(Best(S), g)
         /\ \A g \in S : score(g) <= score(Best(S)) /\ score(g) \in Nat
<1>1. \E f \in S : \A g \in S \ {f} : <<f, g>> \in AheadIn(S) BY Sorted, OneIsFirst
<1>2. \E f \in S : \A g \in S \ {f} : Ahead(f, g) BY <1>1 DEF AheadIn
<1>3. Best(S) \in S /\ \A g \in S \ {Best(S)} : Ahead(Best(S), g) BY <1>2 DEF Best
<1> QED BY <1>3, AheadOrders

\* And Best is the only one that is ahead of all.
LEMMA BestIsUnique ==
  ASSUME NEW S, NEW f \in S, \A g \in S \ {f} : Ahead(f, g) /\ ~Ahead(g, f)
  PROVE  Best(S) = f
<1>1. Best(S) \in S /\ \A g \in S \ {Best(S)} : Ahead(Best(S), g) BY DEF Best
<1> QED BY <1>1

LEMMA BestIsUniqueNext ==
  ASSUME NEW S, NEW f \in S, \A g \in S \ {f} : Ahead(f, g)' /\ ~Ahead(g, f)'
  PROVE  Best(S)' = f
<1>1. Best(S)' \in S /\ \A g \in S \ {Best(S)'} : Ahead(Best(S), g)' BY DEF Best
<1> QED BY <1>1

LEMMA TrackedFacts ==
  ASSUME TypeOK
  PROVE  /\ Tracked \subseteq Sections /\ WhatChanged \in Sections
         /\ WhatChanged \notin Tracked /\ NoDocket \notin Tracked
         /\ \A d \in Tracked : Listed(d) \in Nat
         /\ \A d, e \in Tracked : d # e => Listed(d) # Listed(e)
<1>1. /\ setting \in Settings /\ setting.tracked \in Seq(Tracked)
      /\ WhatChanged \notin Tracked /\ NoDocket \notin Tracked
  BY Limits DEF TypeOK, Tracked
<1>2. \A d \in Tracked : \E i \in DOMAIN setting.tracked : setting.tracked[i] = d
  BY DEF Tracked, ToSet
<1>3. \A d \in Tracked : Listed(d) \in DOMAIN setting.tracked /\ setting.tracked[Listed(d)] = d
  BY <1>2 DEF Listed
<1>4. DOMAIN setting.tracked \subseteq Nat
  <2>1. DOMAIN setting.tracked = 1 .. Len(setting.tracked) /\ Len(setting.tracked) \in Nat
    BY <1>1
  <2> QED BY <2>1
<1>5. Tracked \subseteq Sections
  <2>1. Tracked \in {ToSet(s.tracked) : s \in Settings} BY <1>1 DEF Tracked
  <2> HIDE DEF Tracked
  <2> QED BY <2>1 DEF Sections
<1>6. WhatChanged \in Sections BY DEF Sections
<1> QED BY <1>1, <1>3, <1>4, <1>5, <1>6

LEMMA Pools ==
  ASSUME TypeOK, stage \in InPlay
  PROVE  /\ IsFiniteSet(Active) /\ Cardinality(Active) \in Nat /\ Active \subseteq Tracked
         /\ \A d : Pool(d) \subseteq candidates
         /\ \A d, e : d # e => Pool(d) \cap Pool(e) = {}
         /\ Cardinality(top) \in Nat /\ Slots \in Nat /\ Slots = setting.cap - Cardinality(top)
<1>1. \A d : Pool(d) \subseteq candidates BY DEF Pool
<1>2. IsFiniteSet(Active)
  <2> DEFINE S == {f \in candidates \ top : /\ FilingOf[f] \notin TopFilings
                                            /\ docket[f] \in Tracked}
             at == [f \in S |-> docket[f]]
  <2>1. S \subseteq Rows BY DEF TypeOK
  <2>2. at \in [S -> Active] BY DEF Active, Pool
  <2>3. \A d \in Active : \E f \in S : at[f] = d BY DEF Active, Pool
  <2>4. at \in Surjection(S, Active) BY <2>2, <2>3 DEF Surjection
  <2> HIDE DEF S, at
  <2> QED BY <2>1, <2>4, Finite, FS_Surjection
<1>3. Cardinality(Active) \in Nat BY <1>2, FS_CardinalityType
<1>4. Cardinality(top) \in Nat /\ Cardinality(top) <= setting.top BY Finite DEF TypeOK, InPlay
<1>5. setting.cap \in Nat /\ setting.top \in Nat /\ setting.top <= setting.cap
  BY Limits DEF TypeOK
<1>6. Slots \in Nat /\ Slots = setting.cap - Cardinality(top) BY <1>4, <1>5 DEF Slots
<1> QED BY <1>1, <1>2, <1>3, <1>4, <1>6 DEF Active, Pool

-----------------------------------------------------------------------------
(* Floor *)

PrecedesIn == {p \in Active \X Active : Precedes(p[1], p[2])}

\* What a docket with something left would get next.
LEMMA NextFacts ==
  ASSUME TypeOK, CandidatesInv, stage \in InPlay, NEW d \in Tracked, Pool(d) \ body[d] # {}
  PROVE  /\ NextOf(d) \in Pool(d) \ body[d] /\ score(NextOf(d)) \in Nat
         /\ \A g \in (Pool(d) \ body[d]) \ {NextOf(d)} : Ahead(NextOf(d), g)
         /\ \A g \in Pool(d) \ body[d] : score(g) <= score(NextOf(d)) /\ score(g) \in Nat
<1>1. Pool(d) \ body[d] \subseteq candidates BY Pools
<1> QED BY <1>1, BestIs DEF NextOf

LEMMA PrecedesOrders ==
  ASSUME TypeOK, CandidatesInv, stage \in InPlay, body = Empty
  PROVE  StrictlyOrders(PrecedesIn, Active) /\ \A d \in Active : Pool(d) \ body[d] # {}
<1>1. \A d \in Active : d \in Tracked /\ Pool(d) # {} BY DEF Active
<1>2. \A d \in Tracked : body[d] = {} BY TrackedFacts DEF Empty
<1>3. \A d \in Active : Pool(d) \ body[d] # {} BY <1>1, <1>2
<1>4. \A d \in Active : score(NextOf(d)) \in Nat /\ Listed(d) \in Nat
  BY <1>1, <1>3, NextFacts, TrackedFacts
<1>5. \A d, e \in Active : d # e => Listed(d) # Listed(e) BY <1>1, TrackedFacts
<1>6. \A d, e \in Active : <<d, e>> \in PrecedesIn <=>
        \/ score(NextOf(d)) > score(NextOf(e))
        \/ score(NextOf(d)) = score(NextOf(e)) /\ Listed(d) < Listed(e)
  BY DEF PrecedesIn, Precedes
<1>7. \A x \in Active : <<x, x>> \notin PrecedesIn BY <1>4, <1>6
<1>8. \A x, y, z \in Active :
        <<x, y>> \in PrecedesIn /\ <<y, z>> \in PrecedesIn => <<x, z>> \in PrecedesIn
  BY <1>4, <1>6
<1>9. \A x, y \in Active : x # y => <<x, y>> \in PrecedesIn \/ <<y, x>> \in PrecedesIn
  BY <1>4, <1>5, <1>6
<1> QED BY <1>3, <1>7, <1>8, <1>9 DEF StrictlyOrders

\* The dockets that get a slot: all active ones when they fit, and otherwise as
\* many as there are slots, none of them behind one that gets none.
Led  == {d \in Active : Cardinality({e \in Active : Precedes(e, d)}) < Slots}
Fits == Cardinality(Active) <= Slots
Floored == IF Fits THEN Active ELSE Led

LEMMA LedFacts ==
  ASSUME TypeOK, CandidatesInv, stage \in InPlay, body = Empty, ~Fits
  PROVE  /\ Led \subseteq Active /\ Cardinality(Led) = Slots
         /\ \A d \in Led, e \in Active \ Led : score(NextOf(e)) <= score(NextOf(d))
<1>1. StrictlyOrders(PrecedesIn, Active) /\ IsFiniteSet(Active) /\ Slots \in Nat
      /\ \A d \in Active : d \in Tracked /\ Pool(d) \ body[d] # {}
  BY PrecedesOrders, Pools
<1>2. \A d \in Active : Before(PrecedesIn, Active, d) = {e \in Active : Precedes(e, d)}
  BY DEF Before, PrecedesIn
<1>3. Led = FirstOf(PrecedesIn, Active, Slots) BY <1>2 DEF Led, FirstOf
<1>4. Slots <= Cardinality(Active) BY <1>1, Pools DEF Fits
<1>5. /\ Led \subseteq Active /\ Cardinality(Led) = Slots
      /\ \A d \in Led, e \in Active \ Led : <<d, e>> \in PrecedesIn
  BY <1>1, <1>3, <1>4, FirstFacts
<1>6. \A d \in Active : score(NextOf(d)) \in Nat BY <1>1, NextFacts
<1>7. \A d \in Led, e \in Active \ Led :
        \/ score(NextOf(d)) > score(NextOf(e))
        \/ score(NextOf(d)) = score(NextOf(e))
  BY <1>5 DEF PrecedesIn, Precedes
<1>8. \A d \in Led, e \in Active \ Led : score(NextOf(e)) <= score(NextOf(d))
  BY <1>5, <1>6, <1>7
<1> QED BY <1>5, <1>8

-----------------------------------------------------------------------------
(* The other steps *)

LEMMA NothingShown ==
  /\ Empty \in [Sections -> SUBSET {}] /\ \A s \in Sections : Empty[s] = {}
  /\ body = Empty => InBody = {} /\ Entries = top
  /\ body' = Empty => InBody' = {} /\ Entries' = top'
BY DEF Empty, InBody, Entries

\* Until the row is written nothing is to be shown of it but where the rows and
\* filings are.
LEMMA SameItems ==
  ASSUME RowListsTheBrief, UNCHANGED <<setting, top, body>>, stage' # "insert"
  PROVE  RowListsTheBrief'
<1>1. InBody' = InBody BY DEF InBody
<1>2. Tracked' = Tracked /\ TopFilings' = TopFilings BY DEF Tracked, TopFilings
<1> QED BY <1>1, <1>2 DEF RowListsTheBrief, OnePlaceEach

LEMMA NoItems ==
  ASSUME body' = Empty, stage' # "insert"
  PROVE  RowListsTheBrief'
BY NothingShown DEF RowListsTheBrief, OnePlaceEach

\* A brief that keeps what is in S, where it was: the handler's Keep.
LEMMA KeptItems ==
  ASSUME TypeOK, OnePlaceEach, stage # "insert", setting' = setting, NEW S, Keep(S)
  PROVE  /\ Entries' = Entries \cap S
         /\ top' \subseteq top \cap S /\ Cardinality(top') <= setting.top
         /\ \A s \in Sections : body'[s] \subseteq body[s] \cap S
         /\ body' \in [Sections -> SUBSET (candidates \cap S)]
         /\ OnePlaceEach'
<1>1. /\ top' = top \cap S /\ \A s \in Sections : body'[s] = body[s] \cap S
      /\ body' \in [Sections -> SUBSET (candidates \cap S)]
  BY DEF Keep, TypeOK
<1>2. IsFiniteSet(top) /\ Cardinality(top) \in Nat /\ Cardinality(top) <= setting.top
      /\ setting.top \in Nat
  BY Finite, Limits DEF TypeOK
<1>3. IsFiniteSet(top') /\ Cardinality(top') <= Cardinality(top) BY <1>1, <1>2, FS_Subset
<1>4. Cardinality(top') \in Nat BY <1>3, FS_CardinalityType
<1>5. InBody' = InBody \cap S BY <1>1 DEF InBody
<1>6. Entries' = Entries \cap S BY <1>1, <1>5 DEF Entries
<1>7. OnePlaceEach'
  <2>1. Tracked' = Tracked /\ TopFilings' \subseteq TopFilings BY <1>1 DEF Tracked, TopFilings
  <2> QED BY <1>1, <1>5, <2>1 DEF OnePlaceEach
<1> QED BY <1>1, <1>2, <1>3, <1>4, <1>5, <1>6, <1>7

\* And one that keeps it where the first entry of its filing was.
LEMMA MovedItems ==
  ASSUME TypeOK, OnePlaceEach, setting' = setting, NEW S, S \subseteq Entries,
         top' = {f \in S : FilingOf[f] \in TopFilings},
         \A s \in Sections : body'[s] = (body[s] \cap S) \ top'
  PROVE  /\ Entries' = S /\ OnePlaceEach'
         /\ \A s \in Sections : body'[s] \subseteq body[s] \cap S
<1>1. \A s \in Sections : body'[s] = (body[s] \cap S) \ top' OBVIOUS
<1>2. InBody' = (InBody \cap S) \ top' BY <1>1 DEF InBody
<1>3. top \cap S \subseteq top' BY DEF TopFilings
<1>4. Entries' = S BY <1>2, <1>3 DEF Entries
<1>5. Tracked' = Tracked /\ TopFilings' \subseteq TopFilings BY DEF Tracked, TopFilings
<1> QED BY <1>1, <1>2, <1>4, <1>5 DEF OnePlaceEach

LEMMA EntriesAreIn ==
  ASSUME TypeOK PROVE Entries \subseteq candidates /\ candidates \subseteq Rows
BY DEF TypeOK, Entries, InBody

LEMMA SmallestRow ==
  ASSUME NEW S, S \subseteq Rows, S # {}
  PROVE  Min(S) \in S
<1> DEFINE R == {p \in S \X S : p[1] < p[2]}
<1>1. S \subseteq Nat /\ IsFiniteSet(S) BY Finite, Limits
<1>2. \A x, y \in S : <<x, y>> \in R <=> x < y OBVIOUS
<1>3. StrictlyOrders(R, S) BY <1>1, <1>2 DEF StrictlyOrders
<1>4. \E x \in S : \A y \in S \ {x} : <<x, y>> \in R BY <1>1, <1>3, OneIsFirst
<1>5. PICK x \in S : \A y \in S \ {x} : <<x, y>> \in R BY <1>4
<1>6. \A y \in S \ {x} : x < y BY <1>2, <1>5
<1>7. \A y \in S : x <= y BY <1>1, <1>6
<1> QED BY <1>7 DEF Min

LEMMA PlaceFacts ==
  ASSUME TypeOK, NEW f \in Deduped
  PROVE  /\ ItemKey[f] = NoKey => Place(f) = N + f
         /\ ItemKey[f] # NoKey => /\ Place(f) \in Rows
                                  /\ ItemKey[Place(f)] = ItemKey[f]
         /\ Place(f) \in 0 .. 2 * N
<1>1. f \in Rows /\ f \in Nat /\ f >= 1 /\ f <= N /\ N \in Nat
  BY Limits DEF Deduped, TypeOK, Rows
<1>2. CASE ItemKey[f] = NoKey BY <1>1, <1>2 DEF Place
<1>3. CASE ItemKey[f] # NoKey
  <2>1. Keyed(ItemKey[f]) \subseteq Rows /\ f \in Keyed(ItemKey[f])
    BY DEF Keyed, Deduped, TypeOK
  <2>2. Place(f) \in Keyed(ItemKey[f]) BY <1>3, <2>1, SmallestRow DEF Place
  <2>3. Place(f) \in Rows /\ ItemKey[Place(f)] = ItemKey[f] BY <2>1, <2>2 DEF Keyed
  <2>4. Place(f) \in 0 .. 2 * N BY <1>1, <2>3 DEF Rows
  <2> QED BY <1>3, <2>3, <2>4
<1> QED BY <1>2, <1>3

LEMMA OneEach ==
  ASSUME TypeOK, NEW f \in Deduped, NEW g \in Deduped, f # g
  PROVE  (ItemKey[f] = ItemKey[g] => ItemKey[f] = NoKey) /\ Place(f) # Place(g)
<1>0. /\ f \in candidates /\ g \in candidates /\ candidates \subseteq 1 .. N /\ N \in Nat
      /\ richness \in [Rows -> {1, 2}]
  BY Limits DEF Deduped, TypeOK, Rows, Sizes
<1>1. /\ f \in candidates /\ g \in candidates /\ f \in Nat /\ g \in Nat
      /\ f >= 1 /\ g >= 1 /\ f <= N /\ g <= N /\ N \in Nat
      /\ richness[f] \in Nat /\ richness[g] \in Nat
  BY <1>0 DEF Rows
<1>2. ASSUME ItemKey[f] = ItemKey[g], ItemKey[f] # NoKey PROVE FALSE
  <2>1. Richest(f) /\ Richest(g) BY <1>2 DEF Deduped
  <2>2. f \in Keyed(ItemKey[g]) /\ g \in Keyed(ItemKey[f]) BY <1>1, <1>2 DEF Keyed, RoleMatch
  <2>3. richness[g] < richness[f] \/ (richness[g] = richness[f] /\ f < g)
    BY <2>1, <2>2 DEF Richest
  <2>4. richness[f] < richness[g] \/ (richness[f] = richness[g] /\ g < f)
    BY <2>1, <2>2 DEF Richest
  <2> QED BY <1>1, <2>3, <2>4
<1>3. Place(f) # Place(g)
  <2>1. CASE ItemKey[f] = NoKey /\ ItemKey[g] = NoKey BY <1>1, <2>1, PlaceFacts
  <2>2. CASE ItemKey[f] # NoKey /\ ItemKey[g] # NoKey BY <1>2, <2>2, PlaceFacts
  <2>3. CASE ItemKey[f] = NoKey /\ ItemKey[g] # NoKey
    <3>1. Place(f) = N + f /\ Place(g) \in 1 .. N BY <2>3, PlaceFacts DEF Rows
    <3> QED BY <1>1, <3>1
  <2>4. CASE ItemKey[f] # NoKey /\ ItemKey[g] = NoKey
    <3>1. Place(g) = N + g /\ Place(f) \in 1 .. N BY <2>4, PlaceFacts DEF Rows
    <3> QED BY <1>1, <3>1
  <2> QED BY <2>1, <2>2, <2>3, <2>4
<1> QED BY <1>2, <1>3

LEMMA SelectStep == ASSUME ContentInv, Select PROVE ContentInv'
<1> USE DEF ContentInv
<1>1. /\ stage = "select" /\ stage' = "score" /\ candidates' = Deduped \cap claims
      /\ place' = [f \in Rows |-> IF f \in candidates' THEN Place(f) ELSE 0]
      /\ richness' = [f \in Rows |-> 1] /\ claims' = {} /\ top = {} /\ body = Empty
      /\ row = {} /\ UNCHANGED <<setting, docket, profile, top, body, answer, row>>
  BY DEF Select, StageInv, limits
<1>2. candidates' \subseteq Rows /\ N \in Nat BY <1>1, Limits DEF Deduped, TypeOK
<1>3. place' \in [Rows -> 0 .. 2 * N]
  <2>1. 0 \in 0 .. 2 * N BY <1>2
  <2>2. \A f \in Rows : (IF f \in candidates' THEN Place(f) ELSE 0) \in 0 .. 2 * N
    BY <1>1, <2>1, PlaceFacts
  <2> QED BY <1>1, <2>2
<1>4. TypeOK'
  <2>1. /\ stage' \in Stages /\ setting' \in Settings /\ Tracked' = Tracked
        /\ richness' \in [Rows -> Sizes] /\ claims' \subseteq Rows
    BY <1>1 DEF TypeOK, Stages, Sizes, Tracked
  <2>2. top' \subseteq candidates' /\ Cardinality(top') <= setting'.top
    BY <1>1 DEF TypeOK
  <2>3. body' \in [Sections -> SUBSET candidates'] /\ \A s \in Sections : body'[s] = {}
    BY <1>1, NothingShown
  <2> QED BY <1>1, <1>2, <1>3, <2>1, <2>2, <2>3 DEF TypeOK
<1>5. CandidatesInv'
  <2>1. \A f \in candidates' : f \in Deduped /\ place'[f] = Place(f) BY <1>1, <1>2
  <2>2. \A f, g \in candidates' : f # g => place'[f] # place'[g] BY <2>1, OneEach
  <2>3. \A f, g \in candidates' : ItemKey[f] = ItemKey[g] /\ f # g => ItemKey[f] = NoKey
    BY <2>1, OneEach
  <2> QED BY <1>1, <2>2, <2>3 DEF CandidatesInv, InPlay
<1>6. StageInv' BY <1>1 DEF StageInv
<1>7. RowListsTheBrief' BY <1>1, SameItems
<1> QED BY <1>1, <1>4, <1>5, <1>6, <1>7 DEF BestWithinLimits

LEMMA ScoreStep == ASSUME ContentInv, Score PROVE ContentInv'
<1> USE DEF ContentInv
<1>1. PICK x \in [candidates -> Profiles],
           d \in [{FilingOf[f] : f \in candidates} -> Tracked \cup {NoDocket}] :
        /\ profile' = [f \in Rows |-> IF f \in candidates THEN x[f] ELSE NoProfile]
        /\ docket'  = [f \in Rows |-> IF f \in candidates THEN d[FilingOf[f]] ELSE NoDocket]
  BY DEF Score
<1>2. /\ stage = "score" /\ stage' = IF Tracked = {} THEN "flat" ELSE "allocate"
      /\ UNCHANGED <<setting, richness, claims, candidates, place, top, body, answer, row>>
      /\ top = {} /\ body = Empty /\ row = {}
  BY DEF Score, limits, read, StageInv
<1>3. Tracked' = Tracked BY <1>2 DEF Tracked
<1>4. TypeOK'
  <2>1. docket' \in [Rows -> Tracked \cup {NoDocket}] BY <1>1
  <2>2. profile' \in [Rows -> Profiles \cup {NoProfile}] BY <1>1
  <2>3. stage' \in Stages BY <1>2 DEF Stages
  <2> QED BY <1>2, <1>3, <2>1, <2>2, <2>3 DEF TypeOK
<1>5. CandidatesInv'
  <2>1. \A f \in candidates' : profile'[f] \in Profiles BY <1>1, <1>2 DEF TypeOK
  <2> QED BY <1>2, <2>1 DEF CandidatesInv, InPlay
<1>6. StageInv' BY <1>2, <1>3 DEF StageInv
<1>7. RowListsTheBrief' BY <1>2, SameItems
<1> QED BY <1>2, <1>4, <1>5, <1>6, <1>7 DEF BestWithinLimits

LEMMA TopOfMindStep == ASSUME ContentInv, TopOfMind PROVE ContentInv'
<1> USE DEF ContentInv
<1>1. /\ stage = "allocate" /\ stage' = "floor" /\ top' = First(candidates, setting.top)
      /\ UNCHANGED <<setting, richness, claims, candidates, place, docket, profile,
                     body, answer, row>>
      /\ body = Empty /\ row = {} /\ Tracked # {} /\ stage \in InPlay
  BY DEF TopOfMind, limits, read, ranked, StageInv, InPlay
<1>2. setting.top \in Nat BY Limits DEF TypeOK
<1>3. /\ top' \subseteq candidates /\ Cardinality(top') <= setting.top
      /\ NoneBetter(candidates \ top', top')
  BY <1>1, <1>2, Firsts
<1>4. Tracked' = Tracked BY <1>1 DEF Tracked
<1>5. TypeOK' BY <1>1, <1>3, <1>4 DEF TypeOK, Stages
<1>6. CandidatesInv' BY <1>1 DEF CandidatesInv, InPlay
<1>7. StageInv'
  <2>1. NoneBetter(candidates \ top, top)' BY <1>1, <1>3 DEF NoneBetter, score
  <2> QED BY <1>1, <1>4, <2>1 DEF StageInv
<1>8. RowListsTheBrief' BY <1>1, NoItems
<1> QED BY <1>1, <1>5, <1>6, <1>7, <1>8 DEF BestWithinLimits

LEMMA FlatStep == ASSUME ContentInv, Flat PROVE ContentInv'
<1> USE DEF ContentInv
<1> DEFINE flat == First(candidates, setting.cap)
           best == First(flat, setting.top)
<1>1. /\ stage = "flat" /\ stage' = "allocated" /\ top' = {f \in best : score(f) >= HighScore}
      /\ body' = [Empty EXCEPT ![WhatChanged] = flat \ top']
      /\ UNCHANGED <<setting, richness, claims, candidates, place, docket, profile, answer, row>>
      /\ row = {} /\ Tracked = {} /\ stage \in InPlay
  BY DEF Flat, limits, read, ranked, StageInv, InPlay
<1>2. setting.top \in Nat /\ setting.cap \in Nat BY Limits DEF TypeOK
<1>3. /\ flat \subseteq candidates /\ IsFiniteSet(flat) /\ Cardinality(flat) <= setting.cap
      /\ candidates \subseteq flat \/ Cardinality(flat) = setting.cap
      /\ NoneBetter(candidates \ flat, flat)
  BY <1>1, <1>2, Firsts
<1>4. /\ best \subseteq flat /\ IsFiniteSet(best) /\ Cardinality(best) \in Nat
      /\ Cardinality(best) <= setting.top /\ NoneBetter(flat \ best, best)
  BY <1>1, <1>2, <1>3, Firsts
<1> HIDE DEF flat, best
<1>5. top' \subseteq flat /\ Cardinality(top') <= setting.top
  <2>1. top' \subseteq best BY <1>1
  <2>2. IsFiniteSet(top') /\ Cardinality(top') <= Cardinality(best) BY <1>4, <2>1, FS_Subset
  <2>3. Cardinality(top') \in Nat BY <2>2, FS_CardinalityType
  <2> QED BY <1>2, <1>4, <2>1, <2>2, <2>3
<1>6. /\ WhatChanged \in Sections /\ body'[WhatChanged] = flat \ top'
      /\ \A s \in Sections \ {WhatChanged} : body'[s] = {}
      /\ body' \in [Sections -> SUBSET candidates]
  BY <1>1, <1>3, TrackedFacts, NothingShown
<1>7. InBody' = flat \ top' /\ Entries' = flat BY <1>5, <1>6 DEF InBody, Entries
<1>8. Tracked' = Tracked BY <1>1 DEF Tracked
<1>9. TypeOK'
  <2>1. top' \subseteq candidates BY <1>3, <1>5
  <2> QED BY <1>1, <1>5, <1>6, <1>8, <2>1 DEF TypeOK, Stages
<1>10. CandidatesInv' BY <1>1 DEF CandidatesInv, InPlay
<1>11. StageInv' BY <1>1 DEF StageInv
<1>12. RowListsTheBrief' BY <1>1, <1>6, <1>7, <1>8 DEF RowListsTheBrief, OnePlaceEach
<1>13. \A f : score(f)' = score(f) BY <1>1 DEF score
<1>14. \A f \in candidates : score(f) \in Nat BY <1>1, AheadOrders
<1>15. BestWithinLimits'
  <2>1. NoneBetter(candidates \ top, top)'
    <3>1. ASSUME NEW f \in candidates \ top', NEW g \in top' PROVE score(f) <= score(g)
      <4>1. g \in best /\ g \in flat /\ score(g) >= HighScore BY <1>1, <1>5
      <4>2. CASE f \notin flat BY <1>3, <4>1, <4>2 DEF NoneBetter
      <4>3. CASE f \in flat \ best BY <1>4, <4>1, <4>3 DEF NoneBetter
      <4>4. CASE f \in best
        <5>1. HighScore \in Nat BY ContentAssumption DEF ContentAssumption
        <5>2. ~(score(f) >= HighScore) BY <1>1, <4>4
        <5> QED BY <1>3, <1>14, <4>1, <5>1, <5>2
      <4> QED BY <4>2, <4>3, <4>4
    <3> QED BY <1>1, <1>13, <3>1 DEF NoneBetter
  <2>2. BestOverall'
    <3>1. NoneBetter(candidates \ Entries, Entries)'
      BY <1>1, <1>3, <1>7, <1>13 DEF NoneBetter
    <3> QED BY <1>1, <1>3, <1>7, <3>1 DEF BestOverall
  <2> QED BY <1>1, <1>3, <1>7, <1>8, <2>1, <2>2 DEF BestWithinLimits
<1> QED BY <1>1, <1>9, <1>10, <1>11, <1>12, <1>15

LEMMA R2CheckStep == ASSUME ContentInv, R2Check PROVE ContentInv'
<1> USE DEF ContentInv
<1>1. PICK present \in SUBSET Entries :
        /\ Keep(present) /\ candidates' = present
        /\ stage' = IF present = {} THEN "skipped" ELSE "compose"
  <2>1. PICK gone \in SUBSET {FilingOf[f] : f \in Entries} :
          LET present == {f \in Entries : FilingOf[f] \notin gone}
          IN  /\ Keep(present) /\ candidates' = present
              /\ stage' = IF present = {} THEN "skipped" ELSE "compose"
    BY DEF R2Check
  <2>2. {f \in Entries : FilingOf[f] \notin gone} \in SUBSET Entries OBVIOUS
  <2> QED BY <2>1, <2>2
<1>2. /\ stage = "allocated" /\ place' = Unranked /\ docket' = NoneAt /\ profile' = Unread
      /\ UNCHANGED <<setting, richness, claims, answer, row>> /\ row = {}
  BY DEF R2Check, limits, read, StageInv
<1>3. Entries \subseteq candidates /\ candidates \subseteq Rows BY EntriesAreIn
<1>4. Tracked' = Tracked BY <1>2 DEF Tracked
<1>5. TypeOK'
  <2>1. place' \in [Rows -> 0 .. 2 * N] BY <1>2, Limits DEF Unranked
  <2>2. docket' \in [Rows -> Tracked' \cup {NoDocket}] BY <1>2 DEF NoneAt
  <2>3. profile' \in [Rows -> Profiles \cup {NoProfile}] BY <1>2 DEF Unread
  <2>4. candidates \cap present = present BY <1>3
  <2>5. /\ top' \subseteq candidates' /\ Cardinality(top') <= setting'.top
        /\ body' \in [Sections -> SUBSET candidates']
    BY <1>1, <1>2, <2>4, KeptItems DEF RowListsTheBrief
  <2>6. \A s \in Sections : body'[s] # {} => s \in Tracked' \/ Tracked' = {}
    BY <1>1, <1>2, <1>4, KeptItems DEF TypeOK, RowListsTheBrief
  <2>7. stage' \in Stages /\ candidates' \subseteq Rows /\ row' \subseteq candidates'
    BY <1>1, <1>2, <1>3 DEF Stages
  <2> QED BY <1>2, <2>1, <2>2, <2>3, <2>5, <2>6, <2>7 DEF TypeOK
<1>6. CandidatesInv' BY <1>1, <1>2, <1>3 DEF CandidatesInv, InPlay
<1>7. StageInv' BY <1>1, <1>2 DEF StageInv
<1>8. RowListsTheBrief' BY <1>1, <1>2, KeptItems DEF RowListsTheBrief
<1> QED BY <1>1, <1>5, <1>6, <1>7, <1>8 DEF BestWithinLimits

LEMMA AskStep == ASSUME ContentInv, Compose \/ Retry PROVE ContentInv'
<1> USE DEF ContentInv
<1>1. /\ stage \in {"compose", "retry"} /\ stage' \in {"retry", "validate"}
      /\ answer' = answer \/ answer' \in Answered
      /\ UNCHANGED <<setting, richness, claims, candidates, place, docket, profile,
                     top, body, row>>
  BY DEF Compose, Retry, limits, read, ranked
<1>2. answer' \in [Filings -> Answers]
  <2>1. Answered \subseteq [Filings -> Answers]
    <3> DEFINE sent == {FilingOf[f] : f \in Entries}
    <3> SUFFICES ASSUME NEW a \in [sent -> Answers]
                 PROVE  [x \in Filings |-> IF x \in sent THEN a[x] ELSE "absent"]
                          \in [Filings -> Answers]
      BY DEF Answered
    <3>1. "absent" \in Answers BY DEF Answers
    <3> QED BY <3>1
  <2> QED BY <1>1, <2>1 DEF TypeOK
<1>3. Tracked' = Tracked BY <1>1 DEF Tracked
<1>4. TypeOK' BY <1>1, <1>2, <1>3 DEF TypeOK, Stages
<1>5. CandidatesInv' BY <1>1 DEF CandidatesInv, InPlay
<1>6. StageInv' BY <1>1 DEF StageInv
<1>7. RowListsTheBrief' BY <1>1, SameItems
<1> QED BY <1>1, <1>4, <1>5, <1>6, <1>7 DEF BestWithinLimits

\* What the answers leave is the brief and its row.
LEMMA SendStep ==
  ASSUME ContentInv, stage \in {"validate", "fallback"}, NEW S, S \subseteq Entries,
         Entries' = S, DOMAIN body' = Sections, body' = [s \in Sections |-> body'[s]],
         \A s \in Sections : body'[s] \subseteq body[s], OnePlaceEach', row' = S,
         stage' = (IF S = {} THEN "skipped" ELSE "insert"), answer' = Silent,
         UNCHANGED <<setting, richness, claims, candidates, place, docket, profile>>
  PROVE  ContentInv'
<1> USE DEF ContentInv
<1>1. Entries \subseteq candidates BY EntriesAreIn
<1>2. Tracked' = Tracked BY DEF Tracked
<1>3. TypeOK'
  <2>1. stage' \in Stages /\ answer' \in [Filings -> Answers] BY DEF Stages, Silent, Answers
  <2>2. /\ top' \subseteq candidates' /\ body' \in [Sections -> SUBSET candidates']
        /\ \A s \in Sections : body'[s] # {} => s \in Tracked' \/ Tracked' = {}
    <3>1. top' \subseteq S BY DEF Entries
    <3>2. \A s \in Sections : body'[s] \subseteq candidates BY DEF TypeOK
    <3>3. \A s \in Sections : body[s] # {} => s \in Tracked \/ Tracked = {} BY DEF TypeOK
    <3> QED BY <1>1, <1>2, <3>1, <3>2, <3>3
  <2>3. stage' # "insert" => Cardinality(top') <= setting'.top
    <3>1. stage' # "insert" => top' = {} BY DEF Entries
    <3>2. setting.top \in Nat BY Limits DEF TypeOK
    <3> QED BY <3>1, <3>2, FS_EmptySet
  <2>4. row' \subseteq candidates' BY <1>1
  <2>5. /\ setting' \in Settings /\ richness' \in [Rows -> Sizes] /\ claims' \subseteq Rows
        /\ candidates' \subseteq Rows /\ place' \in [Rows -> 0 .. 2 * N]
        /\ docket' \in [Rows -> Tracked' \cup {NoDocket}]
        /\ profile' \in [Rows -> Profiles \cup {NoProfile}]
    BY <1>2 DEF TypeOK
  <2> QED BY <2>1, <2>2, <2>3, <2>4, <2>5 DEF TypeOK
<1>4. CandidatesInv' BY DEF CandidatesInv, InPlay
<1>5. StageInv' BY DEF StageInv
<1>6. RowListsTheBrief'
  <2>1. \A f, g \in S : ItemKey[f] = ItemKey[g] /\ f # g => ItemKey[f] = NoKey
    BY <1>1 DEF CandidatesInv
  <2> QED BY <2>1 DEF RowListsTheBrief
<1> QED BY <1>3, <1>4, <1>5, <1>6 DEF BestWithinLimits

LEMMA ValidateStep == ASSUME ContentInv, Validate PROVE ContentInv'
<1>1. CASE With("good") # {}
  <2>1. With("good") \subseteq Entries BY DEF With
  <2>2. /\ Keep(With("good")) /\ stage = "validate" /\ stage' = "insert"
        /\ row' = With("good") /\ answer' = Silent
        /\ UNCHANGED <<setting, richness, claims, candidates, place, docket, profile>>
    BY <1>1 DEF Validate, Valid, limits, read, ranked
  <2>3. TypeOK /\ OnePlaceEach BY DEF ContentInv, RowListsTheBrief
  <2>4. /\ Entries' = Entries \cap With("good") /\ OnePlaceEach'
        /\ \A s \in Sections : body'[s] \subseteq body[s]
    BY <2>2, <2>3, KeptItems
  <2>5. DOMAIN body' = Sections /\ body' = [s \in Sections |-> body'[s]] BY <2>2 DEF Keep
  <2> QED BY <1>1, <2>1, <2>2, <2>4, <2>5, SendStep
<1>2. CASE With("good") = {}
  <2> USE DEF ContentInv
  <2>1. /\ stage = "validate" /\ stage' = "fallback"
        /\ UNCHANGED <<setting, richness, claims, candidates, place, docket, profile,
                       top, body, answer, row>>
    BY <1>2 DEF Validate, limits, read, ranked
  <2>2. Tracked' = Tracked BY <2>1 DEF Tracked
  <2>3. TypeOK' BY <2>1, <2>2 DEF TypeOK, Stages
  <2>4. CandidatesInv' BY <2>1 DEF CandidatesInv, InPlay
  <2>5. StageInv' BY <2>1 DEF StageInv
  <2>6. RowListsTheBrief' BY <2>1, SameItems
  <2> QED BY <2>1, <2>3, <2>4, <2>5, <2>6 DEF BestWithinLimits
<1> QED BY <1>1, <1>2

LEMMA FallbackStep == ASSUME ContentInv, Fallback PROVE ContentInv'
<1>1. PICK S \in SUBSET With("badCitation") :
        /\ top'  = {f \in S : FilingOf[f] \in TopFilings}
        /\ body' = [s \in Sections |-> (body[s] \cap S) \ top']
        /\ row' = S /\ stage' = (IF S = {} THEN "skipped" ELSE "insert")
  BY DEF Fallback
<1>2. S \subseteq Entries BY DEF With
<1>3. /\ stage = "fallback" /\ answer' = Silent
      /\ UNCHANGED <<setting, richness, claims, candidates, place, docket, profile>>
  BY DEF Fallback, limits, read, ranked
<1>4. TypeOK /\ OnePlaceEach BY DEF ContentInv, RowListsTheBrief
<1>5. Entries' = S /\ OnePlaceEach' /\ \A s \in Sections : body'[s] \subseteq body[s]
  <2>1. setting' = setting BY <1>3
  <2>2. \A s \in Sections : body'[s] = (body[s] \cap S) \ top' BY <1>1
  <2> QED BY <1>1, <1>2, <1>4, <2>1, <2>2, MovedItems
<1>6. DOMAIN body' = Sections /\ body' = [s \in Sections |-> body'[s]] BY <1>1
<1> QED BY <1>1, <1>2, <1>3, <1>5, <1>6, SendStep

-----------------------------------------------------------------------------
(* The steps of the allocation *)

\* They leave the candidates, their order and the limits as they are.
LEMMA SameOrder ==
  ASSUME UNCHANGED <<setting, candidates, place, docket, profile, top>>
  PROVE  /\ Tracked' = Tracked /\ Active' = Active /\ Slots' = Slots /\ Ceiling' = Ceiling
         /\ \A d : Pool(d)' = Pool(d)
         /\ \A f : score(f)' = score(f)
         /\ \A f, g : Ahead(f, g)' <=> Ahead(f, g)
<1>1. Tracked' = Tracked BY DEF Tracked
<1>2. \A d : Pool(d)' = Pool(d) BY DEF Pool, TopFilings
<1>3. Active' = Active BY <1>1, <1>2 DEF Active
<1>4. Slots' = Slots BY DEF Slots
<1>5. Ceiling' = Ceiling BY <1>3, <1>4 DEF Ceiling
<1>6. \A f : score(f)' = score(f) BY DEF score
<1>7. \A f, g : Ahead(f, g)' <=> Ahead(f, g) BY <1>6 DEF Ahead
<1> QED BY <1>1, <1>2, <1>3, <1>4, <1>5, <1>6, <1>7

\* What of the invariant does not depend on how the slots are given out.
LEMMA SlotsGiven ==
  ASSUME ContentInv, stage \in {"floor", "bonus"}, stage' \in {"bonus", "allocated"},
         UNCHANGED <<setting, richness, claims, candidates, place, docket, profile,
                     top, answer, row>>,
         DOMAIN body' = Sections, body' = [s \in Sections |-> body'[s]],
         \A s \in Sections \ Tracked : body'[s] = {},
         \A d \in Tracked : body'[d] \subseteq Pool(d)
  PROVE  /\ TypeOK' /\ CandidatesInv' /\ StageInv' /\ RowListsTheBrief'
         /\ NoneBetter(candidates \ top, top)'
         /\ IsFiniteSet(InBody') /\ Cardinality(InBody') \in Nat
         /\ Cardinality(Entries') = Cardinality(top) + Cardinality(InBody')
<1> USE DEF ContentInv
<1>1. Tracked' = Tracked /\ \A f : score(f)' = score(f) BY SameOrder
<1>2. \A d \in Tracked : Pool(d) \subseteq candidates \ top BY DEF Pool
<1>3. \A s \in Sections : body'[s] \subseteq candidates BY <1>2
<1>4. TypeOK'
  <2>1. body' \in [Sections -> SUBSET candidates] BY <1>3
  <2> QED BY <1>1, <2>1 DEF TypeOK, Stages
<1>5. CandidatesInv' BY DEF CandidatesInv, InPlay
<1>6. NoneBetter(candidates \ top, top)' BY <1>1 DEF StageInv, NoneBetter
<1>7. StageInv' BY <1>1, <1>6 DEF StageInv
<1>8. InBody' \subseteq candidates \ top BY <1>2 DEF InBody
<1>9. RowListsTheBrief'
  <2>1. \A s, t \in Sections : s # t => body'[s] \cap body'[t] = {}
    BY Pools DEF InPlay
  <2>2. \A f \in InBody' : FilingOf[f] \notin TopFilings BY DEF InBody, Pool
  <2>3. TopFilings' = TopFilings BY DEF TopFilings
  <2> QED BY <1>8, <2>1, <2>2, <2>3 DEF RowListsTheBrief, OnePlaceEach
<1>10. IsFiniteSet(InBody') /\ Cardinality(InBody') \in Nat
       /\ Cardinality(Entries') = Cardinality(top) + Cardinality(InBody')
  <2>1. InBody' \subseteq Rows /\ top \subseteq Rows BY <1>8 DEF TypeOK
  <2>2. IsFiniteSet(InBody') /\ Cardinality(InBody') \in Nat
        /\ IsFiniteSet(top) /\ Cardinality(top) \in Nat
    BY <2>1, Finite
  <2>3. Entries' = top \cup InBody' /\ top \cap InBody' = {} BY <1>8 DEF Entries
  <2>4. Cardinality(top \cup InBody') = Cardinality(top) + Cardinality(InBody') - Cardinality({})
    BY <2>2, <2>3, FS_Union
  <2> QED BY <2>2, <2>3, <2>4, FS_EmptySet
<1> QED BY <1>4, <1>5, <1>6, <1>7, <1>9, <1>10

LEMMA OutNext ==
  ASSUME TypeOK, UNCHANGED <<setting, candidates, place, docket, profile, top>>,
         NEW d \in Tracked
  PROVE  Out(d)' \subseteq Pool(d) \ body'[d]
<1> SUFFICES ASSUME NEW f \in Out(d)' PROVE f \in Pool(d) \ body'[d] OBVIOUS
<1>1. f \in Pool(d) /\ f \notin Entries' BY SameOrder DEF Out
<1>2. f \notin InBody' BY <1>1 DEF Entries
<1>3. d \in Sections BY TrackedFacts
<1> QED BY <1>1, <1>2, <1>3 DEF InBody

LEMMA BestNext ==
  ASSUME NEW e, NEW f \in body'[e], \A g \in body'[e] \ {f} : Ahead(f, g)' /\ ~Ahead(g, f)'
  PROVE  Best(body[e])' = f
<1>1. /\ Best(body[e])' \in body'[e]
      /\ \A g \in body'[e] \ {Best(body[e])'} : Ahead(Best(body[e]), g)'
  BY DEF Best
<1> QED BY <1>1

LEMMA FloorStep == ASSUME ContentInv, Floor PROVE ContentInv'
<1> USE DEF ContentInv
<1>1. /\ stage = "floor" /\ stage \in InPlay /\ body = Empty /\ Tracked # {}
      /\ body' = [s \in Sections |-> IF s \in Floored THEN {NextOf(s)} ELSE {}]
      /\ stage' = (IF Fits /\ Active # {} THEN "bonus" ELSE "allocated")
      /\ UNCHANGED <<setting, richness, claims, candidates, place, docket, profile,
                     top, answer, row>>
  BY DEF Floor, Floored, Led, Fits, limits, read, ranked, StageInv, InPlay
<1>2. /\ Active \subseteq Tracked /\ Tracked \subseteq Sections
      /\ IsFiniteSet(Active) /\ Cardinality(Active) \in Nat
      /\ Cardinality(top) \in Nat /\ Slots \in Nat /\ setting.cap \in Nat
      /\ Slots = setting.cap - Cardinality(top)
  BY <1>1, Pools, TrackedFacts, Limits DEF TypeOK
<1>3. /\ Floored \subseteq Active /\ IsFiniteSet(Floored) /\ Cardinality(Floored) \in Nat
      /\ Cardinality(Floored) <= Slots /\ (~Fits => Cardinality(Floored) = Slots)
  <2>1. CASE Fits BY <1>2, <2>1 DEF Floored, Fits
  <2>2. CASE ~Fits
    <3>1. Floored = Led /\ Led \subseteq Active /\ Cardinality(Led) = Slots
      BY <1>1, <2>2, LedFacts DEF Floored
    <3>2. IsFiniteSet(Led) BY <1>2, <3>1, FS_Subset
    <3> QED BY <1>2, <2>2, <3>1, <3>2
  <2> QED BY <2>1, <2>2
<1>4. \A d \in Tracked : body[d] = {} /\ d \in Sections
  BY <1>1, <1>2, NothingShown
<1>5. ASSUME NEW d \in Active
      PROVE  /\ NextOf(d) \in Pool(d) /\ \A g \in Pool(d) \ {NextOf(d)} : Ahead(NextOf(d), g)
             /\ \A g \in Pool(d) : score(g) <= score(NextOf(d)) /\ score(g) \in Nat
  <2>1. d \in Tracked /\ Pool(d) \ body[d] = Pool(d) /\ Pool(d) # {} BY <1>2, <1>4 DEF Active
  <2> QED BY <1>1, <2>1, NextFacts
<1>6. \A d \in Tracked : body'[d] = (IF d \in Floored THEN {NextOf(d)} ELSE {})
                         /\ body'[d] \subseteq Pool(d)
  BY <1>1, <1>2, <1>3, <1>5
<1>7. \A s \in Sections \ Tracked : body'[s] = {} BY <1>1, <1>2, <1>3
<1>8. /\ TypeOK' /\ CandidatesInv' /\ StageInv' /\ RowListsTheBrief'
      /\ NoneBetter(candidates \ top, top)'
      /\ Cardinality(Entries') = Cardinality(top) + Cardinality(InBody')
  <2>1. stage \in {"floor", "bonus"} /\ stage' \in {"bonus", "allocated"} BY <1>1
  <2>2. DOMAIN body' = Sections /\ body' = [s \in Sections |-> body'[s]] BY <1>1
  <2> QED BY <1>1, <1>6, <1>7, <2>1, <2>2, SlotsGiven
<1>9. Cardinality(InBody') = Cardinality(Floored)
  <2> DEFINE item == [d \in Floored |-> NextOf(d)]
  <2>1. \A f : f \in InBody' <=> \E d \in Floored : f = NextOf(d)
    BY <1>1, <1>2, <1>3 DEF InBody
  <2>2. item \in [Floored -> InBody'] /\ \A f \in InBody' : \E d \in Floored : item[d] = f
    BY <2>1
  <2>3. item \in Surjection(Floored, InBody') BY <2>2 DEF Surjection
  <2>4. \A d, e \in Floored : item[d] = item[e] => d = e BY <1>1, <1>3, <1>5, Pools
  <2>5. item \in Injection(Floored, InBody') BY <2>2, <2>4 DEF Injection, IsInjective
  <2> HIDE DEF item
  <2> QED BY <1>3, <2>3, <2>5, FS_Surjection
<1>10. /\ Tracked' = Tracked /\ Active' = Active /\ Slots' = Slots /\ Ceiling' = Ceiling
       /\ \A d : Pool(d)' = Pool(d)
       /\ \A f : score(f)' = score(f)
       /\ \A f, g : Ahead(f, g)' <=> Ahead(f, g)
  BY <1>1, SameOrder
<1>11. Ceiling \in Nat /\ (Floored # {} => Ceiling >= 1)
  <2>1. setting.ceiling \in Nat /\ setting.ceiling >= 1 BY Limits DEF TypeOK
  <2>2. Floored # {} => Cardinality(Floored) # 0 BY <1>3, FS_EmptySet
  <2> QED BY <1>2, <1>3, <2>1, <2>2 DEF Ceiling
<1>12. \A d \in Tracked : Cardinality(body'[d]) <= Ceiling
  <2> SUFFICES ASSUME NEW d \in Tracked PROVE Cardinality(body'[d]) <= Ceiling OBVIOUS
  <2>1. CASE d \in Floored
    <3>1. body'[d] = {NextOf(d)} BY <1>6, <2>1
    <3>2. Cardinality(body'[d]) = 1 BY <3>1, FS_Singleton
    <3> QED BY <1>11, <2>1, <3>2
  <2>2. CASE d \notin Floored
    <3>1. body'[d] = {} BY <1>6, <2>2
    <3>2. Cardinality(body'[d]) = 0 BY <3>1, FS_EmptySet
    <3> QED BY <1>11, <3>2
  <2> QED BY <2>1, <2>2
<1>13. CASE Fits /\ Active # {}
  <2>1. stage' = "bonus" /\ Floored = Active BY <1>1, <1>13 DEF Floored
  <2>2. ASSUME NEW d \in Tracked PROVE FirstOfPool(d)'
    <3>1. \A f \in body'[d], g \in Pool(d) \ body'[d] : Ahead(f, g)
      <4>1. CASE d \in Floored
        <5>1. body'[d] = {NextOf(d)} BY <1>6, <4>1
        <5> QED BY <1>3, <1>5, <4>1, <5>1
      <4>2. CASE d \notin Floored BY <1>6, <4>2
      <4> QED BY <4>1, <4>2
    <3> QED BY <1>6, <1>10, <3>1 DEF FirstOfPool
  <2>3. \A d \in Active : body'[d] # {} BY <1>2, <1>6, <2>1
  <2>4. \A e \in Tracked : BeyondFloor(e)' = {} BY <1>6 DEF BeyondFloor
  <2>5. Cardinality(InBody') <= Slots BY <1>3, <1>9
  <2>6. \A d \in Open' : \A e \in Tracked \ {d} : NoneBetter(Pool(d) \ body[d], BeyondFloor(e))'
    BY <2>4 DEF NoneBetter
  <2>7. BonusInv' BY <1>10, <1>12, <2>2, <2>3, <2>5, <2>6 DEF BonusInv
  <2> QED BY <1>8, <2>1, <2>7 DEF BestWithinLimits
<1>14. CASE ~(Fits /\ Active # {})
  <2>1. stage' = "allocated" BY <1>1, <1>14
  <2>2. Served' = Floored BY <1>2, <1>3, <1>6, <1>10 DEF Served
  <2>3. \A d \in Tracked : Out(d)' \subseteq Pool(d) \ body'[d] BY <1>1, OutNext
  <2>4. \A d \in Tracked : Out(d)' # {} => d \in Active /\ ~Fits
    BY <1>14, <2>3 DEF Active
  <2>5. Cardinality(Entries') <= setting.cap /\ (~Fits => Cardinality(Entries') = setting.cap)
    BY <1>2, <1>3, <1>8, <1>9
  <2>6. BestPerDocket'
    <3> SUFFICES ASSUME NEW d \in Floored
                 PROVE  /\ \A f \in body'[d] : docket'[f] = d
                        /\ NoneBetter(Out(d), body[d])'
                        /\ Cardinality(body'[d]) <= Ceiling'
      BY <2>2 DEF BestPerDocket
    <3>1. d \in Tracked /\ d \in Active /\ body'[d] = {NextOf(d)} BY <1>2, <1>3, <1>6
    <3>2. \A f \in body'[d] : docket'[f] = d BY <1>1, <1>6, <3>1 DEF Pool
    <3>3. NoneBetter(Out(d), body[d])' BY <1>5, <1>10, <2>3, <3>1 DEF NoneBetter
    <3> QED BY <1>10, <1>12, <3>1, <3>2, <3>3
  <2>7. AllServedOrBest'
    <3> SUFFICES ASSUME NEW d \in Tracked \ Floored, NEW e \in Floored, Out(d)' # {}
                 PROVE  /\ Cardinality(Served') = Slots' /\ Cardinality(body'[e]) = 1
                        /\ NoneBetter(Out(d), body[e])'
      BY <1>10, <2>2 DEF AllServedOrBest
    <3>1. d \in Active /\ ~Fits /\ e \in Active /\ e \in Tracked /\ body'[e] = {NextOf(e)}
      BY <1>2, <1>3, <1>6, <2>4
    <3>2. score(NextOf(d)) <= score(NextOf(e)) BY <1>1, <3>1, LedFacts DEF Floored
    <3>3. \A g \in Pool(d) : score(g) <= score(NextOf(e))
      <4>1. /\ \A g \in Pool(d) : score(g) <= score(NextOf(d)) /\ score(g) \in Nat
            /\ NextOf(d) \in Pool(d)
        BY <1>5, <3>1
      <4>2. score(NextOf(e)) \in Nat BY <1>5, <3>1
      <4> QED BY <3>2, <4>1, <4>2
    <3>4. NoneBetter(Out(d), body[e])' BY <1>10, <2>3, <3>1, <3>3 DEF NoneBetter
    <3>5. Cardinality(body'[e]) = 1 BY <3>1, FS_Singleton
    <3> QED BY <1>3, <1>10, <2>2, <3>1, <3>4, <3>5
  <2>8. NoBetterUse'
    <3> SUFFICES ASSUME NEW d \in Tracked, Out(d)' # {}
                 PROVE  /\ Cardinality(Entries') = setting'.cap
                        /\ \A e \in Floored \ {d} :
                             NoneBetter(Out(d), body[e] \ {Best(body[e])})'
      BY <1>10, <2>2 DEF NoBetterUse
    <3>1. Cardinality(Entries') = setting'.cap BY <1>1, <2>4, <2>5
    <3>2. ASSUME NEW e \in Floored PROVE body'[e] \ {Best(body[e])'} = {}
      <4>1. body'[e] = {NextOf(e)} BY <1>2, <1>3, <1>6
      <4>2. Best(body[e])' = NextOf(e) BY <4>1, BestNext
      <4> QED BY <4>1, <4>2
    <3> QED BY <3>1, <3>2 DEF NoneBetter
  <2>9. BestWithinLimits'
    BY <1>1, <1>8, <1>10, <2>5, <2>6, <2>7, <2>8 DEF BestWithinLimits
  <2> QED BY <1>8, <2>1, <2>9
<1> QED BY <1>13, <1>14

LEMMA BonusStep == ASSUME ContentInv, NEW d \in Tracked, Bonus(d) PROVE ContentInv'
<1> USE DEF ContentInv
<1> DEFINE n == NextOf(d)
<1>1. /\ stage = "bonus" /\ stage \in InPlay /\ stage' = "bonus" /\ BonusInv
      /\ d \in Open /\ \A e \in Open \ {d} : Precedes(d, e)
      /\ Cardinality(InBody) < Slots
      /\ body' = [body EXCEPT ![d] = @ \cup {n}]
      /\ UNCHANGED <<setting, richness, claims, candidates, place, docket, profile,
                     top, answer, row>>
  BY DEF Bonus, limits, read, ranked, InPlay
<1>2. /\ Tracked \subseteq Sections /\ Slots \in Nat /\ Tracked # {}
      /\ DOMAIN body = Sections
  BY <1>1, TrackedFacts, Pools DEF StageInv, TypeOK
<1>3. d \in Active /\ Cardinality(body[d]) < Ceiling /\ Pool(d) \ body[d] # {} BY <1>1 DEF Open
<1>4. /\ n \in Pool(d) \ body[d] /\ score(n) \in Nat
      /\ \A g \in (Pool(d) \ body[d]) \ {n} : Ahead(n, g)
  BY <1>1, <1>3, NextFacts
<1>5. /\ body'[d] = body[d] \cup {n} /\ \A s \in Sections \ {d} : body'[s] = body[s]
      /\ DOMAIN body' = Sections /\ body' = [s \in Sections |-> body'[s]]
  BY <1>1, <1>2 DEF TypeOK
<1> HIDE DEF n
<1>6. \A e \in Tracked : FirstOfPool(e) BY <1>1 DEF BonusInv
<1>7. \A e \in Tracked : body'[e] \subseteq Pool(e)
  BY <1>2, <1>4, <1>5, <1>6 DEF FirstOfPool
<1>8. \A s \in Sections \ Tracked : body[s] = {} /\ body'[s] = {}
  BY <1>2, <1>5 DEF TypeOK
<1>9. /\ TypeOK' /\ CandidatesInv' /\ StageInv' /\ RowListsTheBrief'
      /\ IsFiniteSet(InBody') /\ Cardinality(InBody') \in Nat
  <2>1. stage \in {"floor", "bonus"} /\ stage' \in {"bonus", "allocated"} BY <1>1
  <2> QED BY <1>1, <1>5, <1>7, <1>8, <2>1, SlotsGiven
<1>10. /\ Tracked' = Tracked /\ Active' = Active /\ Slots' = Slots /\ Ceiling' = Ceiling
       /\ \A e : Pool(e)' = Pool(e)
       /\ \A f : score(f)' = score(f)
       /\ \A f, g : Ahead(f, g)' <=> Ahead(f, g)
  BY <1>1, SameOrder
<1>11. \A e \in Tracked : body[e] \subseteq body'[e] BY <1>2, <1>5
<1>12. \A e \in Tracked : IsFiniteSet(body[e]) /\ Cardinality(body[e]) \in Nat
                          /\ IsFiniteSet(body'[e]) /\ Cardinality(body'[e]) \in Nat
                          /\ Cardinality(body[e]) <= Cardinality(body'[e])
  <2>1. \A e \in Tracked : body[e] \subseteq Rows /\ body'[e] \subseteq Rows
    BY <1>1, <1>2, <1>9 DEF TypeOK
  <2> QED BY <1>11, <2>1, Finite, FS_Subset
<1>13. Ceiling \in Nat BY <1>2, Limits DEF Ceiling, TypeOK
<1>14. ASSUME NEW e \in Tracked PROVE FirstOfPool(e)' /\ Cardinality(body'[e]) <= Ceiling'
  <2>1. CASE e = d
    <3>0. IsFiniteSet(body[d]) /\ n \notin body[d] BY <1>4, <1>12
    <3>1. Cardinality(body'[d]) = Cardinality(body[d]) + 1 BY <1>5, <3>0, FS_AddElement
    <3>2. Cardinality(body'[d]) <= Ceiling BY <1>3, <1>12, <1>13, <3>1
    <3>3. \A f \in body'[d], g \in Pool(d) \ body'[d] : Ahead(f, g)
      BY <1>4, <1>5, <1>6 DEF FirstOfPool
    <3> QED BY <1>7, <1>10, <2>1, <3>2, <3>3 DEF FirstOfPool
  <2>2. CASE e # d
    <3>1. body'[e] = body[e] /\ FirstOfPool(e) /\ Cardinality(body[e]) <= Ceiling
      BY <1>1, <1>2, <1>5, <2>2 DEF BonusInv
    <3>2. FirstOfPool(e)' BY <1>10, <3>1 DEF FirstOfPool
    <3> QED BY <1>10, <3>1, <3>2
  <2> QED BY <2>1, <2>2
<1>15. \A e \in Active' : body'[e] # {}
  <2>1. \A e \in Active : e \in Tracked /\ body[e] # {} BY <1>1 DEF BonusInv, Active
  <2> QED BY <1>10, <1>11, <2>1
<1>16. Cardinality(InBody') <= Slots'
  <2>1. InBody' = InBody \cup {n} BY <1>2, <1>5 DEF InBody
  <2>2. IsFiniteSet(InBody) /\ Cardinality(InBody) \in Nat
    <3>1. InBody \subseteq Rows BY EntriesAreIn DEF Entries
    <3> QED BY <3>1, Finite
  <2>3. Cardinality(InBody') <= Cardinality(InBody) + 1
    BY <2>1, <2>2, FS_AddElement
  <2> QED BY <1>1, <1>2, <1>9, <1>10, <2>2, <2>3
<1>17. Open' \subseteq Open
  <2> SUFFICES ASSUME NEW e \in Open' PROVE e \in Open OBVIOUS
  <2>1. e \in Active /\ e \in Tracked /\ Cardinality(body'[e]) < Ceiling
        /\ Pool(e) \ body'[e] # {}
    BY <1>10 DEF Open, Active
  <2>2. Cardinality(body[e]) < Ceiling BY <1>12, <1>13, <2>1
  <2>3. Pool(e) \ body[e] # {} BY <1>11, <2>1
  <2> QED BY <2>1, <2>2, <2>3 DEF Open
<1>18. ASSUME NEW e \in Tracked
       PROVE  BeyondFloor(e)' \subseteq BeyondFloor(e) \cup (IF e = d THEN {n} ELSE {})
  <2> SUFFICES ASSUME NEW f \in body'[e], NEW h \in body'[e] \ {f}, ~Ahead(f, h),
                      e = d => f # n
               PROVE  f \in BeyondFloor(e)
    BY <1>10 DEF BeyondFloor
  <2>1. CASE e # d BY <1>2, <1>5, <2>1 DEF BeyondFloor
  <2>2. CASE e = d
    <3>1. f \in body[d] BY <1>5, <2>2
    <3>2. Ahead(f, n) BY <1>4, <1>6, <3>1 DEF FirstOfPool
    <3>3. h \in body[d] BY <1>5, <2>2, <3>2
    <3> QED BY <2>2, <3>1, <3>3 DEF BeyondFloor
  <2> QED BY <2>1, <2>2
<1>19. ASSUME NEW b \in Open', NEW e \in Tracked \ {b}
       PROVE  NoneBetter(Pool(b) \ body[b], BeyondFloor(e))'
  <2>1. b \in Open /\ b \in Tracked BY <1>17 DEF Open, Active
  <2>2. NoneBetter(Pool(b) \ body[b], BeyondFloor(e)) BY <1>1, <2>1 DEF BonusInv
  <2>3. ASSUME NEW g \in Pool(b) \ body'[b], NEW f \in BeyondFloor(e)'
        PROVE  score(g) <= score(f)
    <3>1. g \in Pool(b) \ body[b] BY <1>11, <2>1
    <3>2. CASE f \in BeyondFloor(e) BY <2>2, <3>1, <3>2 DEF NoneBetter
    <3>3. CASE e = d /\ f = n
      <4>1. Precedes(d, b) BY <1>1, <2>1, <3>3
      <4>2. Pool(b) \ body[b] # {} BY <3>1
      <4>3. score(NextOf(b)) \in Nat /\ score(g) <= score(NextOf(b)) /\ score(g) \in Nat
        BY <1>1, <2>1, <3>1, <4>2, NextFacts
      <4>4. score(n) > score(NextOf(b)) \/ score(n) = score(NextOf(b))
        BY <4>1 DEF Precedes, n
      <4> QED BY <1>4, <3>3, <4>3, <4>4
    <3> QED BY <1>18, <3>2, <3>3
  <2> QED BY <1>10, <2>3 DEF NoneBetter
<1>20. BonusInv' BY <1>10, <1>14, <1>15, <1>16, <1>19 DEF BonusInv
<1> QED BY <1>1, <1>9, <1>20 DEF BestWithinLimits

LEMMA BonusDoneStep == ASSUME ContentInv, BonusDone PROVE ContentInv'
<1> USE DEF ContentInv
<1>1. /\ stage = "bonus" /\ stage \in InPlay /\ stage' = "allocated" /\ BonusInv
      /\ Cardinality(InBody) >= Slots \/ Open = {}
      /\ UNCHANGED <<setting, richness, claims, candidates, place, docket, profile,
                     top, body, answer, row>>
  BY DEF BonusDone, limits, read, ranked, InPlay
<1>2. /\ Tracked \subseteq Sections /\ Tracked # {} /\ DOMAIN body = Sections
      /\ Slots \in Nat /\ Cardinality(top) \in Nat /\ setting.cap \in Nat
      /\ Slots = setting.cap - Cardinality(top)
  BY <1>1, TrackedFacts, Pools, Limits DEF StageInv, TypeOK
<1>3. \A e \in Tracked : FirstOfPool(e) /\ body'[e] = body[e] /\ body[e] \subseteq Pool(e)
  BY <1>1 DEF BonusInv, FirstOfPool
<1>4. \A s \in Sections \ Tracked : body'[s] = {} BY <1>1, <1>2 DEF TypeOK
<1>5. /\ TypeOK' /\ CandidatesInv' /\ StageInv' /\ RowListsTheBrief'
      /\ NoneBetter(candidates \ top, top)'
      /\ Cardinality(Entries') = Cardinality(top) + Cardinality(InBody')
      /\ Cardinality(InBody') \in Nat
  <2>1. stage \in {"floor", "bonus"} /\ stage' \in {"bonus", "allocated"} BY <1>1
  <2>2. DOMAIN body' = Sections /\ body' = [s \in Sections |-> body'[s]]
    BY <1>1, <1>2 DEF TypeOK
  <2> QED BY <1>1, <1>3, <1>4, <2>1, <2>2, SlotsGiven
<1>6. /\ Tracked' = Tracked /\ Active' = Active /\ Slots' = Slots /\ Ceiling' = Ceiling
      /\ \A e : Pool(e)' = Pool(e)
      /\ \A f : score(f)' = score(f)
      /\ \A f, g : Ahead(f, g)' <=> Ahead(f, g)
  BY <1>1, SameOrder
<1>7. InBody' = InBody BY <1>1 DEF InBody
<1>8. Cardinality(InBody) <= Slots /\ Cardinality(InBody) \in Nat BY <1>1, <1>5, <1>7 DEF BonusInv
<1>9. Cardinality(Entries') <= setting.cap
      /\ (Open # {} => Cardinality(Entries') = setting.cap)
  BY <1>1, <1>2, <1>5, <1>7, <1>8
<1>10. Served' = Served BY <1>1, <1>6 DEF Served
<1>11. \A e \in Tracked : Out(e)' \subseteq Pool(e) \ body[e] BY <1>1, OutNext
<1>12. \A e \in Served : e \in Tracked /\ body[e] \subseteq candidates
  BY <1>2 DEF Served, TypeOK
<1>13. BestPerDocket'
  <2> SUFFICES ASSUME NEW e \in Served
               PROVE  /\ \A f \in body'[e] : docket'[f] = e
                      /\ NoneBetter(Out(e), body[e])'
                      /\ Cardinality(body'[e]) <= Ceiling'
    BY <1>10 DEF BestPerDocket
  <2>1. \A f \in body'[e] : docket'[f] = e BY <1>1, <1>3, <1>12 DEF Pool
  <2>2. \A f \in body[e], g \in Pool(e) \ body[e] : Ahead(f, g) /\ g \in candidates
    BY <1>1, <1>3, <1>12, Pools DEF FirstOfPool
  <2>3. \A f \in body[e], g \in Pool(e) \ body[e] : score(g) <= score(f)
    BY <1>1, <1>12, <2>2, AheadOrders
  <2>4. NoneBetter(Out(e), body[e])' BY <1>3, <1>6, <1>11, <1>12, <2>3 DEF NoneBetter
  <2>5. Cardinality(body'[e]) <= Ceiling' BY <1>1, <1>6, <1>12 DEF BonusInv
  <2> QED BY <2>1, <2>4, <2>5
<1>14. AllServedOrBest'
  <2>1. \A e \in Tracked \ Served : Out(e)' = {}
    BY <1>1, <1>11 DEF BonusInv, Active, Served
  <2> QED BY <1>6, <1>10, <2>1 DEF AllServedOrBest
<1>15. NoBetterUse'
  <2> SUFFICES ASSUME NEW b \in Tracked, Out(b)' # {}, Cardinality(body[b]) < Ceiling
               PROVE  /\ Cardinality(Entries') = setting.cap
                      /\ \A e \in Served \ {b} :
                           NoneBetter(Out(b), body[e] \ {Best(body[e])})'
    BY <1>1, <1>6, <1>10 DEF NoBetterUse
  <2>1. b \in Open BY <1>11 DEF Open, Active
  <2>2. ASSUME NEW e \in Served \ {b}
        PROVE  body'[e] \ {Best(body[e])'} \subseteq BeyondFloor(e)
    <3> SUFFICES ASSUME NEW f \in body[e], f \notin BeyondFloor(e)
                 PROVE  Best(body[e])' = f
      BY <1>1
    <3>1. \A g \in body[e] \ {f} : Ahead(f, g) BY DEF BeyondFloor
    <3>2. \A g \in body[e] \ {f} : ~Ahead(g, f) BY <1>1, <1>12, <3>1, AheadOrders
    <3>3. f \in body'[e] /\ \A g \in body'[e] \ {f} : Ahead(f, g)' /\ ~Ahead(g, f)'
      BY <1>1, <1>6, <3>1, <3>2
    <3> QED BY <3>3, BestNext
  <2>3. ASSUME NEW e \in Served \ {b}
        PROVE  NoneBetter(Out(b), body[e] \ {Best(body[e])})'
    <3>1. NoneBetter(Pool(b) \ body[b], BeyondFloor(e)) BY <1>1, <1>12, <2>1 DEF BonusInv
    <3> QED BY <1>6, <1>11, <2>2, <3>1 DEF NoneBetter
  <2> QED BY <1>9, <2>1, <2>3
<1>16. BestWithinLimits' BY <1>1, <1>2, <1>5, <1>6, <1>9, <1>13, <1>14, <1>15 DEF BestWithinLimits
<1> QED BY <1>1, <1>5, <1>16

-----------------------------------------------------------------------------
LEMMA ContentInit == Init => ContentInv
<1> SUFFICES ASSUME Init PROVE ContentInv OBVIOUS
<1>1. /\ stage = "select" /\ setting \in Settings /\ candidates = Rows /\ top = {}
      /\ body = Empty /\ row = {}
  BY DEF Init
<1>2. TypeOK
  <2>1. N \in Nat /\ Cardinality({}) <= setting.top
    BY <1>1, Limits, FS_EmptySet
  <2>2. body \in [Sections -> SUBSET candidates] /\ \A s \in Sections : body[s] = {}
    BY <1>1, NothingShown
  <2>3. place \in [Rows -> 0 .. 2 * N] /\ docket \in [Rows -> Tracked \cup {NoDocket}]
        /\ profile \in [Rows -> Profiles \cup {NoProfile}] /\ answer \in [Filings -> Answers]
    BY <2>1 DEF Init, Unranked, NoneAt, Unread, Silent, Answers
  <2> QED BY <1>1, <2>1, <2>2, <2>3 DEF Init, TypeOK, Stages
<1>3. CandidatesInv BY <1>1 DEF CandidatesInv, InPlay
<1>4. StageInv BY <1>1 DEF StageInv
<1>5. RowListsTheBrief BY <1>1, NothingShown DEF RowListsTheBrief, OnePlaceEach
<1> QED BY <1>1, <1>2, <1>3, <1>4, <1>5 DEF ContentInv, BestWithinLimits

LEMMA ContentStutter == ASSUME ContentInv, UNCHANGED vars PROVE ContentInv'
<1> USE DEF ContentInv
<1>1. UNCHANGED <<stage, setting, richness, claims, candidates, place, docket, profile,
                  top, body, answer, row>>
  BY DEF vars, limits, read, ranked
<1>2. TypeOK' BY <1>1 DEF TypeOK, Tracked
<1>3. CandidatesInv' BY <1>1 DEF CandidatesInv
<1>4. /\ Tracked' = Tracked /\ Active' = Active /\ Slots' = Slots /\ Ceiling' = Ceiling
      /\ \A e : Pool(e)' = Pool(e)
      /\ \A f : score(f)' = score(f)
      /\ \A f, g : Ahead(f, g)' <=> Ahead(f, g)
  BY <1>1, SameOrder
<1>5. InBody' = InBody BY <1>1 DEF InBody
<1>6. Entries' = Entries BY <1>1, <1>5 DEF Entries
<1>7. StageInv' BY <1>1, <1>4 DEF StageInv, NoneBetter
<1>8. RowListsTheBrief'
  <2>1. TopFilings' = TopFilings BY <1>1 DEF TopFilings
  <2> QED BY <1>1, <1>4, <1>5, <1>6, <2>1 DEF RowListsTheBrief, OnePlaceEach
<1>9. stage = "bonus" => BonusInv'
  <2> SUFFICES ASSUME stage = "bonus" PROVE BonusInv' OBVIOUS
  <2>1. BonusInv OBVIOUS
  <2>2. Open' = Open BY <1>1, <1>4 DEF Open
  <2>3. \A e : BeyondFloor(e)' = BeyondFloor(e) BY <1>1, <1>4 DEF BeyondFloor
  <2>4. \A e : FirstOfPool(e)' <=> FirstOfPool(e) BY <1>1, <1>4 DEF FirstOfPool
  <2> QED BY <1>1, <1>4, <1>5, <2>1, <2>2, <2>3, <2>4 DEF BonusInv, NoneBetter
<1>10. ASSUME stage = "allocated" PROVE BestWithinLimits'
  <2>1. Served' = Served BY <1>1, <1>4 DEF Served
  <2>2. \A e : Out(e)' = Out(e) BY <1>4, <1>6 DEF Out
  <2>3. NoneBetter(candidates \ top, top)' /\ Cardinality(Entries') <= setting'.cap
    BY <1>1, <1>4, <1>6, <1>10 DEF BestWithinLimits, NoneBetter
  <2>4. CASE Tracked = {}
    <3>1. BestOverall BY <1>10, <2>4 DEF BestWithinLimits
    <3>2. BestOverall' BY <1>1, <1>4, <1>6, <3>1 DEF BestOverall, NoneBetter
    <3> QED BY <1>4, <2>3, <2>4, <3>2 DEF BestWithinLimits
  <2>5. CASE Tracked # {}
    <3>1. BestPerDocket /\ AllServedOrBest /\ NoBetterUse BY <1>10, <2>5 DEF BestWithinLimits
    <3>2. BestPerDocket' BY <1>1, <1>4, <2>1, <2>2, <3>1 DEF BestPerDocket, NoneBetter
    <3>3. AllServedOrBest' BY <1>1, <1>4, <2>1, <2>2, <3>1 DEF AllServedOrBest, NoneBetter
    <3>4. ASSUME NEW e \in Served PROVE Best(body[e])' = Best(body[e])
      <4> DEFINE b == Best(body[e])
      <4>1. stage \in InPlay /\ body[e] \subseteq candidates /\ body[e] # {}
        BY <1>10, TrackedFacts DEF InPlay, Served, TypeOK
      <4>2. b \in body[e] /\ \A g \in body[e] \ {b} : Ahead(b, g) BY <4>1, BestIs
      <4> HIDE DEF b
      <4>3. \A g \in body[e] \ {b} : ~Ahead(g, b) BY <4>1, <4>2, AheadOrders
      <4>4. PICK f : f = b OBVIOUS
      <4>5. f \in body'[e] /\ \A g \in body'[e] \ {f} : Ahead(f, g)' /\ ~Ahead(g, f)'
        BY <1>1, <1>4, <4>2, <4>3, <4>4
      <4>6. Best(body[e])' = f BY <4>5, BestNext
      <4> QED BY <4>4, <4>6 DEF b
    <3>5. NoBetterUse'
      <4> SUFFICES ASSUME NEW d \in Tracked, Out(d) # {}, Cardinality(body[d]) < Ceiling
                   PROVE  /\ Cardinality(Entries') = setting'.cap
                          /\ \A e \in Served \ {d} :
                               NoneBetter(Out(d), body[e] \ {Best(body[e])})'
        BY <1>1, <1>4, <2>1, <2>2 DEF NoBetterUse
      <4>1. /\ Cardinality(Entries) = setting.cap
            /\ \A e \in Served \ {d} : NoneBetter(Out(d), body[e] \ {Best(body[e])})
        BY <3>1 DEF NoBetterUse
      <4> QED BY <1>1, <1>4, <1>6, <2>2, <3>4, <4>1 DEF NoneBetter
    <3> QED BY <1>4, <2>3, <2>5, <3>2, <3>3, <3>5 DEF BestWithinLimits
  <2> QED BY <2>4, <2>5
<1> QED BY <1>1, <1>2, <1>3, <1>7, <1>8, <1>9, <1>10 DEF BestWithinLimits

LEMMA ContentStep == ContentInv /\ [Next]_vars => ContentInv'
<1> SUFFICES ASSUME ContentInv, [Next]_vars PROVE ContentInv' OBVIOUS
<1> QED
  BY ContentStutter, SelectStep, ScoreStep, TopOfMindStep, FloorStep, BonusStep, BonusDoneStep, FlatStep,
     R2CheckStep, AskStep, ValidateStep, FallbackStep
  DEF Next

\* The inductive invariant.
THEOREM ContentInvariant == Spec => []ContentInv
BY ContentInit, ContentStep, PTL DEF Spec

\* TypeOK for any number of rows and any sets of limits.
THEOREM ContentTypeCorrect == Spec => []TypeOK
<1>1. ContentInv => TypeOK BY DEF ContentInv
<1> QED BY <1>1, ContentInvariant, PTL

\* Whatever the rows score and however many dockets share the slots, the
\* allocation lists the best that the cap, the ceiling and the floors allow.
THEOREM BestWithinLimitsHolds == Spec => []BestWithinLimits
<1>1. ContentInv => BestWithinLimits BY DEF ContentInv
<1> QED BY <1>1, ContentInvariant, PTL

\* Of any filings with any number of extractions, the brief that is sent is not
\* empty, shows no two rows of one submission key and none in two places, and
\* its filing_ids have an entry for each item of the mail.
THEOREM RowListsTheBriefHolds == Spec => []RowListsTheBrief
<1>1. ContentInv => RowListsTheBrief BY DEF ContentInv
<1> QED BY <1>1, ContentInvariant, PTL
=============================================================================

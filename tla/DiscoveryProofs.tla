-------------------------- MODULE DiscoveryProofs --------------------------
(***************************************************************************)
(* What holds of Discovery for any number of loops, filings, themes and    *)
(* days, any page size and any caps: the types, that what has expired does *)
(* not return, how many verdicts a row may get, and that an undisturbed    *)
(* sweep delivers.                                                         *)
(***************************************************************************)
EXTENDS Discovery, Sequences, FiniteSetTheorems, TLAPS

-----------------------------------------------------------------------------
\* The site lists its filings by date, and none is of a day to come.
SiteInOrder ==
  /\ \A f \in Published : filed[f] <= day
  /\ \A f, g \in Published : f < g => filed[f] <= filed[g]

\* A row is as old as its filing at most, and what was deleted is too old for
\* any sweep of today.
RowsAreDated ==
  /\ \A f \in stored  : filed[f] <= born[f] /\ born[f] <= day
  /\ \A f \in deleted : filed[f] <= day - Ttl
  /\ DeletedStaysDeleted

\* What a loop holds at each place.
LoopInv(l) ==
  /\ pc[l] = "fetch" => since[l] >= day - MaxLookback
  /\ pc[l] \in {"fetch", "upsert"} =>
       \A f \in items[l] : f \in Published /\ filed[f] >= day - MaxLookback
  /\ pc[l] \notin {"fetch", "upsert"} => items[l] = {}
  /\ pc[l] \notin {"classify", "save"} => todo[l] = {}
  /\ pc[l] = "save" => todo[l] # {}
  /\ todo[l] \subseteq stored \cup deleted
  /\ Cardinality(reply[l]) <= MaxThemes

\* A row with a verdict is marked or gone, so no loop lists it again, and the
\* loops that still have it in hand are all that can judge it once more.
Holders(f) == {l \in Loops : f \in todo[l]}
VerdictBudget ==
  \A f \in Filings :
    /\ saves[f] > 0 => f \in themed \cup deleted
    /\ saves[f] > 0 => saves[f] + Cardinality(Holders(f)) <= Cardinality(Loops)
    /\ Cardinality(matches[f]) <= MaxThemes * saves[f]

DiscoveryInv ==
  /\ TypeOK /\ SiteInOrder /\ RowsAreDated /\ VerdictBudget
  /\ \A l \in Loops : LoopInv(l)

-----------------------------------------------------------------------------
\* Where the filings are that a sweep without error or cap owes a verdict:
\* fetched, or on a page to come; stored, or deleted since; in hand.
Owed(l) ==
  /\ pc[l] = "fetch" => whole[l]
  /\ whole[l] =>
    /\ due[l] \subseteq Published \cap Electric
    /\ pc[l] = "fetch" => \A f \in due[l] :
         /\ filed[f] >= since[l]
         /\ f \in items[l] \/ Newest - f >= (page[l] - 1) * PageSize
    /\ pc[l] = "upsert" => due[l] \subseteq items[l]
    /\ pc[l] \in {"clean", "list"} => due[l] \subseteq stored \cup deleted
    /\ pc[l] \in {"classify", "save"} =>
         due[l] \subseteq themed \cup Expired \cup deleted \cup todo[l]

SweepInv == DiscoveryInv /\ \A l \in Loops : Owed(l)

-----------------------------------------------------------------------------
(* Sets of filings *)

LEMMA Constants ==
  /\ Last \in Nat \ {0} /\ LastDay \in Nat \ {0} /\ PageSize \in Nat \ {0}
  /\ MaxPages \in Nat \ {0} /\ MaxFilings \in Nat \ {0} /\ MaxThemes \in Nat \ {0}
  /\ MaxLookback \in Nat /\ Ttl \in Nat /\ Ttl > MaxLookback
  /\ Electric \subseteq Filings /\ IsFiniteSet(Loops) /\ IsFiniteSet(Themes)
BY DiscoveryAssumption DEF Filings

LEMMA Subsets ==
  ASSUME NEW S, IsFiniteSet(S), NEW T, T \subseteq S
  PROVE  /\ IsFiniteSet(T) /\ Cardinality(T) \in Nat /\ Cardinality(S) \in Nat
         /\ Cardinality(T) <= Cardinality(S)
         /\ T # S => Cardinality(T) < Cardinality(S)
BY FS_Subset, FS_CardinalityType

LEMMA Sums ==
  ASSUME NEW S, IsFiniteSet(S), NEW T, IsFiniteSet(T)
  PROVE  /\ IsFiniteSet(S \cup T) /\ Cardinality(S \cup T) \in Nat
         /\ Cardinality(S) \in Nat /\ Cardinality(T) \in Nat
         /\ Cardinality(S \cup T) <= Cardinality(S) + Cardinality(T)
         /\ S \cap T = {} => Cardinality(S \cup T) = Cardinality(S) + Cardinality(T)
<1>1. IsFiniteSet(S \cup T) /\ IsFiniteSet(S \cap T) BY FS_Union, FS_Intersection
<1>2. Cardinality(S \cup T) = Cardinality(S) + Cardinality(T) - Cardinality(S \cap T)
  BY FS_Union
<1>3. /\ Cardinality(S) \in Nat /\ Cardinality(T) \in Nat /\ Cardinality(S \cup T) \in Nat
      /\ Cardinality(S \cap T) \in Nat
  BY <1>1, FS_CardinalityType
<1>4. S \cap T = {} => Cardinality(S \cap T) = 0 BY FS_EmptySet
<1> QED BY <1>1, <1>2, <1>3, <1>4

LEMMA FilingSets ==
  ASSUME NEW S, S \subseteq Filings
  PROVE  IsFiniteSet(S) /\ Cardinality(S) \in Nat
<1>1. Last \in Int /\ 1 \in Int BY Constants
<1>2. IsFiniteSet(1 .. Last) BY <1>1, FS_Interval
<1> QED BY <1>2, Subsets DEF Filings

\* A set of numbers up to n has a greatest: the sets of numbers above are
\* well-founded under inclusion.  And a least.
LEMMA GreatestExists ==
  ASSUME NEW n \in Nat, NEW T, T \subseteq 0 .. n, T # {}
  PROVE  \E x \in T : \A y \in T : y <= x
<1> DEFINE Above(x) == x + 1 .. n
           Tails == {Above(x) : x \in T}
<1>1. Tails \subseteq FiniteSubsetsOf(0 .. n)
  <2>1. ASSUME NEW x \in T PROVE IsFiniteSet(Above(x)) /\ Above(x) \subseteq 0 .. n
    <3>1. x + 1 \in Int /\ n \in Int OBVIOUS
    <3> QED BY <3>1, FS_Interval
  <2> QED BY <2>1 DEF FiniteSubsetsOf
<1>2. IsWellFoundedOn(StrictSubsetOrdering(0 .. n), FiniteSubsetsOf(0 .. n))
  BY FS_StrictSubsetOrderingWellFounded
<1>3. \E A \in Tails : \A B \in Tails : <<B, A>> \notin StrictSubsetOrdering(0 .. n)
  <2>1. Tails # {} OBVIOUS
  <2> HIDE DEF Tails
  <2> QED BY <1>1, <1>2, <2>1, WFMin
<1>4. PICK x \in T : \A y \in T : <<Above(y), Above(x)>> \notin StrictSubsetOrdering(0 .. n)
  BY <1>3
<1>5. ASSUME NEW y \in T, y > x PROVE FALSE
  <2>1. /\ Above(y) \subseteq Above(x) /\ y \in Above(x) /\ y \notin Above(y)
        /\ Above(x) \subseteq 0 .. n
    BY <1>5
  <2> QED BY <2>1, <1>4 DEF StrictSubsetOrdering
<1> QED BY <1>4, <1>5

LEMMA Extremes ==
  ASSUME NEW S, S \subseteq Filings, S # {}
  PROVE  /\ \E x \in S : \A y \in S : y <= x
         /\ \E x \in S : \A y \in S : x <= y
<1>1. Last \in Nat /\ S \subseteq 0 .. Last BY Constants DEF Filings
<1>2. \E x \in S : \A y \in S : y <= x BY <1>1, GreatestExists
<1>3. \E x \in S : \A y \in S : x <= y
  <2> DEFINE R == {Last - y : y \in S}
  <2>1. R \subseteq 0 .. Last /\ R # {}
    <3>1. \A y \in S : Last - y \in 0 .. Last BY <1>1
    <3> QED BY <3>1
  <2>2. \E r \in R : \A q \in R : q <= r
    <3> HIDE DEF R
    <3> QED BY <1>1, <2>1, GreatestExists
  <2>3. PICK x \in S : \A y \in S : Last - y <= Last - x BY <2>2
  <2> QED BY <1>1, <2>3
<1> QED BY <1>2, <1>3

\* The n newest of a set are n at most, and all of it if it is no larger.
LEMMA TopFacts ==
  ASSUME NEW S, S \subseteq Filings, NEW n \in Nat
  PROVE  /\ Top(S, n) \subseteq S /\ IsFiniteSet(Top(S, n))
         /\ Cardinality(Top(S, n)) \in Nat /\ Cardinality(Top(S, n)) <= n
         /\ Cardinality(Top(S, n)) < n => Top(S, n) = S
         /\ Cardinality(S) <= n => Top(S, n) = S
<1> DEFINE T == Top(S, n)
           Newer(f) == {g \in S : g > f}
<1>1. T \subseteq S /\ \A f \in S : f \in T <=> Cardinality(Newer(f)) < n BY DEF Top
<1>2. \A f \in S : Newer(f) \subseteq S /\ f \notin Newer(f) /\ Cardinality(Newer(f)) \in Nat
  <2>1. ASSUME NEW f \in S PROVE Newer(f) \subseteq S /\ f \notin Newer(f) /\ f \in Int
    BY DEF Filings
  <2> QED BY <2>1, FilingSets
<1>3. IsFiniteSet(T) /\ Cardinality(T) \in Nat /\ IsFiniteSet(S) /\ Cardinality(S) \in Nat
  BY <1>1, FilingSets
<1>4. Cardinality(T) <= n
  <2>1. CASE T = {} BY <2>1, FS_EmptySet
  <2>2. CASE T # {}
    <3>1. PICK x \in T : \A y \in T : x <= y BY <1>1, <2>2, Extremes
    <3>2. T \ {x} \subseteq Newer(x)
      <4> SUFFICES ASSUME NEW y \in T, y # x PROVE y > x BY <1>1
      <4>1. x \in Filings /\ y \in Filings /\ x <= y BY <1>1, <3>1
      <4>2. x \in Int /\ y \in Int BY <4>1 DEF Filings
      <4> QED BY <4>1, <4>2
    <3>3. Cardinality(T \ {x}) <= Cardinality(Newer(x)) /\ Cardinality(Newer(x)) < n
      <4>1. IsFiniteSet(Newer(x)) BY FilingSets
      <4> QED BY <1>1, <3>2, <4>1, Subsets
    <3>4. Cardinality(T \ {x}) = Cardinality(T) - 1 BY <1>3, FS_RemoveElement
    <3>5. Cardinality(Newer(x)) \in Nat BY <1>1, <1>2
    <3> QED BY <1>3, <3>3, <3>4, <3>5
  <2> QED BY <2>1, <2>2
<1>5. ASSUME Cardinality(T) < n PROVE T = S
  <2> SUFFICES ASSUME S \ T # {} PROVE FALSE BY <1>1
  <2>1. PICK x \in S \ T : \A y \in S \ T : y <= x
    <3>1. S \ T \subseteq Filings OBVIOUS
    <3> QED BY <3>1, Extremes
  <2>2. Newer(x) \subseteq T
    <3> SUFFICES ASSUME NEW y \in S, y > x, y \notin T PROVE FALSE OBVIOUS
    <3>1. y <= x /\ x \in Int /\ y \in Int BY <2>1 DEF Filings
    <3> QED BY <3>1
  <2>3. Cardinality(Newer(x)) <= Cardinality(T) BY <1>3, <2>2, Subsets
  <2>4. ~(Cardinality(Newer(x)) < n) /\ Cardinality(Newer(x)) \in Nat BY <1>1, <1>2
  <2> QED BY <1>3, <1>5, <2>3, <2>4
<1>6. ASSUME Cardinality(S) <= n PROVE T = S
  <2>1. ASSUME NEW f \in S PROVE Cardinality(Newer(f)) < n
    <3>1. Newer(f) \subseteq S /\ Newer(f) # S BY <1>2
    <3>2. Cardinality(Newer(f)) < Cardinality(S) BY <1>3, <3>1, Subsets
    <3> QED BY <1>2, <1>3, <1>6, <3>2
  <2> QED BY <1>1, <2>1
<1> QED BY <1>1, <1>3, <1>4, <1>5, <1>6

\* The site's list is numbered, so its newest k are those less than k from its
\* end.
LEMMA SiteFacts ==
  ASSUME TypeOK
  PROVE  /\ Newest \in Nat /\ Newest <= Last /\ Published = 1 .. Newest
         /\ Published \subseteq Filings /\ filed \in [Published -> Days]
<1>1. PICK n \in 0 .. Last : filed \in [1 .. n -> Days] BY DEF TypeOK
<1>2. Published = 1 .. n /\ n \in Nat /\ n <= Last BY <1>1, Constants DEF Published
<1>3. 1 \in Int /\ n \in Int BY <1>2
<1>4. Cardinality(1 .. n) = n BY <1>2, <1>3, FS_Interval
<1>5. Newest = n BY <1>2, <1>4 DEF Newest
<1>6. 1 .. n \subseteq Filings BY <1>2, Constants DEF Filings
<1> QED BY <1>1, <1>2, <1>5, <1>6

LEMMA Dates ==
  ASSUME TypeOK
  PROVE  /\ day \in Nat /\ \A f \in Published : filed[f] \in Int
         /\ \A f \in Filings : born[f] \in Int
<1>1. Days \subseteq Nat /\ 0 .. LastDay \subseteq Int BY Constants DEF Days
<1>2. filed \in [Published -> Days] BY SiteFacts
<1>3. \A f \in Published : filed[f] \in Days BY <1>2
<1>4. \A f \in Filings : born[f] \in 0 .. LastDay BY DEF TypeOK
<1>5. day \in Nat BY <1>1 DEF TypeOK
<1>6. ASSUME NEW f \in Published PROVE filed[f] \in Int
  <2>1. filed[f] \in Days /\ Days \subseteq Int BY <1>1, <1>3
  <2> QED BY <2>1
<1> QED BY <1>1, <1>4, <1>5, <1>6

LEMMA NewestFirst ==
  ASSUME TypeOK, NEW k \in Nat
  PROVE  \A f \in Published : f \in Top(Published, k) <=> Newest - f < k
<1> DEFINE n == Newest
<1>0. n \in Nat /\ Published = 1 .. n BY SiteFacts
<1> SUFFICES ASSUME NEW f \in 1 .. n PROVE f \in Top(1 .. n, k) <=> n - f < k
  BY <1>0
<1>1. {g \in 1 .. n : g > f} = f + 1 .. n BY <1>0
<1>2. f + 1 \in Int /\ n \in Int BY <1>0
<1>3. Cardinality(f + 1 .. n) = n - f BY <1>0, <1>2, FS_Interval
<1> QED BY <1>1, <1>3 DEF Top

\* What a page brings: at most up to the cap, and all of it below the cap.
LEMMA GrownFacts ==
  ASSUME TypeOK, NEW l \in Loops
  PROVE  /\ Kept(l) \subseteq Published \cap Electric /\ \A f \in Kept(l) : filed[f] >= since[l]
         /\ items[l] \subseteq Grown(l) /\ Grown(l) \subseteq items[l] \cup Kept(l)
         /\ Cardinality(Grown(l)) <= MaxFilings
         /\ ~Capped(l) => Kept(l) \subseteq Grown(l)
<1> DEFINE I == items[l]
           K == Kept(l)
           room == MaxFilings - Cardinality(I)
           T == Top(K, room)
<1>1. Batch(l) \subseteq Published BY DEF Batch, Top
<1>2. K \subseteq Published \cap Electric /\ \A f \in K : filed[f] >= since[l] /\ f \notin I
  BY <1>1 DEF Kept
<1>3. K \subseteq Filings /\ I \subseteq Filings BY <1>2, SiteFacts DEF TypeOK
<1>4. /\ Cardinality(I) \in Nat /\ Cardinality(I) <= MaxFilings /\ room \in Nat /\ IsFiniteSet(I)
  BY <1>3, FilingSets, Constants DEF TypeOK
<1>5. /\ T \subseteq K /\ IsFiniteSet(T) /\ Cardinality(T) \in Nat /\ Cardinality(T) <= room
      /\ Cardinality(T) < room => T = K
  <2> HIDE DEF K, room
  <2> QED BY <1>3, <1>4, TopFacts
<1>6. Grown(l) = I \cup T BY DEF Grown
<1>7. Cardinality(I \cup T) = Cardinality(I) + Cardinality(T)
  <2>1. I \cap T = {} BY <1>2, <1>5
  <2> HIDE DEF I, K, room, T
  <2> QED BY <1>4, <1>5, <2>1, Sums
<1>8. Cardinality(Grown(l)) <= MaxFilings BY <1>4, <1>5, <1>6, <1>7, Constants
<1>9. ~Capped(l) => T = K BY <1>4, <1>5, <1>6, <1>7, Constants DEF Capped
<1> QED BY <1>2, <1>5, <1>6, <1>8, <1>9

LEMMA NextRowFacts ==
  ASSUME TypeOK, NEW l \in Loops, todo[l] # {}
  PROVE  NextRow(l) \in todo[l] /\ NextRow(l) \in Filings
<1>1. todo[l] \subseteq Filings BY DEF TypeOK
<1>2. \E x \in todo[l] : \A y \in todo[l] : y <= x BY <1>1, Extremes
<1> QED BY <1>1, <1>2 DEF NextRow

-----------------------------------------------------------------------------
(* The types *)

\* The steps that touch only what one loop has in memory, and the exits.
Fetching(l) ==
  (\E d \in 0 .. day - 1 : Begin(l, d)) \/ FetchPage(l) \/ PageFails(l)
Judging(l) == List(l) \/ Classify(l) \/ CallFails(l)
Leaving(l) == NoThemes(l) \/ Finish(l) \/ Die(l)
Step(l) == \/ Fetching(l) \/ Judging(l) \/ Leaving(l)
           \/ Upsert(l) \/ Clean(l) \/ Save(l)

LEMMA Steps == Next <=> Publish \/ Midnight \/ \E l \in Loops : Step(l)
BY DEF Next, Step, Fetching, Judging, Leaving

LEMMA InitTypes == Init => TypeOK
<1> SUFFICES ASSUME Init PROVE TypeOK OBVIOUS
<1>1. filed \in [1 .. 0 -> Days] /\ 0 \in 0 .. Last
  <2>1. <<>> \in Seq(Days) /\ Len(<<>>) = 0 OBVIOUS
  <2>2. <<>> \in [1 .. 0 -> Days] BY <2>1
  <2> QED BY <2>2, Constants DEF Init
<1>3. \A l \in Loops : Cardinality(items[l]) <= MaxFilings BY FS_EmptySet, Constants DEF Init
<1>4. \E n \in 0 .. Last : filed \in [1 .. n -> Days] BY <1>1
<1>5. /\ day \in Days /\ born \in [Filings -> 0 .. LastDay] /\ saves \in [Filings -> Nat]
      /\ page \in [Loops -> 1 .. MaxPages] /\ since \in [Loops -> Int]
  BY Constants DEF Init, Days
<1>6. stored \subseteq Published /\ themed \subseteq stored /\ deleted \subseteq Published
  BY DEF Init
<1>7. /\ matches \in [Filings -> SUBSET Themes]
      /\ pc \in [Loops -> {"idle", "fetch", "upsert", "clean", "list", "classify", "save"}]
      /\ items \in [Loops -> SUBSET Filings] /\ todo \in [Loops -> SUBSET Filings]
      /\ reply \in [Loops -> SUBSET Themes]
      /\ due \in [Loops -> SUBSET Filings] /\ whole \in [Loops -> BOOLEAN]
  BY DEF Init
<1> QED BY <1>3, <1>4, <1>5, <1>6, <1>7 DEF TypeOK

LEMMA FeedTypes ==
  ASSUME TypeOK, NEW l \in Loops, LoopInv(l), Upsert(l) \/ Clean(l) \/ Save(l)
  PROVE  /\ stored' \subseteq Published' /\ born' \in [Filings -> 0 .. LastDay]
         /\ themed' \subseteq stored' /\ deleted' \subseteq Published'
         /\ matches' \in [Filings -> SUBSET Themes] /\ saves' \in [Filings -> Nat]
         /\ day' = day /\ filed' = filed
<1>1. Published' = Published BY DEF Published, Upsert, Clean, Save
<1>2. CASE Upsert(l)
  <2>1. items[l] \subseteq Published BY <1>2 DEF LoopInv, Upsert
  <2> QED BY <1>1, <1>2, <2>1, Constants DEF Upsert, TypeOK, Days
<1>3. CASE Clean(l) BY <1>1, <1>3, Constants DEF Clean, Expired, TypeOK, Days
<1>4. CASE Save(l)
  <2> DEFINE f == NextRow(l)
  <2>1. f \in Filings BY <1>4, NextRowFacts DEF LoopInv, Save
  <2>2. UNCHANGED <<stored, born, deleted, day, filed>> BY <1>4 DEF Save
  <2>3. CASE f \in stored
    <3>1. /\ matches' = [matches EXCEPT ![f] = @ \cup reply[l]]
          /\ themed' = themed \cup {f} /\ saves' = [saves EXCEPT ![f] = @ + 1]
      BY <1>4, <2>3 DEF Save, Marks
    <3>2. reply[l] \subseteq Themes BY DEF TypeOK
    <3>3. matches[f] \cup reply[l] \subseteq Themes /\ saves[f] + 1 \in Nat
      BY <2>1, <3>2 DEF TypeOK
    <3> HIDE DEF f
    <3> QED BY <1>1, <2>1, <2>2, <2>3, <3>1, <3>3 DEF TypeOK
  <2>4. CASE f \notin stored
    <3>1. UNCHANGED <<matches, themed, saves>> BY <1>4, <2>4 DEF Save
    <3> QED BY <1>1, <2>2, <3>1 DEF TypeOK
  <2> QED BY <2>3, <2>4
<1> QED BY <1>2, <1>3, <1>4

LocalTypeOK ==
  /\ pc \in [Loops -> {"idle", "fetch", "upsert", "clean", "list", "classify", "save"}]
  /\ since \in [Loops -> Int] /\ page \in [Loops -> 1 .. MaxPages]
  /\ items \in [Loops -> SUBSET Filings] /\ todo \in [Loops -> SUBSET Filings]
  /\ \A l \in Loops : Cardinality(items[l]) <= MaxFilings
  /\ reply \in [Loops -> SUBSET Themes]
  /\ due \in [Loops -> SUBSET Filings] /\ whole \in [Loops -> BOOLEAN]

SameLocal(m) ==
  /\ pc'[m] = pc[m] /\ since'[m] = since[m] /\ page'[m] = page[m]
  /\ items'[m] = items[m] /\ todo'[m] = todo[m] /\ reply'[m] = reply[m]
  /\ due'[m] = due[m] /\ whole'[m] = whole[m]

LEMMA LocalTypes ==
  ASSUME TypeOK, NEW l \in Loops, Step(l)
  PROVE  LocalTypeOK' /\ \A m \in Loops \ {l} : SameLocal(m)
<1>0. /\ Cardinality({}) = 0 /\ Published \subseteq Filings /\ 1 \in 1 .. MaxPages
      /\ MaxFilings >= 0 /\ LocalTypeOK
  <2>1. LocalTypeOK BY DEF TypeOK, LocalTypeOK
  <2>2. 1 \in 1 .. MaxPages /\ MaxFilings >= 0 BY Constants
  <2> QED BY <2>1, <2>2, FS_EmptySet, SiteFacts
<1>1. CASE Leaving(l)
  <2>1. Leave(l) BY <1>1 DEF Leaving, NoThemes, Finish, Die
  <2>2. /\ \A m \in Loops : Cardinality(items'[m]) <= MaxFilings
        /\ items' \in [Loops -> SUBSET Filings] /\ \A m \in Loops \ {l} : items'[m] = items[m]
    BY <1>0, <2>1 DEF Leave, LocalTypeOK
  <2>3. /\ pc' \in [Loops -> {"idle", "fetch", "upsert", "clean", "list", "classify", "save"}]
        /\ since' \in [Loops -> Int] /\ page' \in [Loops -> 1 .. MaxPages]
        /\ todo' \in [Loops -> SUBSET Filings]
    BY <1>0, <2>1 DEF Leave, Go, LocalTypeOK
  <2>4. /\ reply' \in [Loops -> SUBSET Themes] /\ due' \in [Loops -> SUBSET Filings]
        /\ whole' \in [Loops -> BOOLEAN]
    BY <1>0, <2>1 DEF Leave, LocalTypeOK
  <2>5. \A m \in Loops \ {l} : SameLocal(m)
    BY <1>0, <2>1 DEF Leave, Go, LocalTypeOK, SameLocal
  <2> QED BY <2>2, <2>3, <2>4, <2>5 DEF LocalTypeOK
<1>2. ASSUME NEW d \in 0 .. day - 1, Begin(l, d)
      PROVE  LocalTypeOK' /\ \A m \in Loops \ {l} : SameLocal(m)
  <2>1. day \in Int /\ d \in Int BY Constants DEF TypeOK, Days
  <2>2. Floor(d) \in Int BY <2>1, Constants DEF Floor
  <2>3. {f \in Published \cap Electric : filed[f] >= Floor(d)} \subseteq Filings BY <1>0
  <2> QED BY <1>0, <1>2, <2>2, <2>3 DEF Begin, Go, LocalTypeOK, SameLocal
<1>3. CASE FetchPage(l)
  <2>1. Grown(l) \subseteq Filings /\ Cardinality(Grown(l)) <= MaxFilings
    BY <1>0, GrownFacts DEF LocalTypeOK
  <2>2. page' \in [Loops -> 1 .. MaxPages] /\ \A m \in Loops \ {l} : page'[m] = page[m]
    <3>1. page[l] \in 1 .. MaxPages BY <1>0 DEF LocalTypeOK
    <3>2. PagesLeft(l) => page[l] + 1 \in 1 .. MaxPages BY <3>1, Constants DEF PagesLeft
    <3> QED BY <1>0, <1>3, <3>2 DEF FetchPage, Fetched, LocalTypeOK
  <2>3. /\ pc' = pc \/ pc' = [pc EXCEPT ![l] = "upsert"]
        /\ since' = since \/ since' = [since EXCEPT ![l] = 1]
    BY <1>3 DEF FetchPage, Fetched, Go
  <2>4. /\ \A m \in Loops : Cardinality(items'[m]) <= MaxFilings
        /\ items' \in [Loops -> SUBSET Filings] /\ \A m \in Loops \ {l} : items'[m] = items[m]
    BY <1>0, <1>3, <2>1 DEF FetchPage, LocalTypeOK
  <2>5. whole' \in [Loops -> BOOLEAN] /\ \A m \in Loops \ {l} : whole'[m] = whole[m]
    BY <1>0, <1>3 DEF FetchPage, LocalTypeOK
  <2>6. UNCHANGED <<todo, reply, due>> BY <1>3 DEF FetchPage
  <2> QED BY <1>0, <2>2, <2>3, <2>4, <2>5, <2>6 DEF LocalTypeOK, SameLocal
<1>4. CASE PageFails(l)
  BY <1>0, <1>4 DEF PageFails, Fetched, Go, LocalTypeOK, SameLocal
<1>5. CASE List(l)
  <2>1. Top(Unthemed, MaxFilings) \subseteq Filings BY <1>0 DEF Top, Unthemed, TypeOK
  <2> QED BY <1>0, <1>5, <2>1 DEF List, Go, LocalTypeOK, SameLocal
<1>6. CASE Classify(l) BY <1>0, <1>6 DEF Classify, Verdicts, Go, LocalTypeOK, SameLocal
<1>7. CASE CallFails(l) BY <1>0, <1>7 DEF CallFails, LocalTypeOK, SameLocal
<1>8. CASE Upsert(l) \/ Clean(l) \/ Save(l)
  BY <1>0, <1>8 DEF Upsert, Clean, Save, Go, LocalTypeOK, SameLocal
<1> QED BY <1>1, <1>2, <1>3, <1>4, <1>5, <1>6, <1>7, <1>8 DEF Step, Fetching, Judging

LEMMA TypeStep ==
  ASSUME TypeOK, [Next]_vars, \A l \in Loops : LoopInv(l)
  PROVE  TypeOK'
<1>1. CASE Publish
  <2> DEFINE n == Newest
  <2>1. n + 1 \in 0 .. Last /\ filed' \in [1 .. n + 1 -> Days]
    <3>1. n \in Nat /\ n < Last /\ day \in Days /\ \A f \in Published : filed[f] \in Days
      BY <1>1, SiteFacts DEF Publish, TypeOK
    <3>2. filed' = [f \in 1 .. n + 1 |-> IF f \in Published THEN filed[f] ELSE day]
      BY <1>1 DEF Publish
    <3> HIDE DEF n
    <3> QED BY <3>1, <3>2, Constants
  <2>2. Published \subseteq Published'
    BY <1>1, SiteFacts DEF Publish, Published
  <2> QED BY <1>1, <2>1, <2>2 DEF Publish, feed, sweep, TypeOK
<1>2. CASE Midnight
  <2>1. day' \in Days /\ Published' = Published
    BY <1>2, Constants DEF Midnight, TypeOK, Days, Published
  <2> QED BY <1>2, <2>1 DEF Midnight, feed, sweep, TypeOK
<1>3. ASSUME NEW l \in Loops, Step(l) PROVE TypeOK'
  <2>1. CASE Upsert(l) \/ Clean(l) \/ Save(l)
    <3> QED BY <1>3, <2>1, FeedTypes, LocalTypes DEF TypeOK, LocalTypeOK
  <2>2. CASE Fetching(l) \/ Judging(l) \/ Leaving(l)
    <3>1. UNCHANGED <<day, filed, feed>> /\ Published' = Published
      BY <2>2 DEF Fetching, Begin, FetchPage, PageFails, Judging, List, Classify, CallFails, Leaving,
                  NoThemes, Finish, Die, Published
    <3> QED BY <1>3, <3>1, LocalTypes DEF TypeOK, LocalTypeOK, feed
  <2> QED BY <1>3, <2>1, <2>2 DEF Step
<1>4. CASE UNCHANGED vars
  <2>1. Published' = Published BY <1>4 DEF vars, Published
  <2> QED BY <1>4, <2>1 DEF vars, feed, sweep, TypeOK
<1> QED BY <1>1, <1>2, <1>3, <1>4, Steps

-----------------------------------------------------------------------------
(* The site and the rows *)

\* What a step does to the site: a filing on top, or none.
LEMMA SiteGrows ==
  ASSUME TypeOK, [Next]_vars
  PROVE  /\ day' \in {day, day + 1} /\ (day' # day => Midnight)
         /\ Newest' \in {Newest, Newest + 1} /\ Published \subseteq Published'
         /\ \A f \in Published : filed'[f] = filed[f]
         /\ \A f \in Published' \ Published : filed'[f] = day /\ f = Newest + 1 /\ day' = day
<1> DEFINE n == Newest
<1>0. n \in Nat /\ Published = 1 .. n BY SiteFacts
<1>1. CASE Publish
  <2>1. Published' = 1 .. n + 1 BY <1>1 DEF Publish, Published
  <2>2. 1 \in Int /\ n + 1 \in Int BY <1>0
  <2>3. Cardinality(1 .. n + 1) = n + 1 BY <1>0, <2>2, FS_Interval
  <2>4. Newest' = n + 1 BY <2>1, <2>3 DEF Newest
  <2>5. \A f \in 1 .. n + 1 : filed'[f] = IF f \in Published THEN filed[f] ELSE day
    BY <1>1 DEF Publish
  <2>6. day' = day BY <1>1 DEF Publish
  <2> HIDE DEF n
  <2>7. Published \subseteq Published' /\ \A f \in Published' \ Published : f = n + 1
    BY <1>0, <2>1
  <2>8. \A f \in Published' : f \in 1 .. n + 1 BY <2>1
  <2> QED BY <2>4, <2>5, <2>6, <2>7, <2>8 DEF n
<1>2. CASE filed' = filed /\ day' = day
  BY <1>2 DEF Newest, Published
<1>3. CASE Midnight
  BY <1>3 DEF Midnight, Newest, Published
<1>4. ASSUME NEW l \in Loops, Step(l) PROVE filed' = filed /\ day' = day
  BY <1>4 DEF Step, Fetching, Begin, FetchPage, PageFails, Judging, List, Classify, CallFails,
              Leaving, NoThemes, Finish, Die, Upsert, Clean, Save
<1> QED BY <1>1, <1>2, <1>3, <1>4, Steps DEF vars

LEMMA OrderStep ==
  ASSUME TypeOK, SiteInOrder, [Next]_vars
  PROVE  SiteInOrder'
<1> DEFINE n == Newest
<1>1. n \in Nat /\ Published = 1 .. n /\ day \in Int /\ \A f \in Published : filed[f] \in Int
  BY SiteFacts, Dates
<1>2. \A f \in Published' : f \in Published \/ (f = n + 1 /\ filed'[f] = day /\ day' = day)
  BY SiteGrows
<1>3. day' \in {day, day + 1} /\ \A f \in Published : filed'[f] = filed[f] BY SiteGrows
<1> HIDE DEF n
<1>4. \A f \in Published' : filed'[f] <= day' BY <1>1, <1>2, <1>3 DEF SiteInOrder
<1>5. ASSUME NEW f \in Published', NEW g \in Published', f < g PROVE filed'[f] <= filed'[g]
  <2>1. CASE f \in Published /\ g \in Published BY <1>3, <1>5, <2>1 DEF SiteInOrder
  <2>2. CASE f \in Published /\ g \notin Published
    BY <1>1, <1>2, <1>3, <2>2 DEF SiteInOrder
  <2>3. CASE f \notin Published BY <1>1, <1>2, <1>5, <2>3
  <2> QED BY <2>1, <2>2, <2>3
<1> QED BY <1>4, <1>5 DEF SiteInOrder

\* Where rows come from and go: an upsert or a cleanup, or they stay.
LEMMA RowSteps ==
  ASSUME TypeOK, [Next]_vars
  PROVE  \/ \E l \in Loops : Upsert(l) \/ Clean(l)
         \/ UNCHANGED <<stored, born, deleted>>
<1>1. ASSUME NEW l \in Loops, Step(l), ~Upsert(l), ~Clean(l)
      PROVE  UNCHANGED <<stored, born, deleted>>
  BY <1>1 DEF Step, Fetching, Begin, FetchPage, PageFails, Judging, List, Classify, CallFails,
              Leaving, NoThemes, Finish, Die, Save, feed
<1> QED BY <1>1, Steps DEF Publish, Midnight, vars, feed

LEMMA RowStep ==
  ASSUME TypeOK, SiteInOrder, RowsAreDated, \A l \in Loops : LoopInv(l), [Next]_vars
  PROVE  RowsAreDated'
<1>0. /\ day \in Int /\ day' \in {day, day + 1} /\ \A f \in Published : filed'[f] = filed[f]
      /\ stored \subseteq Published /\ deleted \subseteq Published /\ Published \subseteq Filings
      /\ \A f \in Published : filed[f] \in Int
      /\ \A f \in Filings : born[f] \in Int
      /\ MaxLookback \in Int /\ Ttl \in Int /\ Ttl > MaxLookback
  <2>1. day \in Int /\ day' \in {day, day + 1} BY SiteGrows, Dates
  <2>2. \A f \in Published : filed'[f] = filed[f] BY SiteGrows
  <2>3. stored \subseteq Published /\ deleted \subseteq Published BY DEF TypeOK
  <2>4. MaxLookback \in Int /\ Ttl \in Int /\ Ttl > MaxLookback BY Constants
  <2> QED BY <2>1, <2>2, <2>3, <2>4, SiteFacts, Dates
<1>1. CASE UNCHANGED <<stored, born, deleted>>
  BY <1>0, <1>1 DEF RowsAreDated, DeletedStaysDeleted
<1>2. ASSUME NEW l \in Loops, Upsert(l) PROVE RowsAreDated'
  <2>1. /\ stored' = stored \cup items[l] /\ deleted' = deleted /\ day' = day /\ filed' = filed
        /\ \A f \in Filings : born'[f] = IF f \in items[l] \ stored THEN day ELSE born[f]
    BY <1>2 DEF Upsert
  <2>2. \A f \in items[l] : f \in Published /\ filed[f] >= day - MaxLookback /\ filed[f] <= day
    BY <1>2 DEF Upsert, LoopInv, SiteInOrder
  <2>3. \A f \in stored' : filed'[f] <= born'[f] /\ born'[f] <= day'
    BY <1>0, <2>1, <2>2 DEF RowsAreDated
  <2>4. ASSUME NEW f \in items[l], f \in deleted PROVE FALSE
    BY <1>0, <2>2, <2>4 DEF RowsAreDated
  <2> QED BY <2>1, <2>3, <2>4 DEF RowsAreDated, DeletedStaysDeleted
<1>3. ASSUME NEW l \in Loops, Clean(l) PROVE RowsAreDated'
  <2>1. /\ stored' = stored \ Expired /\ deleted' = deleted \cup Expired /\ day' = day
        /\ filed' = filed
        /\ \A f \in Filings : born'[f] = IF f \in Expired THEN 0 ELSE born[f]
    BY <1>3 DEF Clean
  <2>2. \A f \in Expired : f \in stored /\ day - born[f] >= Ttl BY DEF Expired
  <2>3. \A f \in Expired : filed[f] <= day - Ttl BY <1>0, <2>2 DEF RowsAreDated
  <2>4. \A f \in stored' : filed'[f] <= born'[f] /\ born'[f] <= day'
    BY <1>0, <2>1 DEF RowsAreDated
  <2>5. \A f \in deleted' : filed'[f] <= day' - Ttl BY <2>1, <2>3 DEF RowsAreDated
  <2> QED BY <2>1, <2>4, <2>5 DEF RowsAreDated, DeletedStaysDeleted
<1> QED BY <1>1, <1>2, <1>3, RowSteps

-----------------------------------------------------------------------------
(* The loops *)

\* A row once known stays a row or becomes a deleted one, and keeps its mark.
LEMMA RowsKept ==
  ASSUME TypeOK, [Next]_vars
  PROVE  /\ stored \cup deleted \subseteq (stored \cup deleted)'
         /\ themed \cup deleted \subseteq (themed \cup deleted)'
<1>1. ASSUME NEW l \in Loops, Upsert(l) PROVE themed' = themed BY <1>1 DEF Upsert
<1>2. ASSUME NEW l \in Loops, Clean(l) PROVE themed' = themed \ Expired BY <1>2 DEF Clean
<1>3. ASSUME NEW l \in Loops, Step(l), ~Upsert(l), ~Clean(l) PROVE themed \subseteq themed'
  BY <1>3 DEF Step, Fetching, Begin, FetchPage, PageFails, Judging, List, Classify, CallFails,
              Leaving, NoThemes, Finish, Die, Save, Marks, feed
<1>4. (\E l \in Loops : Upsert(l) \/ Clean(l)) \/ themed \subseteq themed'
  BY <1>3, Steps DEF Publish, Midnight, vars, feed
<1>5. ASSUME NEW l \in Loops, Upsert(l) \/ Clean(l)
      PROVE  /\ stored \cup deleted \subseteq (stored \cup deleted)'
             /\ themed \cup deleted \subseteq (themed \cup deleted)'
  BY <1>1, <1>2, <1>5 DEF Upsert, Clean
<1>6. CASE \A l \in Loops : ~Upsert(l) /\ ~Clean(l)
  BY <1>4, <1>6, RowSteps
<1> QED BY <1>5, <1>6

\* A step that is not the loop's leaves its invariant.
LEMMA OthersKeep ==
  ASSUME TypeOK, [Next]_vars, NEW m \in Loops, SameLocal(m), LoopInv(m)
  PROVE  LoopInv(m)'
<1>1. day' = day \/ pc[m] \notin {"fetch", "upsert"} BY SiteGrows DEF Midnight
<1>2. stored \cup deleted \subseteq (stored \cup deleted)' BY RowsKept
<1>3. Published \subseteq Published' /\ \A f \in Published : filed'[f] = filed[f] BY SiteGrows
<1> QED BY <1>1, <1>2, <1>3 DEF SameLocal, LoopInv

LEMMA OwnStep ==
  ASSUME TypeOK, NEW l \in Loops, Step(l), LoopInv(l), SiteInOrder
  PROVE  LoopInv(l)'
<1>0. /\ day \in Int /\ Published \subseteq Filings /\ Cardinality({}) = 0
      /\ pc \in [Loops -> {"idle", "fetch", "upsert", "clean", "list", "classify", "save"}]
      /\ since \in [Loops -> Int] /\ items \in [Loops -> SUBSET Filings]
      /\ todo \in [Loops -> SUBSET Filings] /\ reply \in [Loops -> SUBSET Themes]
      /\ MaxLookback \in Nat /\ MaxThemes \in Nat /\ \A f \in Published : filed[f] \in Int
  <2>1. /\ since \in [Loops -> Int] /\ items \in [Loops -> SUBSET Filings]
        /\ todo \in [Loops -> SUBSET Filings] /\ reply \in [Loops -> SUBSET Themes]
        /\ pc \in [Loops -> {"idle", "fetch", "upsert", "clean", "list", "classify", "save"}]
    BY DEF TypeOK
  <2>2. MaxLookback \in Nat /\ MaxThemes \in Nat BY Constants
  <2>3. day \in Int /\ Published \subseteq Filings BY SiteFacts, Dates
  <2>4. \A f \in Published : filed[f] \in Int BY Dates
  <2> QED BY <2>1, <2>2, <2>3, <2>4, FS_EmptySet
<1>1. ASSUME NEW d \in 0 .. day - 1, Begin(l, d) PROVE LoopInv(l)'
  <2>1. d \in Int /\ Floor(d) >= day - MaxLookback BY <1>0 DEF Floor
  <2> QED BY <1>0, <1>1, <2>1 DEF Begin, Go, LoopInv, feed
<1>2. CASE FetchPage(l)
  <2>1. \A f \in Grown(l) : f \in Published /\ filed[f] >= day - MaxLookback
    <3>1. \A f \in Kept(l) : f \in Published /\ filed[f] >= since[l] BY GrownFacts
    <3>2. since[l] \in Int /\ since[l] >= day - MaxLookback
      BY <1>0, <1>2 DEF FetchPage, LoopInv
    <3>3. \A f \in items[l] : f \in Published /\ filed[f] >= day - MaxLookback
      BY <1>2 DEF FetchPage, LoopInv
    <3>4. Grown(l) \subseteq items[l] \cup Kept(l) BY GrownFacts
    <3> QED BY <1>0, <3>1, <3>2, <3>3, <3>4
  <2>2. /\ items'[l] = Grown(l) /\ todo' = todo /\ reply' = reply /\ day' = day /\ filed' = filed
        /\ stored' = stored /\ deleted' = deleted
    BY <1>0, <1>2 DEF FetchPage, feed
  <2>3. (pc'[l] = "fetch" /\ since'[l] = since[l]) \/ pc'[l] = "upsert"
    BY <1>0, <1>2 DEF FetchPage, Fetched, Go
  <2> QED BY <1>2, <2>1, <2>2, <2>3 DEF FetchPage, LoopInv, Published
<1>3. CASE PageFails(l)
  BY <1>0, <1>3 DEF PageFails, Fetched, Go, LoopInv, feed, Published
<1>4. CASE Upsert(l) BY <1>0, <1>4 DEF Upsert, Go, LoopInv, Published
<1>5. CASE Clean(l) BY <1>0, <1>5 DEF Clean, Go, LoopInv, Published
<1>6. CASE List(l)
  <2>1. Top(Unthemed, MaxFilings) \subseteq stored BY DEF Top, Unthemed
  <2> QED BY <1>0, <1>6, <2>1 DEF List, Go, LoopInv, feed, Published
<1>7. CASE Classify(l)
  BY <1>0, <1>7 DEF Classify, Verdicts, Go, LoopInv, feed, Published
<1>8. CASE CallFails(l) BY <1>0, <1>8 DEF CallFails, LoopInv, feed, Published
<1>9. CASE Save(l) BY <1>0, <1>9 DEF Save, Go, LoopInv, Published
<1>10. CASE Leaving(l)
  <2>1. Leave(l) /\ UNCHANGED <<day, filed, feed>> BY <1>10 DEF Leaving, NoThemes, Finish, Die
  <2> QED BY <1>0, <2>1 DEF Leave, Go, LoopInv, feed, Published
<1> QED BY <1>1, <1>2, <1>3, <1>4, <1>5, <1>6, <1>7, <1>8, <1>9, <1>10 DEF Step, Fetching, Judging

LEMMA LoopStep ==
  ASSUME TypeOK, SiteInOrder, \A l \in Loops : LoopInv(l), [Next]_vars
  PROVE  \A l \in Loops : LoopInv(l)'
<1>1. ASSUME NEW l \in Loops, Step(l) PROVE \A m \in Loops : LoopInv(m)'
  BY <1>1, OwnStep, OthersKeep, LocalTypes
<1>2. ASSUME UNCHANGED sweep PROVE \A m \in Loops : LoopInv(m)'
  <2>1. \A m \in Loops : SameLocal(m) BY <1>2 DEF sweep, SameLocal
  <2> QED BY <2>1, OthersKeep
<1> QED BY <1>1, <1>2, Steps DEF Publish, Midnight, vars

-----------------------------------------------------------------------------
(* The verdicts *)

\* The loops that hold a filing are a set of loops.
LEMMA HolderFacts ==
  ASSUME NEW S, S \subseteq Loops
  PROVE  /\ IsFiniteSet(S) /\ Cardinality(S) \in Nat /\ Cardinality(Loops) \in Nat
         /\ Cardinality(S) <= Cardinality(Loops)
         /\ \A l \in S : Cardinality(S \ {l}) = Cardinality(S) - 1
<1>1. IsFiniteSet(Loops) BY Constants
<1>2. IsFiniteSet(S) /\ Cardinality(S) \in Nat /\ Cardinality(Loops) \in Nat
      /\ Cardinality(S) <= Cardinality(Loops)
  BY <1>1, Subsets
<1>3. \A l \in S : Cardinality(S \ {l}) = Cardinality(S) - 1 BY <1>2, FS_RemoveElement
<1> QED BY <1>2, <1>3

LEMMA FewerHolders ==
  ASSUME NEW S, NEW T, T \subseteq S, S \subseteq Loops
  PROVE  Cardinality(T) <= Cardinality(S) /\ Cardinality(T) \in Nat /\ Cardinality(S) \in Nat
<1>1. IsFiniteSet(S) BY HolderFacts
<1> QED BY <1>1, Subsets

\* What leaves verdicts alone, and adds nobody to a judged filing's holders.
LEMMA BudgetKept ==
  ASSUME TypeOK, TypeOK', VerdictBudget, [Next]_vars, saves' = saves,
         \A f \in Filings : matches'[f] = matches[f] \/ matches'[f] = {},
         \A f \in Filings : saves[f] > 0 => Holders(f)' \subseteq Holders(f)
  PROVE  VerdictBudget'
<1> SUFFICES ASSUME NEW f \in Filings
             PROVE  /\ saves'[f] > 0 => f \in (themed \cup deleted)'
                    /\ saves'[f] > 0 => saves'[f] + Cardinality(Holders(f)') <= Cardinality(Loops)
                    /\ Cardinality(matches'[f]) <= MaxThemes * saves'[f]
  BY DEF VerdictBudget
<1>1. saves[f] \in Nat /\ saves'[f] = saves[f] BY DEF TypeOK
<1>2. saves[f] > 0 => f \in themed \cup deleted BY DEF VerdictBudget
<1>3. themed \cup deleted \subseteq (themed \cup deleted)' BY RowsKept
<1>4. Cardinality(matches'[f]) <= MaxThemes * saves'[f]
  <2>1. CASE matches'[f] = matches[f] BY <1>1, <2>1 DEF VerdictBudget
  <2>2. CASE matches'[f] = {}
    <3>1. Cardinality(matches'[f]) = 0 BY <2>2, FS_EmptySet
    <3>2. MaxThemes \in Nat /\ MaxThemes * saves[f] >= 0 BY <1>1, Constants
    <3> QED BY <1>1, <3>1, <3>2
  <2> QED BY <2>1, <2>2
<1>5. ASSUME saves[f] > 0
      PROVE  saves[f] + Cardinality(Holders(f)') <= Cardinality(Loops)
  <2> DEFINE H == Holders(f)
             I == Holders(f)'
  <2>1. H \subseteq Loops /\ I \subseteq H BY <1>5 DEF Holders
  <2>2. saves[f] + Cardinality(H) <= Cardinality(Loops) BY <1>5 DEF VerdictBudget
  <2> HIDE DEF H, I
  <2>3. /\ Cardinality(I) <= Cardinality(H) /\ Cardinality(I) \in Nat /\ Cardinality(H) \in Nat
        /\ Cardinality(Loops) \in Nat
    BY <2>1, FewerHolders, HolderFacts
  <2>4. saves[f] + Cardinality(I) <= Cardinality(Loops) BY <1>1, <2>2, <2>3
  <2> QED BY <2>4 DEF I
<1> QED BY <1>1, <1>2, <1>3, <1>4, <1>5

LEMMA ListBudget ==
  ASSUME DiscoveryInv, TypeOK', [Next]_vars, NEW l \in Loops, List(l)
  PROVE  VerdictBudget'
<1>1. saves' = saves /\ matches' = matches BY DEF List, feed
<1>2. ASSUME NEW f \in Filings, saves[f] > 0 PROVE Holders(f)' \subseteq Holders(f)
  <2>1. f \in themed \cup deleted BY <1>2 DEF DiscoveryInv, VerdictBudget
  <2>2. f \notin Unthemed
    BY <2>1 DEF Unthemed, DiscoveryInv, RowsAreDated, DeletedStaysDeleted
  <2>3. f \notin Top(Unthemed, MaxFilings) BY <2>2 DEF Top
  <2>4. \A m \in Loops : todo'[m] = IF m = l THEN Top(Unthemed, MaxFilings) ELSE todo[m]
    BY DEF List, DiscoveryInv, TypeOK
  <2> QED BY <2>3, <2>4 DEF Holders
<1> QED BY <1>1, <1>2, BudgetKept DEF DiscoveryInv

LEMMA SaveBudget ==
  ASSUME DiscoveryInv, TypeOK', [Next]_vars, NEW l \in Loops, Save(l)
  PROVE  VerdictBudget'
<1>0. TypeOK /\ LoopInv(l) /\ VerdictBudget BY DEF DiscoveryInv
<1>1. PICK f \in Filings : f = NextRow(l) /\ f \in todo[l]
  <2>1. todo[l] # {} BY <1>0 DEF Save, LoopInv
  <2> QED BY <1>0, <2>1, NextRowFacts
<1>2. \A m \in Loops : todo'[m] = IF m = l THEN todo[m] \ {f} ELSE todo[m]
  BY <1>0, <1>1 DEF Save, TypeOK
<1>3. \A g \in Filings : Holders(g)' = IF g = f THEN Holders(g) \ {l} ELSE Holders(g)
  BY <1>1, <1>2 DEF Holders
<1>4. CASE f \notin stored
  <2>1. saves' = saves /\ matches' = matches BY <1>1, <1>4 DEF Save
  <2> QED BY <1>0, <1>3, <2>1, BudgetKept
<1>5. CASE f \in stored
  <2>1. /\ saves' = [saves EXCEPT ![f] = @ + 1]
        /\ matches' = [matches EXCEPT ![f] = @ \cup reply[l]]
        /\ themed' = themed \cup {f} /\ deleted' = deleted
    BY <1>1, <1>5 DEF Save, Marks
  <2>2. /\ saves \in [Filings -> Nat] /\ matches \in [Filings -> SUBSET Themes]
        /\ reply[l] \subseteq Themes /\ MaxThemes \in Nat
        /\ Cardinality(reply[l]) <= MaxThemes
    BY <1>0, Constants DEF TypeOK, LoopInv
  <2>3. ASSUME NEW g \in Filings, g # f
        PROVE  /\ saves'[g] > 0 => g \in (themed \cup deleted)'
               /\ saves'[g] > 0 => saves'[g] + Cardinality(Holders(g)') <= Cardinality(Loops)
               /\ Cardinality(matches'[g]) <= MaxThemes * saves'[g]
    <3>1. saves'[g] = saves[g] /\ matches'[g] = matches[g] /\ Holders(g)' = Holders(g)
      BY <1>3, <2>1, <2>2, <2>3
    <3> QED BY <1>0, <2>1, <3>1 DEF VerdictBudget
  <2>4. saves'[f] = saves[f] + 1 /\ matches'[f] = matches[f] \cup reply[l] BY <1>1, <2>1, <2>2
  <2>5. saves'[f] + Cardinality(Holders(f)') <= Cardinality(Loops)
    <3> DEFINE H == Holders(f)
    <3>1. H \subseteq Loops /\ l \in H BY <1>1 DEF Holders
    <3>2. saves[f] > 0 => saves[f] + Cardinality(H) <= Cardinality(Loops)
      BY <1>0, <1>1 DEF VerdictBudget
    <3>3. Holders(f)' = H \ {l} BY <1>1, <1>3
    <3> HIDE DEF H
    <3>4. /\ Cardinality(H) \in Nat /\ Cardinality(Loops) \in Nat
          /\ Cardinality(H) <= Cardinality(Loops) /\ Cardinality(H \ {l}) = Cardinality(H) - 1
      BY <3>1, HolderFacts
    <3>5. saves[f] \in Nat BY <1>1, <2>2
    <3> QED BY <2>4, <3>2, <3>3, <3>4, <3>5
  <2>6. Cardinality(matches'[f]) <= MaxThemes * saves'[f]
    <3>1. matches[f] \subseteq Themes /\ IsFiniteSet(Themes) BY <1>1, <2>2, Constants
    <3>2. IsFiniteSet(matches[f]) /\ IsFiniteSet(reply[l]) BY <2>2, <3>1, Subsets
    <3>3. /\ Cardinality(matches'[f]) <= Cardinality(matches[f]) + Cardinality(reply[l])
          /\ Cardinality(matches[f]) \in Nat /\ Cardinality(reply[l]) \in Nat
          /\ Cardinality(matches'[f]) \in Nat
      BY <2>4, <3>2, Sums
    <3>4. Cardinality(matches[f]) <= MaxThemes * saves[f] BY <1>0, <1>1 DEF VerdictBudget
    <3>5. saves[f] \in Nat BY <1>1, <2>2
    <3>6. MaxThemes * (saves[f] + 1) = MaxThemes * saves[f] + MaxThemes
          /\ MaxThemes * saves[f] \in Nat
      BY <2>2, <3>5
    <3> QED BY <2>2, <2>4, <3>3, <3>4, <3>6
  <2>7. f \in (themed \cup deleted)' BY <2>1
  <2>8. ASSUME NEW g \in Filings
        PROVE  /\ saves'[g] > 0 => g \in (themed \cup deleted)'
               /\ saves'[g] > 0 => saves'[g] + Cardinality(Holders(g)') <= Cardinality(Loops)
               /\ Cardinality(matches'[g]) <= MaxThemes * saves'[g]
    <3>1. CASE g = f BY <2>5, <2>6, <2>7, <3>1
    <3> QED BY <2>3, <3>1
  <2> QED BY <2>8 DEF VerdictBudget
<1> QED BY <1>4, <1>5

LEMMA BudgetStep ==
  ASSUME DiscoveryInv, TypeOK', [Next]_vars
  PROVE  VerdictBudget'
<1>0. TypeOK /\ VerdictBudget BY DEF DiscoveryInv
<1>1. ASSUME saves' = saves, matches' = matches, todo' = todo PROVE VerdictBudget'
  <2>1. \A f \in Filings : Holders(f)' = Holders(f) BY <1>1 DEF Holders
  <2> QED BY <1>0, <1>1, <2>1, BudgetKept
<1>2. ASSUME NEW l \in Loops, Step(l) PROVE VerdictBudget'
  <2>1. CASE List(l) BY <2>1, ListBudget
  <2>2. CASE Save(l) BY <2>2, SaveBudget
  <2>3. CASE Clean(l)
    <3>1. saves' = saves /\ todo' = todo BY <2>3 DEF Clean
    <3>2. \A f \in Filings : matches'[f] = matches[f] \/ matches'[f] = {} BY <2>3 DEF Clean
    <3>3. \A f \in Filings : Holders(f)' = Holders(f) BY <3>1 DEF Holders
    <3> QED BY <1>0, <3>1, <3>2, <3>3, BudgetKept
  <2>4. CASE Fetching(l) \/ Classify(l) \/ Upsert(l)
    <3>1. saves' = saves /\ matches' = matches /\ todo' = todo
      BY <2>4 DEF Fetching, Begin, FetchPage, PageFails, Classify, Upsert, feed
    <3> QED BY <1>1, <3>1
  <2>5. CASE Leaving(l) \/ CallFails(l)
    <3>1. saves' = saves /\ matches' = matches
      BY <2>5 DEF Leaving, NoThemes, Finish, Die, CallFails, feed
    <3>2. \A m \in Loops : todo'[m] \subseteq todo[m]
      <4>1. todo \in [Loops -> SUBSET Filings] BY <1>0 DEF TypeOK
      <4>2. CASE Leaving(l)
        <5>1. todo' = [todo EXCEPT ![l] = {}]
          BY <4>2 DEF Leaving, NoThemes, Finish, Die, Leave
        <5> QED BY <4>1, <5>1
      <4>3. CASE CallFails(l)
        <5>1. todo' = [todo EXCEPT ![l] = @ \ {NextRow(l)}] BY <4>3 DEF CallFails
        <5> QED BY <4>1, <5>1
      <4> QED BY <2>5, <4>2, <4>3
    <3>3. \A f \in Filings : Holders(f)' \subseteq Holders(f) BY <3>2 DEF Holders
    <3> QED BY <1>0, <3>1, <3>3, BudgetKept
  <2> QED BY <1>2, <2>1, <2>2, <2>3, <2>4, <2>5 DEF Step, Judging
<1> QED BY <1>1, <1>2, Steps DEF Publish, Midnight, vars, feed, sweep

-----------------------------------------------------------------------------
(* The theorems on what any execution does *)

LEMMA DiscoveryInvInit == Init => DiscoveryInv
<1> SUFFICES ASSUME Init PROVE DiscoveryInv OBVIOUS
<1>1. TypeOK BY InitTypes
<1>2. Published = {}
  <2>1. Len(<<>>) = 0 /\ DOMAIN <<>> = 1 .. Len(<<>>) OBVIOUS
  <2>2. DOMAIN <<>> = {} BY <2>1
  <2> QED BY <2>2 DEF Init, Published
<1>3. SiteInOrder /\ RowsAreDated
  BY <1>2 DEF Init, SiteInOrder, RowsAreDated, DeletedStaysDeleted
<1>4. Cardinality({}) = 0 /\ MaxThemes \in Nat BY FS_EmptySet, Constants
<1>5. VerdictBudget
  <2>1. \A f \in Filings : saves[f] = 0 /\ Cardinality(matches[f]) = 0
    BY <1>4 DEF Init
  <2>2. MaxThemes * 0 = 0 BY <1>4
  <2> QED BY <2>1, <2>2 DEF VerdictBudget
<1>6. ASSUME NEW l \in Loops PROVE LoopInv(l)
  BY <1>4 DEF Init, LoopInv
<1> QED BY <1>1, <1>3, <1>5, <1>6 DEF DiscoveryInv

LEMMA DiscoveryInvStep ==
  ASSUME DiscoveryInv, [Next]_vars
  PROVE  DiscoveryInv'
<1>1. TypeOK' BY TypeStep DEF DiscoveryInv
<1>2. SiteInOrder' /\ RowsAreDated' BY OrderStep, RowStep DEF DiscoveryInv
<1>3. VerdictBudget' BY <1>1, BudgetStep
<1>4. \A l \in Loops : LoopInv(l)' BY LoopStep DEF DiscoveryInv
<1> QED BY <1>1, <1>2, <1>3, <1>4 DEF DiscoveryInv

LEMMA DiscoveryInvHolds == Spec => []DiscoveryInv
<1>1. DiscoveryInv /\ [Next]_vars => DiscoveryInv' BY DiscoveryInvStep
<1> QED BY <1>1, DiscoveryInvInit, PTL DEF Spec

\* Every variable keeps its type: rows are of filings that appeared, verdicts
\* are of rows, and a sweep's items stay within the cap
\* (crawl_ferc_discovery.py's max_filings).
THEOREM DiscoveryTypeCorrect == Spec => []TypeOK
<1>1. DiscoveryInv => TypeOK BY DEF DiscoveryInv
<1> QED BY <1>1, DiscoveryInvHolds, PTL

\* A filing whose row has expired is never stored and paid for again, whatever
\* date a job's payload begins a sweep at: the look-back is shorter than the
\* time to live, and a row is no older than its filing.
THEOREM DeletedStaysDeletedHolds == Spec => []DeletedStaysDeleted
<1>1. DiscoveryInv => DeletedStaysDeleted BY DEF DiscoveryInv, RowsAreDated
<1> QED BY <1>1, DiscoveryInvHolds, PTL

\* Sweeps that fail, run again and overlap give a row at most one verdict for
\* each loop, and at most MaxThemes matches for each verdict.
THEOREM OneVerdictPerLoopHolds == Spec => []OneVerdictPerLoop
<1>1. ASSUME DiscoveryInv, NEW f \in Filings
      PROVE  saves[f] <= Cardinality(Loops) /\ Cardinality(matches[f]) <= MaxThemes * saves[f]
  <2>1. saves[f] \in Nat BY <1>1 DEF DiscoveryInv, TypeOK
  <2>2. Holders(f) \subseteq Loops BY DEF Holders
  <2>3. Cardinality(Holders(f)) \in Nat /\ Cardinality(Loops) \in Nat BY <2>2, HolderFacts
  <2> QED BY <1>1, <2>1, <2>3 DEF DiscoveryInv, VerdictBudget
<1>2. DiscoveryInv => OneVerdictPerLoop BY <1>1 DEF OneVerdictPerLoop
<1> QED BY <1>2, DiscoveryInvHolds, PTL

-----------------------------------------------------------------------------
(* A sweep delivers *)

\* What needs no verdict any more never needs one again.
LEMMA SettledKept ==
  ASSUME TypeOK, [Next]_vars
  PROVE  themed \cup Expired \cup deleted \subseteq (themed \cup Expired \cup deleted)'
<1>0. day \in Int /\ Ttl \in Int /\ day' \in {day, day + 1} /\ \A f \in Filings : born[f] \in Int
  BY Dates, SiteGrows, Constants
<1>1. stored \subseteq Filings BY SiteFacts DEF TypeOK
<1>2. ASSUME NEW l \in Loops, Upsert(l) PROVE Expired \subseteq Expired'
  BY <1>1, <1>2 DEF Upsert, Expired
<1>3. ASSUME NEW l \in Loops, Clean(l) PROVE Expired \subseteq deleted'
  BY <1>3 DEF Clean
<1>4. ASSUME UNCHANGED <<stored, born>> PROVE Expired \subseteq Expired'
  BY <1>0, <1>1, <1>4 DEF Expired
<1> QED BY <1>2, <1>3, <1>4, RowSteps, RowsKept

LEMMA OthersOwe ==
  ASSUME TypeOK, [Next]_vars, NEW m \in Loops, SameLocal(m), Owed(m)
  PROVE  Owed(m)'
<1>1. stored \cup deleted \subseteq (stored \cup deleted)' BY RowsKept
<1>2. themed \cup Expired \cup deleted \subseteq (themed \cup Expired \cup deleted)'
  BY SettledKept
<1>3. Published \subseteq Published' /\ \A f \in Published : filed'[f] = filed[f] BY SiteGrows
<1>4. ASSUME whole[m], pc[m] = "fetch", NEW f \in due[m],
             Newest - f >= (page[m] - 1) * PageSize
      PROVE  Newest' - f >= (page[m] - 1) * PageSize
  <2>1. /\ Newest \in Nat /\ Newest' \in {Newest, Newest + 1} /\ f \in Int
        /\ (page[m] - 1) * PageSize \in Int
    <3>1. f \in Filings /\ page[m] \in 1 .. MaxPages BY DEF TypeOK
    <3>2. page[m] - 1 \in Int /\ PageSize \in Int BY <3>1, Constants
    <3> QED BY <3>1, <3>2, SiteFacts, SiteGrows DEF Filings
  <2> QED BY <1>4, <2>1
<1>5. ASSUME whole[m]
      PROVE  /\ due[m] \subseteq Published' \cap Electric
             /\ pc[m] = "fetch" => \A f \in due[m] :
                  /\ filed'[f] >= since[m]
                  /\ f \in items[m] \/ Newest' - f >= (page[m] - 1) * PageSize
  BY <1>3, <1>4, <1>5 DEF Owed
<1> QED BY <1>1, <1>2, <1>5 DEF Owed, SameLocal

\* The page at its number holds the filings whose distance from the newest is
\* of that page; it is full if a filing is further away.
LEMMA BatchFacts ==
  ASSUME TypeOK, NEW l \in Loops, NEW x, x = (page[l] - 1) * PageSize
  PROVE  /\ x \in Nat /\ page[l] * PageSize = x + PageSize
         /\ \A f \in Published : f \in Batch(l) <=> Newest - f >= x /\ Newest - f < x + PageSize
         /\ Batch(l) \subseteq Published
         /\ (\E f \in Published : Newest - f >= x + PageSize) => Cardinality(Batch(l)) = PageSize
<1> DEFINE n == Newest
           k == page[l]
<1>0. n \in Nat /\ Published = 1 .. n /\ k \in Nat /\ k >= 1 /\ PageSize \in Nat /\ PageSize >= 1
  <2>1. k \in 1 .. MaxPages /\ MaxPages \in Nat /\ PageSize \in Nat \ {0}
    BY Constants DEF TypeOK
  <2> HIDE DEF k, n
  <2>2. k \in Nat /\ k >= 1 /\ PageSize \in Nat /\ PageSize >= 1 BY <2>1
  <2> QED BY <2>2, SiteFacts DEF n
<1>1. x \in Nat /\ k * PageSize = x + PageSize
  <2> HIDE DEF n, k
  <2>1. k - 1 \in Nat /\ x = (k - 1) * PageSize BY <1>0 DEF k
  <2> QED BY <1>0, <2>1
<1>2. \A f \in Published : f \in Batch(l) <=> n - f >= x /\ n - f < x + PageSize
  <2>1. \A f \in Published : f \in Top(Published, x + PageSize) <=> n - f < x + PageSize
    BY <1>0, <1>1, NewestFirst
  <2>2. \A f \in Published : f \in Top(Published, x) <=> n - f < x BY <1>1, NewestFirst
  <2>3. Batch(l) = Top(Published, x + PageSize) \ Top(Published, x) BY <1>1 DEF Batch
  <2> HIDE DEF n
  <2> QED BY <1>0, <1>1, <2>1, <2>2, <2>3
<1>3. Batch(l) \subseteq Published BY DEF Batch, Top
<1>4. ASSUME NEW f \in Published, n - f >= x + PageSize
      PROVE  Cardinality(Batch(l)) = PageSize
  <2> DEFINE a == n - x - PageSize + 1
             b == n - x
  <2> HIDE DEF n
  <2>0. n \in Nat /\ x \in Nat /\ PageSize \in Nat /\ f \in 1 .. n BY <1>0, <1>1
  <2>1. f \in Nat /\ f >= 1 /\ n >= x + PageSize + 1 BY <2>0, <1>4
  <2>2. a \in Int /\ b \in Int /\ 1 <= a /\ a <= b + 1 /\ b <= n /\ b - a + 1 = PageSize
    BY <2>0, <2>1
  <2> HIDE DEF a, b
  <2>3. \A g \in a .. b : g \in 1 .. n BY <2>0, <2>2
  <2>4. ASSUME NEW g \in 1 .. n PROVE g \in a .. b <=> n - g >= x /\ n - g < x + PageSize
    BY <2>0 DEF a, b
  <2>5. \A g \in 1 .. n : g \in a .. b <=> g \in Batch(l) BY <1>0, <1>2, <2>4
  <2>6. Batch(l) = a .. b BY <1>0, <1>3, <2>3, <2>5
  <2> QED BY <2>2, <2>6, <1>0, FS_Interval
<1> QED BY <1>1, <1>2, <1>3, <1>4

LEMMA FetchOwes ==
  ASSUME TypeOK, SiteInOrder, NEW l \in Loops, FetchPage(l), Owed(l)
  PROVE  Owed(l)'
<1> DEFINE n == Newest
           x == (page[l] - 1) * PageSize
<1>0. n \in Nat /\ Published = 1 .. n /\ x \in Nat /\ page[l] * PageSize = x + PageSize
      /\ PageSize \in Nat
  BY SiteFacts, BatchFacts, Constants
<1>1. /\ pc[l] = "fetch" /\ whole[l] /\ items'[l] = Grown(l) /\ due'[l] = due[l]
      /\ due[l] \subseteq Published \cap Electric
      /\ Published' = Published /\ Newest' = n /\ filed' = filed
      /\ whole'[l] = (~Capped(l) /\ (LastPage(l) \/ PagesLeft(l)))
  BY DEF FetchPage, Owed, TypeOK, Published, Newest
<1>2. \A f \in due[l] : filed[f] >= since[l] /\ (f \in items[l] \/ n - f >= x)
  BY <1>1 DEF Owed
<1>3. ASSUME ~Capped(l), NEW f \in due[l], f \notin Grown(l) PROVE n - f >= x + PageSize
  <2>1. f \notin items[l] /\ n - f >= x /\ f \in Int /\ f \in Published /\ f \in Electric
    BY <1>0, <1>1, <1>2, <1>3, GrownFacts
  <2>2. f \notin Kept(l) BY <1>3, GrownFacts
  <2>3. f \notin Batch(l) BY <1>2, <2>1, <2>2 DEF Kept
  <2>4. ~(n - f < x + PageSize) BY <2>1, <2>3, BatchFacts
  <2> HIDE DEF n, x
  <2> QED BY <1>0, <2>1, <2>4
<1>4. ASSUME whole'[l], LastPage(l), NEW f \in due[l] PROVE f \in Grown(l)
  <2> SUFFICES ASSUME f \notin Grown(l) PROVE FALSE OBVIOUS
  <2>1. ~Capped(l) /\ n - f >= x + PageSize BY <1>1, <1>3, <1>4
  <2>2. f \in Published /\ filed[f] >= since[l] BY <1>1, <1>2
  <2>3. Cardinality(Batch(l)) = PageSize BY <2>1, <2>2, BatchFacts
  <2>4. PastSince(l) BY <1>0, <1>4, <2>1, <2>3 DEF LastPage
  <2>5. PICK g \in Batch(l) : filed[g] < since[l] BY <2>4 DEF PastSince
  <2>6. g \in Published /\ n - g < x + PageSize BY BatchFacts
  <2>7. f \in Int /\ g \in Int /\ filed[f] \in Int /\ filed[g] \in Int /\ since[l] \in Int
    <3>1. since[l] \in Int BY DEF TypeOK
    <3>2. \A h \in Published : h \in Int BY <1>0
    <3> QED BY <2>2, <2>6, <3>1, <3>2, Dates
  <2>8. f < g
    <3> HIDE DEF n, x
    <3> QED BY <1>0, <2>1, <2>6, <2>7
  <2>9. filed[f] <= filed[g] BY <2>2, <2>6, <2>8 DEF SiteInOrder
  <2> QED BY <2>2, <2>5, <2>7, <2>9
<1>5. CASE LastPage(l) \/ ~PagesLeft(l)
  <2>1. pc'[l] = "upsert" BY <1>5 DEF FetchPage, Fetched, Go, TypeOK
  <2>2. whole'[l] => LastPage(l) BY <1>1, <1>5
  <2>3. whole'[l] => due'[l] \subseteq items'[l] BY <1>1, <1>4, <2>2
  <2> QED BY <1>1, <2>1, <2>3 DEF Owed
<1>6. CASE ~LastPage(l) /\ PagesLeft(l)
  <2>1. /\ pc'[l] = "fetch" /\ since'[l] = since[l] /\ page'[l] = page[l] + 1
        /\ ~Capped(l) /\ whole'[l]
    BY <1>1, <1>6 DEF FetchPage, LastPage, TypeOK
  <2>2. page[l] \in Int BY Constants DEF TypeOK
  <2>3. (page'[l] - 1) * PageSize = x + PageSize
    <3>1. page'[l] - 1 = page[l] BY <2>1, <2>2
    <3> QED BY <1>0, <3>1
  <2>4. \A f \in due'[l] : f \in items'[l] \/ Newest' - f >= (page'[l] - 1) * PageSize
    <3> HIDE DEF n, x
    <3> QED BY <1>1, <1>3, <2>1, <2>3
  <2> QED BY <1>1, <1>2, <2>1, <2>4 DEF Owed
<1> QED BY <1>5, <1>6

LEMMA OwnOwes ==
  ASSUME DiscoveryInv, NEW l \in Loops, Step(l), Owed(l), [Next]_vars
  PROVE  Owed(l)'
<1>0. TypeOK /\ LoopInv(l) /\ RowsAreDated /\ SiteInOrder BY DEF DiscoveryInv
<1>1. /\ pc \in [Loops -> {"idle", "fetch", "upsert", "clean", "list", "classify", "save"}]
      /\ whole \in [Loops -> BOOLEAN] /\ since \in [Loops -> Int]
      /\ page \in [Loops -> 1 .. MaxPages] /\ due \in [Loops -> SUBSET Filings]
      /\ items \in [Loops -> SUBSET Filings] /\ todo \in [Loops -> SUBSET Filings]
  BY <1>0 DEF TypeOK
<1>2. /\ stored \cup deleted \subseteq (stored \cup deleted)'
      /\ themed \cup Expired \cup deleted \subseteq (themed \cup Expired \cup deleted)'
      /\ Published \subseteq Published'
  BY <1>0, RowsKept, SettledKept, SiteGrows
<1>3. ASSUME NEW d \in 0 .. day - 1, Begin(l, d) PROVE Owed(l)'
  <2> DEFINE D == {f \in Published \cap Electric : filed[f] >= Floor(d)}
  <2>1. /\ pc'[l] = "fetch" /\ whole'[l] /\ since'[l] = Floor(d) /\ page'[l] = 1 /\ due'[l] = D
        /\ filed' = filed
    BY <1>1, <1>3 DEF Begin, Go
  <2>2. Published' = Published /\ Newest' = Newest BY <2>1 DEF Published, Newest
  <2>3. \A f \in Published : Newest - f >= 0
    <3>1. Newest \in Nat /\ Published = 1 .. Newest BY <1>0, SiteFacts
    <3> DEFINE n == Newest
    <3> HIDE DEF n
    <3>2. \A f \in 1 .. n : n - f >= 0 BY <3>1 DEF n
    <3> QED BY <3>1, <3>2 DEF n
  <2>4. (1 - 1) * PageSize = 0 BY Constants
  <2>5. \A f \in D : f \in Published /\ f \in Electric /\ filed[f] >= Floor(d) OBVIOUS
  <2> HIDE DEF D
  <2> QED BY <2>1, <2>2, <2>3, <2>4, <2>5 DEF Owed
<1>4. CASE FetchPage(l) BY <1>0, <1>4, FetchOwes
<1>5. CASE PageFails(l)
  <2>1. ~whole'[l] /\ pc'[l] = "upsert" BY <1>1, <1>5 DEF PageFails, Fetched, Go
  <2> QED BY <2>1 DEF Owed
<1>6. CASE Upsert(l)
  <2>1. /\ pc[l] = "upsert" /\ pc'[l] = "clean" /\ whole' = whole /\ due' = due
        /\ stored' = stored \cup items[l]
    BY <1>1, <1>6 DEF Upsert, Go
  <2> QED BY <1>2, <2>1 DEF Owed
<1>7. CASE Clean(l)
  <2>1. pc[l] = "clean" /\ pc'[l] = "list" /\ whole' = whole /\ due' = due
    BY <1>1, <1>7 DEF Clean, Go
  <2> QED BY <1>2, <2>1 DEF Owed
<1>8. CASE List(l)
  <2>1. /\ pc[l] = "list" /\ pc'[l] = "classify" /\ due' = due
        /\ todo'[l] = Top(Unthemed, MaxFilings)
        /\ whole'[l] => whole[l] /\ Cardinality(Unthemed) <= MaxFilings
    BY <1>1, <1>8 DEF List, Go
  <2>2. Unthemed \subseteq Filings /\ MaxFilings \in Nat
    BY <1>0, SiteFacts, Constants DEF Unthemed, TypeOK
  <2>3. whole'[l] => todo'[l] = Unthemed BY <2>1, <2>2, TopFacts
  <2>4. stored \cup deleted \subseteq themed \cup Expired \cup deleted \cup Unthemed
    BY DEF Unthemed
  <2> QED BY <1>2, <2>1, <2>3, <2>4 DEF Owed
<1>9. CASE Classify(l)
  <2>1. /\ pc[l] = "classify" /\ pc'[l] = "save" /\ due' = due /\ todo' = todo /\ whole' = whole
    BY <1>1, <1>9 DEF Classify, Go
  <2> QED BY <1>2, <2>1 DEF Owed
<1>10. CASE CallFails(l)
  <2>1. ~whole'[l] /\ pc'[l] = "classify" BY <1>1, <1>10 DEF CallFails
  <2> QED BY <2>1 DEF Owed
<1>11. CASE Save(l)
  <2>1. /\ pc[l] = "save" /\ pc'[l] = "classify" /\ due' = due /\ whole' = whole
        /\ todo'[l] = todo[l] \ {NextRow(l)} /\ deleted' = deleted
    BY <1>1, <1>11 DEF Save, Go
  <2>2. NextRow(l) \in stored \/ NextRow(l) \in deleted
    BY <1>0, <2>1, NextRowFacts DEF LoopInv
  <2>3. NextRow(l) \in stored => NextRow(l) \in themed' BY <1>11 DEF Save, Marks
  <2>4. NextRow(l) \in themed' \cup deleted' BY <2>1, <2>2, <2>3
  <2>5. todo[l] \subseteq todo'[l] \cup themed' \cup deleted' BY <2>1, <2>4
  <2> QED BY <1>2, <2>1, <2>5 DEF Owed
<1>12. CASE Leaving(l)
  <2>1. ~whole'[l] /\ pc'[l] = "idle"
    BY <1>1, <1>12 DEF Leaving, NoThemes, Finish, Die, Leave, Go
  <2> QED BY <2>1 DEF Owed
<1> QED BY <1>3, <1>4, <1>5, <1>6, <1>7, <1>8, <1>9, <1>10, <1>11, <1>12
    DEF Step, Fetching, Judging

LEMMA SweepStep ==
  ASSUME SweepInv, [Next]_vars
  PROVE  SweepInv'
<1>0. DiscoveryInv /\ TypeOK /\ \A l \in Loops : Owed(l) BY DEF SweepInv, DiscoveryInv
<1>1. ASSUME NEW l \in Loops, Step(l) PROVE \A m \in Loops : Owed(m)'
  BY <1>0, <1>1, OwnOwes, OthersOwe, LocalTypes
<1>2. ASSUME UNCHANGED sweep PROVE \A m \in Loops : Owed(m)'
  <2>1. \A m \in Loops : SameLocal(m) BY <1>2 DEF sweep, SameLocal
  <2> QED BY <1>0, <2>1, OthersOwe
<1>3. \A m \in Loops : Owed(m)' BY <1>1, <1>2, Steps DEF Publish, Midnight, vars
<1> QED BY <1>0, <1>3, DiscoveryInvStep DEF SweepInv

\* A sweep that meets no error and no cap leaves none of the filings that were
\* at the site when it began without a verdict, however many filings appear
\* and push the pages down while it reads them: a filing it has not fetched
\* is always further from the top than the pages it has read.
THEOREM SweepDeliversHolds == Spec => []SweepDelivers
<1>1. Init => SweepInv
  <2>1. Init => \A l \in Loops : Owed(l) BY DEF Init, Owed
  <2> QED BY <2>1, DiscoveryInvInit DEF SweepInv
<1>2. SweepInv /\ [Next]_vars => SweepInv' BY SweepStep
<1>3. SweepInv => SweepDelivers BY DEF SweepInv, Owed, SweepDelivers
<1> QED BY <1>1, <1>2, <1>3, PTL DEF Spec
=============================================================================

--------------------------- MODULE IngestionProofs --------------------------
(***************************************************************************)
(* What holds of Ingestion for every set of filings, dockets and worker    *)
(* processes, under crashes, exceptions and overlapping handlers.          *)
(***************************************************************************)
EXTENDS Ingestion, FiniteSetTheorems, TLAPS

-----------------------------------------------------------------------------
\* What a crawl holds in memory: the steps it has taken for the filing in hand
\* have left their rows.
InHand(p) ==
  /\ touched[p] \subseteq known
  /\ todo[p] \subseteq Versions
  /\ pc[p] \notin {"idle", "next"} => cur[p] \in Versions
  /\ pc[p] \in {"register", "upsert"} /\ Listing(p).body => Filing(p) \in objects
  /\ pc[p] \in {"upsert", "link"} => Created(p) \subseteq known
  /\ pc[p] \in {"link", "enqueue"} => Filing(p) \in Stored

\* What a handler has done for its filing.
InWork(l) ==
  /\ at[l] # "idle" => job[l] \in Stored
  /\ keyed[l] => at[l] # "idle" /\ key[job[l]]
  /\ at[l] = "setKey" => job[l] \in objects
  /\ at[l] \in {"llm", "insert"} => key[job[l]]

Rows == /\ KeyMeansObject /\ CitableExtraction
        /\ \A f \in Filings : pending[f] > 0 \/ key[f] => f \in Stored

IngestionInv == /\ TypeOK /\ Rows
                /\ \A p \in Procs : InHand(p)
                /\ \A l \in Loops : InWork(l)

\* Nothing takes back a row, a key or a document.
Grows == /\ known \subseteq known' /\ objects \subseteq objects'
         /\ Stored \subseteq Stored' /\ \A f \in Filings : key[f] => key'[f]

-----------------------------------------------------------------------------
LEMMA SeqFacts ==
  ASSUME NEW S, NEW s \in Seq(S)
  PROVE  /\ Len(s) \in Nat /\ DOMAIN s = 1 .. Len(s)
         /\ \A i \in DOMAIN s : s[i] \in S
         /\ ToSet(s) \subseteq S
         /\ s # <<>> => s[1] \in ToSet(s)
<1>1. /\ Len(s) \in Nat /\ DOMAIN s = 1 .. Len(s) /\ s = <<>> <=> Len(s) = 0
      /\ \A i \in DOMAIN s : s[i] \in S
  OBVIOUS
<1>2. s # <<>> => 1 \in DOMAIN s BY <1>1
<1> QED BY <1>1, <1>2 DEF ToSet

LEMMA VersionFacts ==
  ASSUME NEW v \in Versions
  PROVE  /\ v[1] \in Filings /\ v[2] \in DOMAIN Listings[v[1]] /\ v = <<v[1], v[2]>>
         /\ v[2] \in Nat \ {0} /\ v[2] <= Len(Listings[v[1]])
         /\ Listings[v[1]][v[2]].body \in BOOLEAN
         /\ Listings[v[1]][v[2]].refs \in Seq(Dockets)
         /\ ToSet(Listings[v[1]][v[2]].refs) \subseteq Dockets
         /\ Primary(Listings[v[1]][v[2]]) \in ToSet(Listings[v[1]][v[2]].refs) \cup {None}
<1>1. PICK f \in Filings : v \in {f} \X DOMAIN Listings[f] BY DEF Versions
<1>2. v[1] = f /\ v[2] \in DOMAIN Listings[f] /\ v = <<v[1], v[2]>> BY <1>1
<1>3. /\ Len(Listings[f]) \in Nat /\ DOMAIN Listings[f] = 1 .. Len(Listings[f])
      /\ Listings[f][v[2]] \in Forms
  BY <1>2, IngestionAssumption, SeqFacts
<1> DEFINE r == Listings[f][v[2]].refs
<1>4. r \in Seq(Dockets) /\ Listings[f][v[2]].body \in BOOLEAN BY <1>3 DEF Forms
<1>5. ToSet(r) \subseteq Dockets /\ (r # <<>> => r[1] \in ToSet(r)) BY <1>4, SeqFacts
<1> QED BY <1>2, <1>3, <1>4, <1>5 DEF Primary

LEMMA InitIngestion == Init => IngestionInv
<1> SUFFICES ASSUME Init PROVE IngestionInv OBVIOUS
<1>1. \A f \in Filings : Len(Listings[f]) \in Nat BY IngestionAssumption, SeqFacts
<1>2. LastDay \in Nat \ {0} /\ MaxJobs \in Nat BY IngestionAssumption
<1>3. Stored = {} BY DEF Init, Stored
<1>4. TypeOK
  <2>1. /\ day \in Days /\ tracked \subseteq Dockets
        /\ known \subseteq Dockets /\ stamped \subseteq known
        /\ links \subseteq Stored \X known /\ objects \subseteq Filings
    BY <1>2 DEF Init, Days
  <2>0. /\ crawled \in BOOLEAN /\ key \in [Filings -> BOOLEAN]
        /\ docketOf \in [Filings -> known \cup {None}]
    BY DEF Init
  <2>2. /\ site \in [Filings -> Nat] /\ \A f \in Filings : site[f] <= Len(Listings[f])
        /\ row \in [Filings -> Nat] /\ \A f \in Filings : row[f] <= Len(Listings[f])
        /\ pending \in [Filings -> Nat] /\ offers \in [Filings -> 0 .. MaxJobs]
        /\ sweeps \in [Filings -> 0 .. MaxJobs] /\ refreshed \subseteq Filings
    BY <1>1, <1>2 DEF Init
  <2>3. /\ extraction \in [Filings -> {"none", "irrelevant", "full", "raw"}]
        /\ pc \in [Procs -> {"idle", "next", "upload", "register", "upsert", "link", "enqueue"}]
        /\ todo \in [Procs -> SUBSET Versions]
        /\ cur \in [Procs -> Versions \cup {<<None, 0>>}]
        /\ follows \in [Procs -> SUBSET Dockets] /\ touched \in [Procs -> SUBSET Dockets]
    BY DEF Init
  <2>4. /\ at \in [Loops -> {"idle", "read", "skip", "dismiss", "upload", "setKey", "llm", "insert"}]
        /\ job \in [Loops -> Filings \cup {None}] /\ keyed \in [Loops -> BOOLEAN]
    BY DEF Init
  <2> QED BY <2>0, <2>1, <2>2, <2>3, <2>4 DEF TypeOK
<1>5. Rows BY DEF Init, Rows,  KeyMeansObject, CitableExtraction
<1>6. \A p \in Procs : InHand(p) BY DEF Init, InHand
<1>7. \A l \in Loops : InWork(l) BY DEF Init, InWork
<1> QED BY <1>4, <1>5, <1>6, <1>7 DEF IngestionInv

-----------------------------------------------------------------------------
\* A step that leaves a crawl's memory alone keeps what holds of it; so for
\* handlers.
LEMMA CrawlFrame ==
  ASSUME NEW p \in Procs, InHand(p), Grows,
         pc'[p] = pc[p], todo'[p] = todo[p], cur'[p] = cur[p], touched'[p] = touched[p]
  PROVE  InHand(p)'
BY DEF InHand, Grows, Created, Listing, Filing

LEMMA HandlerFrame ==
  ASSUME NEW l \in Loops, InWork(l), Grows, TypeOK,
         at'[l] = at[l], job'[l] = job[l], keyed'[l] = keyed[l]
  PROVE  InWork(l)'
<1>1. at[l] # "idle" => job[l] \in Filings BY DEF InWork, Stored
<1> QED BY <1>1 DEF InWork, Grows
-----------------------------------------------------------------------------
\* What follows once a step has been shown to keep the types and the rows and
\* to take nothing back: the memories it does not touch are as before.
LEMMA WorldStep ==
  ASSUME IngestionInv, Grows, TypeOK', Rows', UNCHANGED crawler, UNCHANGED handler
  PROVE  IngestionInv'
<1>1. \A p \in Procs : InHand(p)' BY CrawlFrame DEF IngestionInv, crawler
<1>2. \A l \in Loops : InWork(l)' BY HandlerFrame DEF IngestionInv, handler
<1> QED BY <1>1, <1>2 DEF IngestionInv

LEMMA CrawlStep ==
  ASSUME IngestionInv, Grows, TypeOK', Rows', UNCHANGED handler, NEW p \in Procs, InHand(p)',
         \A q \in Procs \ {p} : /\ pc'[q] = pc[q] /\ todo'[q] = todo[q] /\ cur'[q] = cur[q]
                                /\ touched'[q] = touched[q]
  PROVE  IngestionInv'
<1>1. \A q \in Procs : InHand(q)' BY CrawlFrame DEF IngestionInv
<1>2. \A l \in Loops : InWork(l)' BY HandlerFrame DEF IngestionInv, handler
<1> QED BY <1>1, <1>2 DEF IngestionInv

LEMMA HandlerStep ==
  ASSUME IngestionInv, Grows, TypeOK', Rows', UNCHANGED crawler, NEW l \in Loops, InWork(l)',
         \A m \in Loops \ {l} : at'[m] = at[m] /\ job'[m] = job[m] /\ keyed'[m] = keyed[m]
  PROVE  IngestionInv'
<1>1. \A p \in Procs : InHand(p)' BY CrawlFrame DEF IngestionInv, crawler
<1>2. \A m \in Loops : InWork(m)' BY HandlerFrame DEF IngestionInv
<1> QED BY <1>1, <1>2 DEF IngestionInv

-----------------------------------------------------------------------------
(* The world and the sweep *)

LEMMA WorldKeeps ==
  ASSUME IngestionInv,
         NextDay \/ (\E f \in Filings : List(f)) \/ (\E d \in Dockets : Track(d))
  PROVE  IngestionInv'
<1>1. UNCHANGED <<rows, docs, objects, extraction, queue, crawler, handler>>
  BY DEF NextDay, List, Track
<1>2. /\ day' \in Days /\ crawled' \in BOOLEAN /\ tracked' \subseteq Dockets
      /\ site' \in [Filings -> Nat] /\ \A f \in Filings : site'[f] <= Len(Listings[f])
  <2>0. \A f \in Filings : Len(Listings[f]) \in Nat BY IngestionAssumption, SeqFacts
  <2>4. LastDay \in Nat \ {0} BY IngestionAssumption
  <2>1. CASE NextDay
    <3>1. day \in Days /\ day < LastDay /\ day' = day + 1 /\ crawled' = FALSE
          /\ site' = site /\ tracked' = tracked
      BY <2>1 DEF NextDay, IngestionInv, TypeOK
    <3>2. day' \in Days BY <3>1, <2>4 DEF Days
    <3> QED BY <3>1, <3>2 DEF IngestionInv, TypeOK
  <2>2. CASE \E f \in Filings : List(f) BY <2>0, <2>2 DEF List, IngestionInv, TypeOK
  <2>3. CASE \E d \in Dockets : Track(d) BY <2>3 DEF Track, IngestionInv, TypeOK
  <2> QED BY <2>1, <2>2, <2>3
<1>3. Stored' = Stored BY <1>1 DEF rows, Stored
<1>4. TypeOK'
  BY <1>1, <1>2, <1>3 DEF IngestionInv, TypeOK, rows, docs, queue, crawler, handler
<1>5. Rows' BY <1>1, <1>3 DEF IngestionInv, Rows, KeyMeansObject, CitableExtraction, rows, queue
<1>6. Grows BY <1>1, <1>3 DEF Grows, rows, docs
<1> QED BY <1>1, <1>4, <1>5, <1>6, WorldStep

LEMMA SweepKeeps == ASSUME IngestionInv, Sweep PROVE IngestionInv'
<1>1. UNCHANGED <<world, rows, docs, objects, extraction, offers, refreshed, crawler, handler>>
  BY DEF Sweep
<1>2. PICK S \in SUBSET Unread :
        /\ \A f \in S : sweeps[f] < MaxJobs
        /\ pending' = [f \in Filings |-> IF f \in S THEN pending[f] + 1 ELSE pending[f]]
        /\ sweeps'  = [f \in Filings |-> IF f \in S THEN sweeps[f] + 1 ELSE sweeps[f]]
  BY DEF Sweep
<1>3. Stored' = Stored /\ S \subseteq Stored BY <1>1 DEF rows, Stored, Unread
<1>4. pending' \in [Filings -> Nat] /\ sweeps' \in [Filings -> 0 .. MaxJobs]
  <2>1. MaxJobs \in Nat BY IngestionAssumption
  <2> QED BY <1>2, <2>1 DEF IngestionInv, TypeOK
<1>5. TypeOK'
  BY <1>1, <1>3, <1>4 DEF IngestionInv, TypeOK, world, rows, docs, crawler, handler
<1>6. Rows'
  BY <1>1, <1>2, <1>3 DEF IngestionInv, Rows, KeyMeansObject, CitableExtraction, rows
<1>7. Grows BY <1>1, <1>3 DEF Grows, rows, docs
<1> QED BY <1>1, <1>5, <1>6, <1>7, WorldStep

-----------------------------------------------------------------------------
(* run_adapter *)

LEMMA BeginKeeps ==
  ASSUME IngestionInv, NEW p \in Procs, ScheduledCrawl(p) \/ ManualCrawl(p)
  PROVE  IngestionInv'
<1>1. PICK found \in SUBSET Versions : Begin(p, found)
  <2>1. \A since : Listed(since) \subseteq Versions
    <3>1. \A f \in Filings : site[f] > 0 => site[f] \in DOMAIN Listings[f]
      BY IngestionAssumption, SeqFacts DEF IngestionInv, TypeOK
    <3> QED BY <3>1 DEF Listed, Versions
  <2> QED BY <2>1 DEF ScheduledCrawl, ManualCrawl
<1>2. /\ pc[p] = "idle" /\ pc' = [pc EXCEPT ![p] = "next"]
      /\ todo' = [todo EXCEPT ![p] = found] /\ follows' = [follows EXCEPT ![p] = tracked]
      /\ UNCHANGED <<world, rows, docs, objects, extraction, queue, cur, touched, handler>>
  BY <1>1 DEF Begin
<1>3. Stored' = Stored BY <1>2 DEF rows, Stored
<1>4. TypeOK'
  BY <1>2, <1>3 DEF IngestionInv, TypeOK, world, rows, docs, queue, handler
<1>5. Rows'
  BY <1>2, <1>3 DEF IngestionInv, Rows, KeyMeansObject, CitableExtraction, rows, queue
<1>6. Grows BY <1>2, <1>3 DEF Grows, rows, docs
<1>7. InHand(p)' BY <1>2 DEF IngestionInv, TypeOK, InHand, docs
<1> QED BY <1>2, <1>4, <1>5, <1>6, <1>7, CrawlStep DEF IngestionInv, TypeOK

LEMMA TakeKeeps ==
  ASSUME IngestionInv, NEW p \in Procs, Take(p) PROVE IngestionInv'
<1>1. PICK v \in todo[p] :
        /\ cur'  = [cur EXCEPT ![p] = v]
        /\ todo' = [todo EXCEPT ![p] = @ \ {v}]
        /\ Move(p, IF Listings[v[1]][v[2]].body THEN "upload" ELSE "register")
  BY DEF Take
<1>2. /\ v \in Versions
      /\ pc' = [pc EXCEPT ![p] = IF Listings[v[1]][v[2]].body THEN "upload" ELSE "register"]
      /\ UNCHANGED <<world, rows, docs, objects, extraction, queue, follows, touched, handler>>
  BY <1>1 DEF Take, Move, IngestionInv, InHand
<1>3. Stored' = Stored BY <1>2 DEF rows, Stored
<1>4. TypeOK'
  BY <1>1, <1>2, <1>3 DEF IngestionInv, TypeOK, world, rows, docs, queue, handler
<1>5. Rows'
  BY <1>2, <1>3 DEF IngestionInv, Rows, KeyMeansObject, CitableExtraction, rows, queue
<1>6. Grows BY <1>2, <1>3 DEF Grows, rows, docs
<1>7. InHand(p)'
  BY <1>1, <1>2 DEF IngestionInv, TypeOK, InHand, Listing, Filing, docs
<1> QED BY <1>1, <1>2, <1>4, <1>5, <1>6, <1>7, CrawlStep DEF IngestionInv, TypeOK

LEMMA UploadKeeps ==
  ASSUME IngestionInv, NEW p \in Procs, Upload(p) PROVE IngestionInv'
<1>1. /\ pc[p] = "upload" /\ objects' = objects \cup {Filing(p)}
      /\ pc' = [pc EXCEPT ![p] = "register"]
      /\ UNCHANGED <<world, rows, docs, extraction, queue, todo, cur, follows, touched, handler>>
  BY DEF Upload, Move
<1>2. Filing(p) \in Filings BY <1>1, VersionFacts DEF IngestionInv, InHand, Filing
<1>3. Stored' = Stored BY <1>1 DEF rows, Stored
<1>4. TypeOK'
  BY <1>1, <1>2, <1>3 DEF IngestionInv, TypeOK, world, rows, docs, queue, handler
<1>5. Rows'
  BY <1>1, <1>3 DEF IngestionInv, Rows, KeyMeansObject, CitableExtraction, rows, queue
<1>6. Grows BY <1>1, <1>3 DEF Grows, rows, docs
<1>7. InHand(p)'
  BY <1>1 DEF IngestionInv, TypeOK, InHand, Listing, Filing, docs
<1> QED BY <1>1, <1>4, <1>5, <1>6, <1>7, CrawlStep DEF IngestionInv, TypeOK

LEMMA RegisterKeeps ==
  ASSUME IngestionInv, NEW p \in Procs, Register(p) PROVE IngestionInv'
<1>1. /\ pc[p] = "register" /\ known' = known \cup Created(p)
      /\ touched' = [touched EXCEPT ![p] = @ \cup Created(p)]
      /\ pc' = [pc EXCEPT ![p] = "upsert"]
      /\ UNCHANGED <<world, rows, stamped, links, objects, extraction, queue, todo, cur,
                     follows, handler>>
  BY DEF Register, Move
<1>2. Created(p) \subseteq Dockets
  BY <1>1, VersionFacts DEF IngestionInv, InHand, Created, Listing
<1>3. Stored' = Stored BY <1>1 DEF rows, Stored
<1>4. TypeOK'
  BY <1>1, <1>2, <1>3 DEF IngestionInv, TypeOK, world, rows, queue, handler
<1>5. Rows'
  BY <1>1, <1>3 DEF IngestionInv, Rows, KeyMeansObject, CitableExtraction, rows, queue
<1>6. Grows BY <1>1, <1>3 DEF Grows, rows
<1>7. InHand(p)'
  BY <1>1 DEF IngestionInv, TypeOK, InHand, Created, Listing, Filing
<1> QED BY <1>1, <1>4, <1>5, <1>6, <1>7, CrawlStep DEF IngestionInv, TypeOK

\* The upsert: a row that was not there gets a key only with a document, and
\* one that was keeps the key it has.
LEMMA UpsertKeeps ==
  ASSUME IngestionInv, NEW p \in Procs, Upsert(p) PROVE IngestionInv'
<1> DEFINE f == Filing(p)
           l == Listing(p)
<1>1. /\ pc[p] = "upsert"
      /\ UNCHANGED <<world, docs, objects, extraction, queue, todo, cur, follows, touched, handler>>
  BY DEF Upsert
<1>2. /\ f \in Filings /\ cur[p][2] \in Nat \ {0} /\ cur[p][2] <= Len(Listings[f])
      /\ l.body \in BOOLEAN /\ Primary(l) \in known \cup {None}
      /\ (l.body => f \in objects) /\ Created(p) \subseteq known
  BY <1>1, VersionFacts DEF IngestionInv, InHand, Filing, Listing, Created
<1>3. /\ row \in [Filings -> Nat] /\ key \in [Filings -> BOOLEAN]
      /\ docketOf \in [Filings -> known \cup {None}]
      /\ \A g \in Filings : row[g] <= Len(Listings[g])
  BY DEF IngestionInv, TypeOK
<1>4. docketOf' \in [Filings -> known \cup {None}] BY <1>2, <1>3 DEF Upsert
<1>5. CASE Accepts(f, l)
  <2>1. /\ row' = [row EXCEPT ![f] = cur[p][2]] /\ key' = [key EXCEPT ![f] = KeyAfter(f, l)]
        /\ pc' = [pc EXCEPT ![p] = "link"]
    BY <1>5 DEF Upsert, Move
  <2>2. KeyAfter(f, l) \in BOOLEAN /\ (KeyAfter(f, l) => key[f] \/ f \in objects)
    BY <1>2, <1>3 DEF KeyAfter
  <2>3. key[f] => row[f] # 0 BY <1>2 DEF IngestionInv, Rows, Stored
  <2>4. f \in Stored' /\ Stored \subseteq Stored' BY <1>2, <1>3, <2>1 DEF Stored
  <2>5. /\ row' \in [Filings -> Nat] /\ key' \in [Filings -> BOOLEAN]
        /\ \A g \in Filings : row'[g] <= Len(Listings[g])
    BY <1>2, <1>3, <2>1, <2>2
  <2>6. TypeOK'
    <3>1. /\ links' \subseteq Stored' \X known' /\ known' = known
      BY <1>1, <2>4 DEF IngestionInv, TypeOK, docs
    <3>2. /\ pc' \in [Procs -> {"idle", "next", "upload", "register", "upsert", "link", "enqueue"}]
      BY <2>1 DEF IngestionInv, TypeOK
    <3> QED BY <1>1, <1>4, <2>5, <3>1, <3>2 DEF IngestionInv, TypeOK, world, docs, queue, handler
  <2>7. \A g \in Filings : key[g] => key'[g]
    BY <1>3, <2>1, <2>3 DEF KeyAfter
  <2>8. Rows'
    <3>1. \A g \in Filings : key'[g] => g \in objects /\ g \in Stored'
      BY <1>2, <1>3, <2>1, <2>2, <2>4 DEF IngestionInv, Rows, KeyMeansObject
    <3> QED BY <1>1, <2>4, <2>7, <3>1
            DEF IngestionInv, Rows, KeyMeansObject, CitableExtraction, queue
  <2>9. Grows BY <1>1, <2>4, <2>7 DEF Grows, docs
  <2>10. InHand(p)'
    BY <1>1, <1>2, <2>1, <2>4 DEF IngestionInv, TypeOK, InHand, Created, Listing, Filing, docs
  <2> QED BY <1>1, <2>1, <2>6, <2>8, <2>9, <2>10, CrawlStep DEF IngestionInv, TypeOK
<1>6. CASE ~Accepts(f, l)
  <2>1. row' = row /\ key' = key /\ pc' = [pc EXCEPT ![p] = "next"]
    BY <1>6 DEF Upsert, Move
  <2>2. Stored' = Stored BY <2>1 DEF Stored
  <2>3. TypeOK'
    BY <1>1, <1>4, <2>1, <2>2 DEF IngestionInv, TypeOK, world, docs, queue, handler
  <2>4. Rows'
    BY <1>1, <2>1, <2>2 DEF IngestionInv, Rows, KeyMeansObject, CitableExtraction, queue
  <2>5. Grows BY <1>1, <2>1, <2>2 DEF Grows, docs
  <2>6. InHand(p)' BY <1>1, <2>1 DEF IngestionInv, TypeOK, InHand, docs
  <2> QED BY <1>1, <2>1, <2>3, <2>4, <2>5, <2>6, CrawlStep DEF IngestionInv, TypeOK
<1> QED BY <1>5, <1>6

LEMMA LinkKeeps ==
  ASSUME IngestionInv, NEW p \in Procs, Link(p) PROVE IngestionInv'
<1>1. /\ pc[p] = "link"
      /\ links' = links \cup ({Filing(p)} \X ToSet(Listing(p).refs))
      /\ pc' = [pc EXCEPT ![p] = IF Wanted(p) THEN "enqueue" ELSE "next"]
      /\ UNCHANGED <<world, rows, known, stamped, objects, extraction, queue, todo, cur,
                     follows, touched, handler>>
  BY DEF Link, Move
<1>2. Filing(p) \in Stored /\ ToSet(Listing(p).refs) \subseteq known
  BY <1>1 DEF IngestionInv, InHand, Created
<1>3. Stored' = Stored BY <1>1 DEF rows, Stored
<1>4. TypeOK'
  BY <1>1, <1>2, <1>3 DEF IngestionInv, TypeOK, world, rows, queue, handler
<1>5. Rows'
  BY <1>1, <1>3 DEF IngestionInv, Rows, KeyMeansObject, CitableExtraction, rows, queue
<1>6. Grows BY <1>1, <1>3 DEF Grows, rows
<1>7. InHand(p)'
  BY <1>1, <1>3 DEF IngestionInv, TypeOK, InHand, Filing
<1> QED BY <1>1, <1>4, <1>5, <1>6, <1>7, CrawlStep DEF IngestionInv, TypeOK

LEMMA OfferKeeps ==
  ASSUME IngestionInv, NEW p \in Procs, Offer(p) PROVE IngestionInv'
<1>1. /\ pc[p] = "enqueue" /\ offers[Filing(p)] < MaxJobs
      /\ pending' = [pending EXCEPT ![Filing(p)] = @ + 1]
      /\ offers'  = [offers  EXCEPT ![Filing(p)] = @ + 1]
      /\ pc' = [pc EXCEPT ![p] = "next"]
      /\ UNCHANGED <<world, rows, docs, objects, extraction, sweeps, refreshed, todo, cur,
                     follows, touched, handler>>
  BY DEF Offer, Move
<1>2. Filing(p) \in Stored BY <1>1 DEF IngestionInv, InHand
<1>3. Stored' = Stored BY <1>1 DEF rows, Stored
<1>4. pending' \in [Filings -> Nat] /\ offers' \in [Filings -> 0 .. MaxJobs]
  <2>1. MaxJobs \in Nat BY IngestionAssumption
  <2> QED BY <1>1, <1>2, <2>1 DEF IngestionInv, TypeOK, Stored
<1>5. TypeOK'
  BY <1>1, <1>3, <1>4 DEF IngestionInv, TypeOK, world, rows, docs, handler
<1>6. Rows'
  BY <1>1, <1>2, <1>3
  DEF IngestionInv, TypeOK, Rows, KeyMeansObject, CitableExtraction, rows
<1>7. Grows BY <1>1, <1>3 DEF Grows, rows, docs
<1>8. InHand(p)' BY <1>1 DEF IngestionInv, TypeOK, InHand, docs
<1> QED BY <1>1, <1>5, <1>6, <1>7, <1>8, CrawlStep DEF IngestionInv, TypeOK

\* What an interrupted registration leaves is of the listing in hand.
LEMMA SomeRegistered ==
  ASSUME IngestionInv, NEW p \in Procs, RegisteredSome(p)
  PROVE  known \subseteq known' /\ known' \subseteq Dockets
<1>1. known \subseteq Dockets BY DEF IngestionInv, TypeOK
<1>2. CASE pc[p] = "register"
  <2>1. PICK n \in 0 .. Len(Listing(p).refs) :
          known' = known \cup {Listing(p).refs[i] : i \in 1 .. n}
    BY <1>2 DEF RegisteredSome
  <2>2. Listing(p).refs \in Seq(Dockets)
    BY <1>2, VersionFacts DEF IngestionInv, InHand, Listing
  <2>3. \A i \in 1 .. n : Listing(p).refs[i] \in Dockets
    BY <2>2, SeqFacts
  <2> QED BY <1>1, <2>1, <2>3
<1>3. CASE pc[p] # "register" BY <1>1, <1>3 DEF RegisteredSome
<1> QED BY <1>2, <1>3

LEMMA PersistFailsKeeps ==
  ASSUME IngestionInv, NEW p \in Procs, PersistFails(p) PROVE IngestionInv'
<1>1. /\ pc[p] \in {"upload", "register", "upsert", "link", "enqueue"}
      /\ pc' = [pc EXCEPT ![p] = "next"]
      /\ UNCHANGED <<world, rows, stamped, links, objects, extraction, queue, todo, cur,
                     follows, touched, handler>>
  BY DEF PersistFails, Move
<1>2. known \subseteq known' /\ known' \subseteq Dockets BY SomeRegistered DEF PersistFails
<1>4. Stored' = Stored BY <1>1 DEF rows, Stored
<1>5. TypeOK'
  BY <1>1, <1>2, <1>4 DEF IngestionInv, TypeOK, world, rows, queue, handler
<1>6. Rows'
  BY <1>1, <1>4 DEF IngestionInv, Rows, KeyMeansObject, CitableExtraction, rows, queue
<1>7. Grows BY <1>1, <1>2, <1>4 DEF Grows, rows
<1>8. InHand(p)' BY <1>1, <1>2 DEF IngestionInv, TypeOK, InHand
<1> QED BY <1>1, <1>5, <1>6, <1>7, <1>8, CrawlStep DEF IngestionInv, TypeOK

LEMMA FinishKeeps ==
  ASSUME IngestionInv, NEW p \in Procs, Finish(p) PROVE IngestionInv'
<1>1. /\ pc' = [pc EXCEPT ![p] = "idle"]
      /\ cur' = [cur EXCEPT ![p] = <<None, 0>>]
      /\ touched' = [touched EXCEPT ![p] = {}] /\ follows' = [follows EXCEPT ![p] = {}]
      /\ crawled' = TRUE
      /\ UNCHANGED <<day, site, tracked, rows, known, links, objects, extraction, queue, todo,
                     handler>>
  BY DEF Finish, Move
<1>2. stamped' \subseteq known BY DEF Finish, IngestionInv, TypeOK, InHand
<1>3. Stored' = Stored BY <1>1 DEF rows, Stored
<1>4. TypeOK'
  BY <1>1, <1>2, <1>3 DEF IngestionInv, TypeOK, rows, queue, handler
<1>5. Rows'
  BY <1>1, <1>3 DEF IngestionInv, Rows, KeyMeansObject, CitableExtraction, rows, queue
<1>6. Grows BY <1>1, <1>3 DEF Grows, rows
<1>7. InHand(p)' BY <1>1 DEF IngestionInv, TypeOK, InHand
<1> QED BY <1>1, <1>4, <1>5, <1>6, <1>7, CrawlStep DEF IngestionInv, TypeOK

LEMMA CrashKeeps ==
  ASSUME IngestionInv, NEW p \in Procs, Crash(p) PROVE IngestionInv'
<1>1. /\ pc' = [pc EXCEPT ![p] = "idle"] /\ todo' = [todo EXCEPT ![p] = {}]
      /\ cur' = [cur EXCEPT ![p] = <<None, 0>>]
      /\ follows' = [follows EXCEPT ![p] = {}] /\ touched' = [touched EXCEPT ![p] = {}]
  BY DEF Crash, Move
<1>2. /\ at'    = [l \in Loops |-> IF l[1] = p THEN "idle" ELSE at[l]]
      /\ job'   = [l \in Loops |-> IF l[1] = p THEN None ELSE job[l]]
      /\ keyed' = [l \in Loops |-> IF l[1] = p THEN FALSE ELSE keyed[l]]
      /\ UNCHANGED <<world, rows, stamped, links, objects, extraction, queue>>
      /\ known \subseteq known' /\ known' \subseteq Dockets
  BY SomeRegistered DEF Crash
<1>3. Stored' = Stored BY <1>2 DEF rows, Stored
<1>4. TypeOK'
  <2>1. /\ pc' \in [Procs -> {"idle", "next", "upload", "register", "upsert", "link", "enqueue"}]
        /\ todo' \in [Procs -> SUBSET Versions]
        /\ cur' \in [Procs -> Versions \cup {<<None, 0>>}]
        /\ follows' \in [Procs -> SUBSET Dockets] /\ touched' \in [Procs -> SUBSET Dockets]
    BY <1>1 DEF IngestionInv, TypeOK
  <2>2. /\ at' \in [Loops -> {"idle", "read", "skip", "dismiss", "upload", "setKey", "llm", "insert"}]
        /\ job' \in [Loops -> Filings \cup {None}] /\ keyed' \in [Loops -> BOOLEAN]
    BY <1>2 DEF IngestionInv, TypeOK
  <2> QED BY <1>2, <1>3, <2>1, <2>2 DEF IngestionInv, TypeOK, world, rows, queue
<1>5. Rows'
  BY <1>2, <1>3 DEF IngestionInv, Rows, KeyMeansObject, CitableExtraction, rows, queue
<1>6. Grows BY <1>2, <1>3 DEF Grows, rows
<1>7. \A q \in Procs : InHand(q)'
  <2> SUFFICES ASSUME NEW q \in Procs PROVE InHand(q)' OBVIOUS
  <2>1. CASE q = p BY <1>1, <2>1 DEF IngestionInv, TypeOK, InHand
  <2>2. CASE q # p
    <3>1. pc'[q] = pc[q] /\ todo'[q] = todo[q] /\ cur'[q] = cur[q] /\ touched'[q] = touched[q]
      BY <1>1, <2>2 DEF IngestionInv, TypeOK
    <3> QED BY <1>6, <3>1, CrawlFrame DEF IngestionInv
  <2> QED BY <2>1, <2>2
<1>8. \A l \in Loops : InWork(l)'
  <2> SUFFICES ASSUME NEW l \in Loops PROVE InWork(l)' OBVIOUS
  <2>1. CASE l[1] = p BY <1>2, <2>1 DEF InWork
  <2>2. CASE l[1] # p
    <3>1. at'[l] = at[l] /\ job'[l] = job[l] /\ keyed'[l] = keyed[l] BY <1>2, <2>2
    <3> QED BY <1>6, <3>1, HandlerFrame DEF IngestionInv
  <2> QED BY <2>1, <2>2
<1> QED BY <1>4, <1>5, <1>7, <1>8 DEF IngestionInv

-----------------------------------------------------------------------------
(* handle_extract *)

LEMMA ReadFilingKeeps ==
  ASSUME IngestionInv, NEW l \in Loops, NEW f \in Filings, ReadFiling(l, f)
  PROVE  IngestionInv'
<1>1. /\ at[l] = "idle" /\ job' = [job EXCEPT ![l] = f] /\ keyed' = [keyed EXCEPT ![l] = key[f]]
      /\ at' = [at EXCEPT ![l] = IF key[f] \/ HasSource(f) THEN "read" ELSE "skip"]
      /\ refreshed' = IF l[2] = "refresh" THEN refreshed \cup {f} ELSE refreshed
      /\ UNCHANGED <<world, rows, docs, objects, extraction, pending, offers, sweeps, crawler>>
  BY DEF ReadFiling, Go
<1>2. f \in Stored BY DEF ReadFiling, Asked, IngestionInv, Rows
<1>3. Stored' = Stored BY <1>1 DEF rows, Stored
<1>4. TypeOK'
  BY <1>1, <1>3 DEF IngestionInv, TypeOK, world, rows, docs, crawler
<1>5. Rows'
  BY <1>1, <1>3 DEF IngestionInv, Rows, KeyMeansObject, CitableExtraction, rows
<1>6. Grows BY <1>1, <1>3 DEF Grows, rows, docs
<1>7. InWork(l)' BY <1>1, <1>2, <1>3 DEF IngestionInv, TypeOK, InWork, rows
<1> QED BY <1>1, <1>4, <1>5, <1>6, <1>7, HandlerStep DEF IngestionInv, TypeOK

\* A job that is settled or given back leaves its loop idle; what its last
\* step may still have written is an extraction.
LEMMA LetGoKeeps ==
  ASSUME IngestionInv, NEW l \in Loops, at[l] # "idle",
         at' = [at EXCEPT ![l] = "idle"], job' = [job EXCEPT ![l] = None],
         keyed' = [keyed EXCEPT ![l] = FALSE],
         \/ pending' = pending
         \/ pending[job[l]] > 0 /\ pending' = [pending EXCEPT ![job[l]] = @ - 1],
         \/ extraction' = extraction
         \/ extraction' = [extraction EXCEPT ![job[l]] = "irrelevant"]
         \/ /\ at[l] = "insert"
            /\ \E payload \in {"full", "raw"} :
                 extraction' = [extraction EXCEPT ![job[l]] = payload],
         UNCHANGED <<world, rows, docs, objects, offers, sweeps, refreshed, crawler>>
  PROVE  IngestionInv'
<1>1. job[l] \in Filings BY DEF IngestionInv, InWork, Stored
<1>2. Stored' = Stored BY DEF rows, Stored
<1>3. pending' \in [Filings -> Nat] /\ \A f \in Filings : pending'[f] > 0 => pending[f] > 0
  <2>1. pending \in [Filings -> Nat] BY DEF IngestionInv, TypeOK
  <2>2. CASE pending' = pending BY <2>1, <2>2
  <2>3. CASE pending[job[l]] > 0 /\ pending' = [pending EXCEPT ![job[l]] = @ - 1]
    <3>1. pending[job[l]] - 1 \in Nat BY <1>1, <2>1, <2>3
    <3> QED BY <1>1, <2>1, <2>3, <3>1
  <2> QED BY <2>2, <2>3
<1>4. extraction' \in [Filings -> {"none", "irrelevant", "full", "raw"}]
  BY <1>1 DEF IngestionInv, TypeOK
<1>5. TypeOK'
  <2>1. /\ at' \in [Loops -> {"idle", "read", "skip", "dismiss", "upload", "setKey", "llm", "insert"}]
        /\ job' \in [Loops -> Filings \cup {None}] /\ keyed' \in [Loops -> BOOLEAN]
    BY DEF IngestionInv, TypeOK
  <2> QED BY <1>2, <1>3, <1>4, <2>1 DEF IngestionInv, TypeOK, world, rows, docs, crawler
<1>6. \A f \in Filings : extraction'[f] \in {"full", "raw"} => key[f]
  <2>1. at[l] = "insert" => key[job[l]] BY DEF IngestionInv, InWork
  <2> QED BY <1>1, <2>1 DEF IngestionInv, TypeOK, Rows, CitableExtraction
<1>7. Rows'
  BY <1>2, <1>3, <1>6 DEF IngestionInv, Rows, KeyMeansObject, CitableExtraction, rows
<1>8. Grows BY <1>2 DEF Grows, rows, docs
<1>9. InWork(l)' BY DEF IngestionInv, TypeOK, InWork
<1> QED BY <1>5, <1>7, <1>8, <1>9, HandlerStep DEF IngestionInv, TypeOK

LEMMA SettleKeeps ==
  ASSUME IngestionInv, NEW l \in Loops,
         Skip(l) \/ Dismiss(l) \/ InsertExtraction(l) \/ Raise(l)
  PROVE  IngestionInv'
<1>1. /\ at[l] # "idle" /\ at' = [at EXCEPT ![l] = "idle"] /\ job' = [job EXCEPT ![l] = None]
      /\ keyed' = [keyed EXCEPT ![l] = FALSE]
      /\ UNCHANGED <<world, rows, docs, objects, offers, sweeps, refreshed, crawler>>
  BY DEF Skip, Dismiss, InsertExtraction, Raise, Settle, Go, queue
<1>2. \/ pending' = pending
      \/ pending[job[l]] > 0 /\ pending' = [pending EXCEPT ![job[l]] = @ - 1]
  BY DEF Skip, Dismiss, InsertExtraction, Raise, Settle, queue
<1>3. \/ extraction' = extraction
      \/ extraction' = [extraction EXCEPT ![job[l]] = "irrelevant"]
      \/ /\ at[l] = "insert"
         /\ \E payload \in {"full", "raw"} :
              extraction' = [extraction EXCEPT ![job[l]] = payload]
  BY DEF Skip, Dismiss, InsertExtraction, Raise
<1> QED BY <1>1, <1>2, <1>3, LetGoKeeps

LEMMA TriageKeeps ==
  ASSUME IngestionInv, NEW l \in Loops, Triage(l) PROVE IngestionInv'
<1>1. /\ at[l] = "read"
      /\ \/ at' = [at EXCEPT ![l] = "dismiss"]
         \/ keyed[l] /\ at' = [at EXCEPT ![l] = "llm"]
         \/ at' = [at EXCEPT ![l] = "upload"]
      /\ UNCHANGED <<world, rows, docs, objects, extraction, queue, crawler, job, keyed>>
  BY DEF Triage, Go
<1>2. Stored' = Stored BY <1>1 DEF rows, Stored
<1>3. TypeOK'
  BY <1>1, <1>2 DEF IngestionInv, TypeOK, world, rows, docs, queue, crawler
<1>4. Rows'
  BY <1>1, <1>2 DEF IngestionInv, Rows, KeyMeansObject, CitableExtraction, rows, queue
<1>5. Grows BY <1>1, <1>2 DEF Grows, rows, docs
<1>6. InWork(l)' BY <1>1, <1>2 DEF IngestionInv, TypeOK, InWork, rows
<1> QED BY <1>1, <1>3, <1>4, <1>5, <1>6, HandlerStep DEF IngestionInv, TypeOK

LEMMA UploadDocKeeps ==
  ASSUME IngestionInv, NEW l \in Loops, UploadDoc(l) PROVE IngestionInv'
<1>1. /\ at[l] = "upload" /\ objects' = objects \cup {job[l]}
      /\ at' = [at EXCEPT ![l] = "setKey"]
      /\ UNCHANGED <<world, rows, docs, extraction, queue, crawler, job, keyed>>
  BY DEF UploadDoc, Go
<1>2. Stored' = Stored /\ job[l] \in Stored
  BY <1>1 DEF rows, Stored, IngestionInv, InWork
<1>3. TypeOK'
  BY <1>1, <1>2 DEF IngestionInv, TypeOK, world, rows, docs, queue, crawler, Stored
<1>4. Rows'
  BY <1>1, <1>2 DEF IngestionInv, Rows, KeyMeansObject, CitableExtraction, rows, queue
<1>5. Grows BY <1>1, <1>2 DEF Grows, rows, docs
<1>6. InWork(l)' BY <1>1, <1>2 DEF IngestionInv, TypeOK, InWork, rows
<1> QED BY <1>1, <1>3, <1>4, <1>5, <1>6, HandlerStep DEF IngestionInv, TypeOK

LEMMA SetKeyKeeps ==
  ASSUME IngestionInv, NEW l \in Loops, SetKey(l) PROVE IngestionInv'
<1>1. /\ at[l] = "setKey" /\ key' = [key EXCEPT ![job[l]] = TRUE]
      /\ at' = [at EXCEPT ![l] = "llm"]
      /\ UNCHANGED <<world, row, docketOf, docs, objects, extraction, queue, crawler, job, keyed>>
  BY DEF SetKey, Go
<1>2. Stored' = Stored /\ job[l] \in Stored /\ job[l] \in Filings /\ job[l] \in objects
  BY <1>1 DEF Stored, IngestionInv, InWork
<1>3. /\ key' \in [Filings -> BOOLEAN] /\ key'[job[l]]
      /\ \A f \in Filings : (key[f] => key'[f]) /\ (key'[f] => key[f] \/ f = job[l])
  BY <1>1, <1>2 DEF IngestionInv, TypeOK
<1>4. TypeOK'
  BY <1>1, <1>2, <1>3 DEF IngestionInv, TypeOK, world, docs, queue, crawler
<1>5. Rows'
  BY <1>1, <1>2, <1>3 DEF IngestionInv, Rows, KeyMeansObject, CitableExtraction, queue
<1>6. Grows BY <1>1, <1>2, <1>3 DEF Grows, docs
<1>7. InWork(l)' BY <1>1, <1>2, <1>3 DEF IngestionInv, TypeOK, InWork
<1> QED BY <1>1, <1>4, <1>5, <1>6, <1>7, HandlerStep DEF IngestionInv, TypeOK

LEMMA ExtractKeeps ==
  ASSUME IngestionInv, NEW l \in Loops, Extract(l) PROVE IngestionInv'
<1>1. PICK cited \in SUBSET CrossRefs[job[l]] :
        known' = known \cup cited /\ links' = links \cup ({job[l]} \X cited)
  BY DEF Extract
<1>2. /\ at[l] = "llm" /\ at' = [at EXCEPT ![l] = "insert"]
      /\ UNCHANGED <<world, rows, stamped, objects, extraction, queue, crawler, job, keyed>>
  BY DEF Extract, Go
<1>3. Stored' = Stored /\ job[l] \in Stored /\ job[l] \in Filings
  BY <1>2 DEF rows, Stored, IngestionInv, InWork
<1>4. cited \subseteq Dockets BY <1>3, IngestionAssumption
<1>5. TypeOK'
  BY <1>1, <1>2, <1>3, <1>4 DEF IngestionInv, TypeOK, world, rows, queue, crawler
<1>6. Rows'
  BY <1>2, <1>3 DEF IngestionInv, Rows, KeyMeansObject, CitableExtraction, rows, queue
<1>7. Grows BY <1>1, <1>2, <1>3 DEF Grows, rows
<1>8. InWork(l)' BY <1>2, <1>3 DEF IngestionInv, TypeOK, InWork, rows
<1> QED BY <1>2, <1>5, <1>6, <1>7, <1>8, HandlerStep DEF IngestionInv, TypeOK

-----------------------------------------------------------------------------
LEMMA NextKeeps == IngestionInv /\ [Next]_vars => IngestionInv'
<1> SUFFICES ASSUME IngestionInv, [Next]_vars PROVE IngestionInv' OBVIOUS
<1>1. CASE NextDay \/ (\E f \in Filings : List(f)) \/ (\E d \in Dockets : Track(d))
  BY <1>1, WorldKeeps
<1>2. CASE Sweep BY <1>2, SweepKeeps
<1>3. ASSUME NEW p \in Procs,
             \/ ScheduledCrawl(p) \/ ManualCrawl(p) \/ Take(p) \/ Upload(p) \/ Register(p)
             \/ Upsert(p) \/ Link(p) \/ Offer(p) \/ PersistFails(p) \/ Finish(p) \/ Crash(p)
      PROVE  IngestionInv'
  BY <1>3, BeginKeeps, TakeKeeps, UploadKeeps, RegisterKeeps, UpsertKeeps, LinkKeeps, OfferKeeps,
     PersistFailsKeeps, FinishKeeps, CrashKeeps
<1>4. ASSUME NEW l \in Loops,
             \/ \E f \in Filings : ReadFiling(l, f)
             \/ Skip(l) \/ Triage(l) \/ Dismiss(l) \/ UploadDoc(l) \/ SetKey(l)
             \/ Extract(l) \/ InsertExtraction(l) \/ Raise(l)
      PROVE  IngestionInv'
  BY <1>4, ReadFilingKeeps, SettleKeeps, TriageKeeps, UploadDocKeeps, SetKeyKeeps, ExtractKeeps
<1>5. CASE UNCHANGED vars
  <2>1. UNCHANGED <<world, rows, docs, objects, extraction, queue, crawler, handler>>
    BY <1>5 DEF vars
  <2>2. Stored' = Stored BY <2>1 DEF rows, Stored
  <2>3. TypeOK'
    BY <2>1, <2>2 DEF IngestionInv, TypeOK, world, rows, docs, queue, crawler, handler
  <2>4. Rows' BY <2>1, <2>2 DEF IngestionInv, Rows, KeyMeansObject, CitableExtraction, rows, queue
  <2>5. Grows BY <2>1, <2>2 DEF Grows, rows, docs
  <2> QED BY <2>1, <2>3, <2>4, <2>5, WorldStep
<1> QED BY <1>1, <1>2, <1>3, <1>4, <1>5 DEF Next

LEMMA IngestionInvHolds == Spec => []IngestionInv
<1> QED BY InitIngestion, NextKeeps, PTL DEF Spec

-----------------------------------------------------------------------------
\* Every variable keeps its type; docket_id and the junction rows refer to
\* rows that exist.
THEOREM IngestionTypeCorrect == Spec => []TypeOK
<1>1. IngestionInv => TypeOK BY DEF IngestionInv
<1> QED BY <1>1, IngestionInvHolds, PTL

\* r2_key names a document that is there, for any number of crawls, handlers
\* and kills.
THEOREM KeyMeansObjectHolds == Spec => []KeyMeansObject
<1>1. IngestionInv => KeyMeansObject BY DEF IngestionInv, Rows
<1> QED BY <1>1, IngestionInvHolds, PTL

\* An extraction that is not a dismissal has its document.
THEOREM CitableExtractionHolds == Spec => []CitableExtraction
<1>1. IngestionInv => CitableExtraction BY DEF IngestionInv, Rows
<1> QED BY <1>1, IngestionInvHolds, PTL

\* Neither a key nor an extraction outruns its document.
THEOREM SourcesExistHolds == Spec => []SourcesExist
<1>1. KeyMeansObject /\ CitableExtraction => SourcesExist BY DEF SourcesExist
<1> QED BY <1>1, KeyMeansObjectHolds, CitableExtractionHolds, PTL

\* The sweep enqueues a filing once: only the sweep counts sweeps, and it
\* takes none that has been swept.
THEOREM SweptOnceHolds == Spec => []SweptOnce
<1>1. Init => SweptOnce BY DEF Init, SweptOnce
<1>2. IngestionInv /\ SweptOnce /\ [Next]_vars => SweptOnce'
  <2> SUFFICES ASSUME IngestionInv, SweptOnce, [Next]_vars PROVE SweptOnce' OBVIOUS
  <2>1. CASE Sweep
    <3>1. PICK S \in SUBSET Unread :
            sweeps' = [f \in Filings |-> IF f \in S THEN sweeps[f] + 1 ELSE sweeps[f]]
      BY <2>1 DEF Sweep
    <3>2. \A f \in S : sweeps[f] = 0 BY DEF Unread, Untried
    <3> QED BY <3>1, <3>2 DEF SweptOnce
  <2>2. CASE ~Sweep
    <3>1. sweeps' = sweeps
      BY <2>2 DEF Next, NextDay, List, Track, ScheduledCrawl, ManualCrawl, Begin, Take, Upload,
                  Register, Upsert, Link, Offer, PersistFails, Finish, Crash, ReadFiling, Skip,
                  Triage, Dismiss, UploadDoc, SetKey, Extract, InsertExtraction, Raise, Settle,
                  queue, vars
    <3> QED BY <3>1 DEF SweptOnce
  <2> QED BY <2>1, <2>2
<1> QED BY <1>1, <1>2, IngestionInvHolds, PTL DEF Spec

-----------------------------------------------------------------------------
(* What crawls pay for *)

\* One crawl at a time, and a URL the site has replaced by another does not
\* come back.  Both are needed: of two crawls that overlap, the one that
\* fetched the older listing may store it over the newer, and either way the
\* newer is a change once more.
OneCrawler      == \A p, q \in Procs : p = q
UrlOf(f, i)     == Listings[f][i].url
UrlsDoNotReturn ==
  \A f \in Filings : \A i, j, k \in DOMAIN Listings[f] :
    i < j /\ j < k /\ UrlOf(f, k) # 0 /\ UrlOf(f, i) = UrlOf(f, k)
      => UrlOf(f, j) \in {UrlOf(f, k), 0}

\* A crawl never holds a listing older than the row, nor two of one filing.
InOrder(p) ==
  /\ \A v \in todo[p] : row[v[1]] <= v[2] /\ v[2] <= site[v[1]]
  /\ \A v, w \in todo[p] : v[1] = w[1] => v = w
  /\ pc[p] \notin {"idle", "next"} =>
       /\ row[Filing(p)] <= cur[p][2] /\ cur[p][2] <= site[Filing(p)]
       /\ \A v \in todo[p] : v[1] # Filing(p)

\* The jobs a filing has cost or is about to: one for a row that came without
\* URL, else at most one for each URL up to the row's version.
Urls(f, n)  == {UrlOf(f, i) : i \in 1 .. n}
AboutTo(f)  == \E p \in Procs : pc[p] \in {"link", "enqueue"} /\ Filing(p) = f
Cost(f)     == IF AboutTo(f) THEN offers[f] + 1 ELSE offers[f]
Earned(f)   ==
  /\ row[f] <= site[f]
  /\ row[f] = 0 => Cost(f) = 0
  /\ row[f] # 0 /\ UrlOf(f, row[f]) = 0 => Cost(f) <= 1
  /\ row[f] # 0 => Cost(f) <= Cardinality(Urls(f, row[f]))

OfferInv == (\A p \in Procs : InOrder(p)) /\ (\A f \in Filings : Earned(f))

LEMMA UrlFacts ==
  ASSUME NEW f \in Filings, NEW n \in Nat
  PROVE  IsFiniteSet(Urls(f, n)) /\ Cardinality(Urls(f, n)) \in Nat
<1> DEFINE g == [i \in 1 .. n |-> UrlOf(f, i)]
<1>1. g \in Surjection(1 .. n, Urls(f, n)) BY DEF Surjection, Urls
<1>2. IsFiniteSet(1 .. n)
  <2>1. 1 \in Int /\ n \in Int OBVIOUS
  <2> QED BY <2>1, FS_Interval
<1> HIDE DEF g
<1> QED BY <1>1, <1>2, FS_Surjection, FS_CardinalityType

LEMMA MoreUrls ==
  ASSUME NEW f \in Filings, NEW m \in Nat, NEW n \in Nat, m <= n
  PROVE  /\ Cardinality(Urls(f, m)) <= Cardinality(Urls(f, n))
         /\ \A i \in 1 .. n : UrlOf(f, i) \notin Urls(f, m)
              => Cardinality(Urls(f, m)) + 1 <= Cardinality(Urls(f, n))
<1>1. \A i \in 1 .. m : i \in 1 .. n OBVIOUS
<1>2. Urls(f, m) \subseteq Urls(f, n) BY <1>1 DEF Urls
<1>3. /\ IsFiniteSet(Urls(f, m)) /\ IsFiniteSet(Urls(f, n))
      /\ Cardinality(Urls(f, m)) \in Nat /\ Cardinality(Urls(f, n)) \in Nat
  BY UrlFacts
<1>4. Cardinality(Urls(f, m)) <= Cardinality(Urls(f, n)) BY <1>2, <1>3, FS_Subset
<1>5. ASSUME NEW i \in 1 .. n, UrlOf(f, i) \notin Urls(f, m)
      PROVE  Cardinality(Urls(f, m)) + 1 <= Cardinality(Urls(f, n))
  <2>1. UrlOf(f, i) \in Urls(f, n) BY DEF Urls
  <2>2. Cardinality(Urls(f, m)) # Cardinality(Urls(f, n)) BY <1>2, <1>3, <1>5, <2>1, FS_Subset
  <2> QED BY <1>3, <1>4, <2>2
<1> QED BY <1>4, <1>5

\* Between upserts only the site's versions and the jobs move.
LEMMA EarnedKept ==
  ASSUME IngestionInv, NEW f \in Filings, Earned(f), row'[f] = row[f], site'[f] >= site[f],
         site'[f] \in Nat, Cost(f)' \in Nat, Cost(f)' <= Cost(f)
  PROVE  Earned(f)'
<1>1. row[f] \in Nat /\ site[f] \in Nat /\ offers[f] \in Nat
  BY IngestionAssumption DEF IngestionInv, TypeOK
<1>2. Cost(f) \in Nat BY <1>1 DEF Cost
<1>3. Cardinality(Urls(f, row[f])) \in Nat BY <1>1, UrlFacts
<1> QED BY <1>1, <1>2, <1>3 DEF Earned, Urls, UrlOf

LEMMA OrderKept ==
  ASSUME IngestionInv, NEW p \in Procs, InOrder(p), row' = row,
         \A f \in Filings : site'[f] >= site[f] /\ site'[f] \in Nat,
         pc'[p] = pc[p] \/ pc'[p] \in {"idle", "next"} \/ pc[p] \notin {"idle", "next"},
         cur'[p] = cur[p] \/ pc'[p] \in {"idle", "next"}, todo'[p] \subseteq todo[p]
  PROVE  InOrder(p)'
<1>1. \A v \in todo[p] : v[1] \in Filings /\ v[2] \in Nat
  BY VersionFacts DEF IngestionInv, InHand
<1>2. pc[p] \notin {"idle", "next"} => Filing(p) \in Filings /\ cur[p][2] \in Nat
  BY VersionFacts DEF IngestionInv, InHand, Filing
<1>3. \A f \in Filings : site[f] \in Nat BY DEF IngestionInv, TypeOK
<1>4. \A v \in todo'[p] : row'[v[1]] <= v[2] /\ v[2] <= site'[v[1]]
  <2> SUFFICES ASSUME NEW v \in todo[p] PROVE row[v[1]] <= v[2] /\ v[2] <= site'[v[1]]
    OBVIOUS
  <2>1. v[1] \in Filings /\ v[2] \in Nat /\ v[2] <= site[v[1]] /\ row[v[1]] <= v[2]
    BY <1>1 DEF InOrder
  <2>2. site[v[1]] \in Nat /\ site'[v[1]] \in Nat /\ site'[v[1]] >= site[v[1]] BY <1>3, <2>1
  <2> QED BY <2>1, <2>2
<1>5. ASSUME pc'[p] \notin {"idle", "next"}
      PROVE  /\ row[Filing(p)] <= cur[p][2] /\ cur[p][2] <= site'[Filing(p)]
             /\ \A v \in todo'[p] : v[1] # Filing(p)
             /\ cur'[p] = cur[p]
  <2>1. pc[p] \notin {"idle", "next"} /\ cur'[p] = cur[p] BY <1>5
  <2>2. Filing(p) \in Filings /\ cur[p][2] \in Nat BY <1>2, <2>1
  <2>3. /\ row[Filing(p)] <= cur[p][2] /\ cur[p][2] <= site[Filing(p)]
        /\ \A v \in todo[p] : v[1] # Filing(p)
    BY <2>1 DEF InOrder
  <2>4. /\ site[Filing(p)] \in Nat /\ site'[Filing(p)] \in Nat
        /\ site'[Filing(p)] >= site[Filing(p)]
    BY <1>3, <2>2
  <2> QED BY <2>1, <2>2, <2>3, <2>4
<1> QED BY <1>4, <1>5 DEF InOrder, Filing

\* The only crawler's step.
LEMMA OfferStep ==
  ASSUME IngestionInv, TypeOK', OfferInv, OneCrawler, NEW p \in Procs,
         row' = row, site' = site, InOrder(p)',
         \A f \in Filings : Cost(f)' <= Cost(f)
  PROVE  OfferInv'
<1>1. \A q \in Procs : q = p BY DEF OneCrawler
<1>2. \A q \in Procs : InOrder(q)' BY <1>1
<1>3. \A f \in Filings : Cost(f)' \in Nat
  <2>1. \A f \in Filings : offers'[f] \in Nat BY IngestionAssumption DEF TypeOK
  <2> QED BY <2>1 DEF Cost
<1>4. \A f \in Filings : site[f] \in Nat /\ site[f] >= site[f] BY DEF IngestionInv, TypeOK
<1>5. \A f \in Filings : Earned(f)' BY <1>3, <1>4, EarnedKept DEF OfferInv
<1> QED BY <1>2, <1>5 DEF OfferInv

LEMMA Sole ==
  ASSUME OneCrawler, NEW p \in Procs, NEW f \in Filings
  PROVE  /\ AboutTo(f)  <=> pc[p] \in {"link", "enqueue"} /\ Filing(p) = f
         /\ AboutTo(f)' <=> pc'[p] \in {"link", "enqueue"} /\ Filing(p)' = f
<1>1. \A q \in Procs : q = p BY DEF OneCrawler
<1> QED BY <1>1 DEF AboutTo

\* What is not a crawl's step: the site may move on.
LEMMA OutsideStep ==
  ASSUME IngestionInv, TypeOK', OfferInv, UNCHANGED <<row, offers, pc, cur, todo>>,
         \A f \in Filings : site'[f] >= site[f]
  PROVE  OfferInv'
<1>1. \A f \in Filings : site'[f] \in Nat /\ offers'[f] \in Nat
  BY IngestionAssumption DEF TypeOK
<1>2. \A p \in Procs : InOrder(p)' BY <1>1, OrderKept DEF OfferInv
<1>3. \A f \in Filings : Cost(f)' = Cost(f) /\ Cost(f)' \in Nat
  BY <1>1 DEF Cost, AboutTo, Filing
<1>4. ASSUME NEW f \in Filings PROVE Earned(f)'
  <2>1. Cost(f)' <= Cost(f) BY <1>3
  <2> QED BY <1>1, <1>3, <2>1, EarnedKept DEF OfferInv
<1> QED BY <1>2, <1>4 DEF OfferInv

LEMMA BeginOffers ==
  ASSUME IngestionInv, TypeOK', OfferInv, OneCrawler, NEW p \in Procs,
         ScheduledCrawl(p) \/ ManualCrawl(p)
  PROVE  OfferInv'
<1>1. PICK found : Begin(p, found) /\ \A v \in found : v[1] \in Filings /\ v = <<v[1], site[v[1]]>>
  <2>1. \A since : \A v \in Listed(since) : v[1] \in Filings /\ v = <<v[1], site[v[1]]>>
    BY DEF Listed
  <2>2. CASE ScheduledCrawl(p)
    BY <2>1, <2>2 DEF ScheduledCrawl
  <2>3. CASE \E found \in SUBSET Listed(0) : Begin(p, found) BY <2>1, <2>3
  <2>4. CASE Begin(p, Listed(Watermark)) BY <2>1, <2>4
  <2> QED BY <2>2, <2>3, <2>4 DEF ManualCrawl
<1>2. /\ pc' = [pc EXCEPT ![p] = "next"] /\ todo' = [todo EXCEPT ![p] = found]
      /\ row' = row /\ site' = site /\ offers' = offers
  BY <1>1 DEF Begin, world, rows, queue
<1>3. pc'[p] = "next" /\ todo'[p] = found BY <1>2 DEF IngestionInv, TypeOK
<1>4. \A f \in Filings : row[f] <= site[f] /\ site[f] \in Nat
  BY DEF OfferInv, Earned, IngestionInv, TypeOK
<1>5. InOrder(p)'
  <2>1. \A v \in found : v[1] \in Filings /\ v[2] = site[v[1]] BY <1>1
  <2>2. \A v \in found : row'[v[1]] <= v[2] /\ v[2] <= site'[v[1]] BY <1>2, <1>4, <2>1
  <2>3. \A v, w \in found : v[1] = w[1] => v = w BY <1>1
  <2> QED BY <1>3, <2>2, <2>3 DEF InOrder
<1>6. \A f \in Filings : Cost(f)' <= Cost(f)
  <2>1. \A f \in Filings : ~AboutTo(f)' BY <1>3, Sole
  <2>2. \A f \in Filings : offers[f] \in Nat BY IngestionAssumption DEF IngestionInv, TypeOK
  <2> QED BY <1>2, <2>1, <2>2 DEF Cost
<1> QED BY <1>2, <1>5, <1>6, OfferStep

LEMMA TakeOffers ==
  ASSUME IngestionInv, TypeOK', OfferInv, OneCrawler, NEW p \in Procs, Take(p)
  PROVE  OfferInv'
<1>1. PICK v \in todo[p] :
        /\ cur'  = [cur EXCEPT ![p] = v]
        /\ todo' = [todo EXCEPT ![p] = @ \ {v}]
  BY DEF Take
<1>2. cur'[p] = v /\ todo'[p] = todo[p] \ {v} BY <1>1 DEF IngestionInv, TypeOK
<1>3. pc'[p] \in {"upload", "register"} /\ row' = row /\ site' = site /\ offers' = offers
  BY DEF Take, Move, IngestionInv, TypeOK, world, rows, queue
<1>4. /\ \A w \in todo[p] : row[w[1]] <= w[2] /\ w[2] <= site[w[1]]
      /\ \A w, x \in todo[p] : w[1] = x[1] => w = x
  BY DEF OfferInv, InOrder
<1>5. InOrder(p)' BY <1>2, <1>3, <1>4 DEF InOrder, Filing
<1>6. \A f \in Filings : Cost(f)' <= Cost(f)
  <2>1. \A f \in Filings : ~AboutTo(f)' BY <1>3, Sole
  <2>2. \A f \in Filings : offers[f] \in Nat BY IngestionAssumption DEF IngestionInv, TypeOK
  <2> QED BY <1>3, <2>1, <2>2 DEF Cost
<1> QED BY <1>3, <1>5, <1>6, OfferStep

\* The steps between, and a crawl's end.
LEMMA OtherOffers ==
  ASSUME IngestionInv, TypeOK', OfferInv, OneCrawler, NEW p \in Procs,
         \/ Upload(p) \/ Register(p) \/ Link(p) \/ Offer(p)
         \/ PersistFails(p) \/ Finish(p) \/ Crash(p)
  PROVE  OfferInv'
<1>1. row' = row /\ site' = site
  BY DEF Upload, Register, Link, Offer, PersistFails, Finish, Crash, world, rows
<1>2. pc \in [Procs -> {"idle", "next", "upload", "register", "upsert", "link", "enqueue"}]
      /\ todo \in [Procs -> SUBSET Versions]
      /\ cur \in [Procs -> Versions \cup {<<None, 0>>}]
      /\ offers \in [Filings -> 0 .. MaxJobs]
  BY DEF IngestionInv, TypeOK
<1>3. /\ pc'[p] \in {"idle", "next"} \/ (pc[p] \notin {"idle", "next"} /\ cur'[p] = cur[p])
      /\ todo'[p] \subseteq todo[p]
  BY <1>2 DEF Upload, Register, Link, Offer, PersistFails, Finish, Crash, Move
<1>4. \A f \in Filings : site[f] \in Nat /\ site[f] >= site[f] BY DEF IngestionInv, TypeOK
<1>5. InOrder(p)' BY <1>1, <1>3, <1>4, OrderKept DEF OfferInv
<1>6. ASSUME NEW f \in Filings PROVE Cost(f)' <= Cost(f)
  <2>1. offers[f] \in Nat BY <1>2, IngestionAssumption
  <2>2. CASE Offer(p)
    <3>1. pc[p] = "enqueue" /\ pc'[p] = "next" /\ offers' = [offers EXCEPT ![Filing(p)] = @ + 1]
      BY <1>2, <2>2 DEF Offer, Move
    <3>2. ~AboutTo(f)' /\ (AboutTo(f) <=> Filing(p) = f) BY <3>1, Sole
    <3>3. offers'[f] = IF Filing(p) = f THEN offers[f] + 1 ELSE offers[f] BY <1>2, <3>1
    <3> QED BY <2>1, <3>2, <3>3 DEF Cost
  <2>3. CASE ~Offer(p)
    <3>1. offers' = offers
      BY <2>3 DEF Upload, Register, Link, Offer, PersistFails, Finish, Crash, queue
    <3>2. pc'[p] \in {"link", "enqueue"} => pc[p] = "link" /\ cur'[p] = cur[p]
      BY <1>2, <2>3 DEF Upload, Register, Link, PersistFails, Finish, Crash, Move
    <3>3. AboutTo(f)' => AboutTo(f) BY <3>2, Sole DEF Filing
    <3> QED BY <2>1, <3>1, <3>3 DEF Cost
  <2> QED BY <2>2, <2>3
<1> QED BY <1>1, <1>5, <1>6, OfferStep

\* An upsert that returns an id goes up to a version whose URL was none of the
\* row's earlier ones.
LEMMA NewUrl ==
  ASSUME UrlsDoNotReturn, NEW f \in Filings, NEW i \in DOMAIN Listings[f],
         NEW n \in DOMAIN Listings[f], i < n,
         UrlOf(f, n) # 0, UrlOf(f, i) # 0, UrlOf(f, n) # UrlOf(f, i)
  PROVE  UrlOf(f, n) \notin Urls(f, i)
<1> SUFFICES ASSUME NEW k \in 1 .. i, UrlOf(f, k) = UrlOf(f, n) PROVE FALSE
  BY DEF Urls
<1>1. DOMAIN Listings[f] = 1 .. Len(Listings[f]) /\ Len(Listings[f]) \in Nat
  BY IngestionAssumption, SeqFacts
<1>2. k # i OBVIOUS
<1>3. k \in DOMAIN Listings[f] /\ k < i BY <1>1, <1>2
<1> QED BY <1>3 DEF UrlsDoNotReturn

LEMMA UpsertOffers ==
  ASSUME IngestionInv, TypeOK', OfferInv, OneCrawler, UrlsDoNotReturn, NEW p \in Procs, Upsert(p)
  PROVE  OfferInv'
<1>1. PICK f \in Filings : f = Filing(p)
  BY VersionFacts DEF Upsert, IngestionInv, InHand, Filing
<1>2. PICK n \in DOMAIN Listings[f] : n = cur[p][2]
  BY <1>1, VersionFacts DEF Upsert, IngestionInv, InHand, Filing
<1> DEFINE i == row[f]
<1>3. /\ DOMAIN Listings[f] = 1 .. Len(Listings[f]) /\ Len(Listings[f]) \in Nat
      /\ i \in Nat /\ n \in Nat /\ n >= 1 /\ offers[f] \in Nat /\ site[f] \in Nat
      /\ (i # 0 => i \in DOMAIN Listings[f])
  <2>1. DOMAIN Listings[f] = 1 .. Len(Listings[f]) /\ Len(Listings[f]) \in Nat
    BY IngestionAssumption, SeqFacts
  <2>2. i \in Nat /\ i <= Len(Listings[f]) /\ offers[f] \in Nat /\ site[f] \in Nat
    BY IngestionAssumption DEF IngestionInv, TypeOK
  <2> HIDE DEF i
  <2> QED BY <2>1, <2>2
<1>4. /\ i <= n /\ n <= site[f] /\ \A v \in todo[p] : v[1] # f
      /\ \A v \in todo[p] : row[v[1]] <= v[2] /\ v[2] <= site[v[1]]
      /\ \A v, w \in todo[p] : v[1] = w[1] => v = w
  BY <1>1, <1>2 DEF Upsert, OfferInv, InOrder
<1>5. /\ pc[p] = "upsert" /\ Listing(p).url = UrlOf(f, n) /\ Listing(p) = Listings[f][n]
      /\ UNCHANGED <<site, offers, todo, cur>>
  BY <1>1, <1>2 DEF Upsert, Listing, Filing, UrlOf, world, queue
<1>6. CASE ~Accepts(f, Listing(p))
  <2>1. row' = row /\ pc' = [pc EXCEPT ![p] = "next"] BY <1>1, <1>6 DEF Upsert, Move
  <2>2. pc'[p] = "next" BY <2>1 DEF IngestionInv, TypeOK
  <2>3. \A g \in Filings : site[g] \in Nat /\ site[g] >= site[g] BY DEF IngestionInv, TypeOK
  <2>4. InOrder(p)' BY <1>5, <2>1, <2>2, <2>3, OrderKept DEF OfferInv
  <2>5. \A g \in Filings : offers[g] \in Nat BY IngestionAssumption DEF IngestionInv, TypeOK
  <2>6. \A g \in Filings : Cost(g)' <= Cost(g)
    <3>1. \A g \in Filings : ~AboutTo(g)' BY <2>2, Sole
    <3> QED BY <1>5, <2>5, <3>1 DEF Cost
  <2> QED BY <1>5, <2>1, <2>4, <2>6, OfferStep
<1>7. CASE Accepts(f, Listing(p))
  <2>1. row' = [row EXCEPT ![f] = n] /\ pc' = [pc EXCEPT ![p] = "link"]
    BY <1>1, <1>2, <1>7 DEF Upsert, Move
  <2>2. /\ pc'[p] = "link" /\ row'[f] = n /\ \A g \in Filings \ {f} : row'[g] = row[g]
    BY <2>1 DEF IngestionInv, TypeOK
  <2>3. \A v \in todo[p] : v[1] \in Filings BY VersionFacts DEF IngestionInv, InHand
  <2>4. InOrder(p)'
    <3>1. \A v \in todo[p] : row'[v[1]] <= v[2] /\ v[2] <= site[v[1]]
      BY <1>4, <2>2, <2>3
    <3> QED BY <1>1, <1>2, <1>3, <1>4, <1>5, <2>2, <3>1 DEF InOrder, Filing
  <2>5. \A q \in Procs : InOrder(q)' BY <2>4 DEF OneCrawler
  <2>6. ASSUME NEW g \in Filings \ {f} PROVE Earned(g)'
    <3>1. ~AboutTo(g)' BY <1>1, <1>5, <2>2, Sole DEF Filing
    <3>2. offers[g] \in Nat /\ site[g] \in Nat /\ site[g] >= site[g]
      BY IngestionAssumption DEF IngestionInv, TypeOK
    <3>3. Cost(g)' \in Nat /\ Cost(g)' <= Cost(g) BY <1>5, <3>1, <3>2 DEF Cost
    <3> QED BY <1>5, <2>2, <3>2, <3>3, EarnedKept DEF OfferInv
  <2>7. Cost(f) = offers[f] /\ Cost(f)' = offers[f] + 1
    <3>1. ~AboutTo(f) /\ AboutTo(f)' BY <1>1, <1>5, <2>2, Sole DEF Filing
    <3> QED BY <1>5, <3>1 DEF Cost
  <2>8. (UrlOf(f, n) = 0 => offers[f] = 0) /\ offers[f] + 1 <= Cardinality(Urls(f, n))
    <3> DEFINE c == Cardinality(Urls(f, n))
               b == Cardinality(Urls(f, i))
    <3>1. c \in Nat /\ b \in Nat BY <1>3, UrlFacts
    <3>2. Earned(f) BY DEF OfferInv
    <3>3. 1 <= n /\ Urls(f, 0) = {} /\ Cardinality({}) = 0 /\ n \in 1 .. n
      BY <1>3, FS_EmptySet DEF Urls
    <3>4. 1 <= c
      <4>1. Cardinality(Urls(f, 0)) + 1 <= Cardinality(Urls(f, n))
        <5>1. UrlOf(f, n) \notin Urls(f, 0) /\ 0 \in Nat /\ 0 <= n BY <1>3, <3>3
        <5> QED BY <1>3, <3>3, <5>1, MoreUrls
      <4> QED BY <3>1, <3>3, <4>1
    <3>5. CASE i = 0
      <4>1. offers[f] = 0 BY <2>7, <3>2, <3>5 DEF Earned
      <4> QED BY <3>4, <4>1
    <3>6. CASE i # 0
      <4>1. UrlOf(f, n) # 0 /\ UrlOf(f, i) # UrlOf(f, n)
        BY <1>5, <1>7, <3>6 DEF Accepts, UrlOf
      <4>2. i < n
        <5>1. i # n BY <4>1
        <5> HIDE DEF i
        <5> QED BY <1>3, <1>4, <5>1
      <4>3. CASE UrlOf(f, i) = 0
        <5>1. offers[f] <= 1 BY <2>7, <3>2, <3>6, <4>3 DEF Earned
        <5>2. c >= 2
          <6> DEFINE two == {UrlOf(f, i), UrlOf(f, n)}
          <6>1. i \in 1 .. n /\ n \in 1 .. n BY <1>3, <3>6, <4>2
          <6>2. two \subseteq Urls(f, n) BY <6>1 DEF Urls
          <6>3. Cardinality(two) = 2
            <7>1. /\ IsFiniteSet({UrlOf(f, i)}) /\ Cardinality({UrlOf(f, i)}) = 1
                  /\ UrlOf(f, n) \notin {UrlOf(f, i)}
              BY <4>1, FS_Singleton
            <7>2. Cardinality({UrlOf(f, i)} \cup {UrlOf(f, n)}) = 1 + 1 BY <7>1, FS_AddElement
            <7>3. two = {UrlOf(f, i)} \cup {UrlOf(f, n)} OBVIOUS
            <7> HIDE DEF two
            <7> QED BY <7>2, <7>3
          <6>4. IsFiniteSet(Urls(f, n)) BY <1>3, UrlFacts
          <6>5. Cardinality(two) <= c BY <6>2, <6>4, FS_Subset
          <6> QED BY <6>3, <6>5
        <5> QED BY <1>3, <3>1, <4>1, <5>1, <5>2
      <4>4. CASE UrlOf(f, i) # 0
        <5>1. UrlOf(f, n) \notin Urls(f, i) BY <1>3, <3>6, <4>1, <4>2, <4>4, NewUrl
        <5>2. b + 1 <= c
          <6> HIDE DEF b, c, i
          <6> QED BY <1>3, <1>4, <3>3, <5>1, MoreUrls DEF b, c
        <5>3. offers[f] <= b BY <2>7, <3>2, <3>6 DEF Earned
        <5> HIDE DEF b, c, i
        <5>4. offers[f] + 1 <= c BY <1>3, <3>1, <5>2, <5>3
        <5> QED BY <4>1, <5>4 DEF c
      <4> QED BY <4>3, <4>4
    <3> QED BY <3>5, <3>6
  <2>9. Earned(f)'
    <3>1. site'[f] = site[f] /\ n <= site[f] BY <1>4, <1>5
    <3>2. UrlOf(f, n) = 0 => offers[f] + 1 <= 1 BY <1>3, <2>8
    <3> QED BY <1>3, <2>2, <2>7, <2>8, <3>1, <3>2 DEF Earned, Urls, UrlOf
  <2> QED BY <2>5, <2>6, <2>9 DEF OfferInv
<1> QED BY <1>6, <1>7

LEMMA OffersKeep ==
  ASSUME IngestionInv, OfferInv, OneCrawler, UrlsDoNotReturn, [Next]_vars
  PROVE  OfferInv'
<1>0. TypeOK' BY NextKeeps DEF IngestionInv
<1>1. ASSUME NEW p \in Procs,
             \/ ScheduledCrawl(p) \/ ManualCrawl(p) \/ Take(p) \/ Upload(p) \/ Register(p)
             \/ Upsert(p) \/ Link(p) \/ Offer(p) \/ PersistFails(p) \/ Finish(p) \/ Crash(p)
      PROVE  OfferInv'
  BY <1>0, <1>1, BeginOffers, TakeOffers, OtherOffers, UpsertOffers
<1>2. \A f \in Filings : site[f] \in Nat BY DEF IngestionInv, TypeOK
<1>3. CASE NextDay \/ (\E f \in Filings : List(f)) \/ (\E d \in Dockets : Track(d))
  <2>1. UNCHANGED <<row, offers, pc, cur, todo>>
    BY <1>3 DEF NextDay, List, Track, rows, queue, crawler
  <2>2. \A f \in Filings : site'[f] >= site[f]
    <3>1. site' = site \/ \E f \in Filings : site' = [site EXCEPT ![f] = @ + 1]
      BY <1>3 DEF NextDay, List, Track
    <3>2. site \in [Filings -> Nat] BY DEF IngestionInv, TypeOK
    <3> QED BY <1>2, <3>1, <3>2
  <2> QED BY <1>0, <2>1, <2>2, OutsideStep
<1>4. ASSUME UNCHANGED <<row, site, offers, pc, cur, todo>> PROVE OfferInv'
  <2>1. \A f \in Filings : site'[f] >= site[f] BY <1>2, <1>4
  <2> QED BY <1>0, <1>4, <2>1, OutsideStep
<1>5. ASSUME NEW l \in Loops,
             \/ \E f \in Filings : ReadFiling(l, f)
             \/ Skip(l) \/ Triage(l) \/ Dismiss(l) \/ UploadDoc(l) \/ SetKey(l)
             \/ Extract(l) \/ InsertExtraction(l) \/ Raise(l)
      PROVE  UNCHANGED <<row, site, offers, pc, cur, todo>>
  BY <1>5 DEF ReadFiling, Skip, Triage, Dismiss, UploadDoc, SetKey, Extract, InsertExtraction,
              Raise, Settle, world, rows, queue, crawler
<1>6. Sweep => UNCHANGED <<row, site, offers, pc, cur, todo>>
  BY DEF Sweep, world, rows, crawler
<1>7. UNCHANGED vars => UNCHANGED <<row, site, offers, pc, cur, todo>>
  BY DEF vars, world, rows, queue, crawler
<1> QED BY <1>1, <1>3, <1>4, <1>5, <1>6, <1>7 DEF Next

\* Crawls pay for an extraction once per URL of a filing: retries, overlapping
\* windows, manual crawls and kills between the row and the job add none,
\* while one crawl runs at a time and no URL comes back.
THEOREM OneOfferPerUrlHolds ==
  ASSUME OneCrawler, UrlsDoNotReturn
  PROVE  Spec => []OneOfferPerUrl
<1>1. Init => OfferInv
  <2> SUFFICES ASSUME Init PROVE OfferInv OBVIOUS
  <2>1. \A p \in Procs : InOrder(p) BY DEF Init, InOrder
  <2>2. \A f \in Filings : Cost(f) = 0 /\ row[f] = 0 /\ site[f] = 0
    BY DEF Init, Cost, AboutTo
  <2>3. \A f \in Filings : Earned(f) BY <2>2 DEF Earned
  <2> QED BY <2>1, <2>3 DEF OfferInv
<1>2. IngestionInv /\ OfferInv /\ [Next]_vars => OfferInv' BY OffersKeep
<1>3. ASSUME IngestionInv, OfferInv, NEW f \in Filings
      PROVE  offers[f] <= Cardinality(Shown(f))
  <2>1. row[f] \in Nat /\ site[f] \in Nat /\ offers[f] \in Nat /\ row[f] <= site[f]
    BY <1>3, IngestionAssumption DEF IngestionInv, TypeOK, OfferInv, Earned
  <2>2. Shown(f) = Urls(f, site[f]) BY DEF Shown, Urls, UrlOf
  <2>3. /\ Cardinality(Urls(f, row[f])) <= Cardinality(Urls(f, site[f]))
        /\ Cardinality(Urls(f, row[f])) \in Nat /\ Cardinality(Urls(f, site[f])) \in Nat
    BY <2>1, MoreUrls, UrlFacts
  <2>4. offers[f] <= Cost(f) /\ Cost(f) \in Nat BY <2>1 DEF Cost
  <2>5. Earned(f) BY <1>3 DEF OfferInv
  <2> QED BY <2>1, <2>2, <2>3, <2>4, <2>5 DEF Earned
<1>4. IngestionInv /\ OfferInv => OneOfferPerUrl BY <1>3 DEF OneOfferPerUrl
<1> QED BY <1>1, <1>2, <1>4, IngestionInvHolds, PTL DEF Spec
=============================================================================

------------------------------ MODULE Adapters ------------------------------
(***************************************************************************)
(* The source adapters (crawlers/*.py) as their crawl jobs run them: what  *)
(* an adapter asks of its site, one request after the other while the site *)
(* goes on publishing, when it stops, what it makes of an answer that does *)
(* not come or that is not the page it was, and what of its result the     *)
(* persist loop leaves in the database.  One source per behaviour; its job *)
(* runs on every weekday, and again when it raised or was killed.          *)
(* Dates count from 1.  Filings are numbered as they appear, and a site     *)
(* lists the newest date first and the highest number first within one.    *)
(* The adapters drop a row they have seen, so a result is a set; of its    *)
(* order only what the cap keeps is left, and units (dockets, windows,     *)
(* rows) are asked for in an order that is no matter here.                 *)
(***************************************************************************)
EXTENDS Integers, FiniteSets

CONSTANTS
  Sources,      \* the sources to look at
  N,            \* filings
  Dockets,      \* dockets, proceedings, cases or docket prefixes, as numbers
  Watched,      \* the watch set of a source; for NJ BPU the prefixes it queries
  Forms,        \* what a filing of a source may look like
  ElectricNames,\* VA SCC: the cases whose name says that they are electric
  Item,         \* PUCT: the filing item a document belongs to
  PageSize, MaxPages,
  WindowDays, MonthDays, YearDays,
  Lookback,     \* MAX_LOOKBACK_DAYS
  MaxFilings,   \* max_filings of a backfill
  Attempts,     \* of a job
  LastDay, Weekend,
  NoForm

Filings == 1 .. N

ASSUME AdaptersAssumption ==
  /\ Sources \subseteq {"ferc", "cpuc", "njbpu", "mdpsc", "vascc", "imm", "caiso",
                        "ercot-nprr", "ercot-mn", "puct"}
  /\ N \in Nat /\ Dockets \subseteq Nat /\ Weekend \subseteq Int
  /\ Watched \in [Sources -> SUBSET Dockets]
  /\ Forms \in [Sources -> SUBSET [dockets : SUBSET Dockets, utility : BOOLEAN, report : BOOLEAN]]
  /\ \A s \in Sources : NoForm \notin Forms[s] /\ \A x \in Forms[s] : x.dockets # {}
  /\ \A n \in {PageSize, MaxPages, WindowDays, MonthDays, YearDays, Attempts, LastDay} :
       n \in Nat \ {0}
  /\ Lookback \in Nat \ {0} /\ MaxFilings \in Nat

VARIABLES
  source,
  day,
  form, filed,       \* of a filing on the site's list: its form, and its date
  stored,            \* external ids with a row in filings
  owed,              \* history: the scheduled crawls that should bring a filing not stored
  torn, clean,       \* history: items stored in part; days with a crawl of no complaint
  pc, daily,         \* the job, and whether it is the scheduler's
  tries, served,     \* today: attempts begun; whether one has ended
  refilled,          \* history: a backfill was asked for
  since, due,        \* the window of this attempt; history: what it should bring
  unread,            \* history: what was on answers that it took for empty
  todo,              \* units still to ask for, one of them in hand
  page, view, got,   \* of that unit: the page, the server's result set, the rows so far
  out, alarm         \* the result so far; whether anything was logged above INFO

site    == <<source, day, form, filed>>
db      == <<stored, owed, torn>>
history == <<clean, due, unread>>
job     == <<daily, tries, served, refilled, since>>
unit    == <<page, view, got>>
vars    == <<site, db, history, pc, job, todo, unit, out, alarm>>

Running  == {"open", "unit", "page", "items", "row", "finalize", "persist"}
Listed   == {f \in Filings : form[f] # NoForm}
Weekdays == (1 .. LastDay) \ Weekend

TypeOK ==
  /\ source \in Sources /\ day \in 1 .. LastDay
  /\ form \in [Filings -> Forms[source] \cup {NoForm}]
  /\ filed \in [Filings -> 0 .. LastDay]
  /\ owed \in [Filings -> SUBSET Weekdays]
  /\ stored \subseteq Listed /\ due \subseteq Listed /\ unread \subseteq Listed
  /\ torn \subseteq {Item[f] : f \in stored} /\ clean \subseteq Weekdays
  /\ pc \in Running \cup {"idle", "done"}
  /\ daily \in BOOLEAN /\ served \in BOOLEAN /\ refilled \in BOOLEAN /\ alarm \in BOOLEAN
  /\ tries \in 0 .. Attempts /\ since \in Int
  /\ page \in 1 .. MaxPages
  /\ view \subseteq Listed /\ got \subseteq Listed /\ out \subseteq Listed
  /\ pc \in {"unit", "page", "row"} => todo # {}

Init ==
  /\ source \in Sources /\ day = 1
  /\ form = [f \in Filings |-> NoForm]
  /\ filed = [f \in Filings |-> 0] /\ owed = [f \in Filings |-> {}]
  /\ stored = {} /\ torn = {} /\ clean = {} /\ due = {} /\ unread = {}
  /\ pc = "idle" /\ daily = FALSE /\ tries = 0 /\ served = FALSE /\ refilled = FALSE
  /\ since = 0 /\ todo = {} /\ page = 1 /\ view = {} /\ got = {}
  /\ out = {} /\ alarm = FALSE

-----------------------------------------------------------------------------
(* The site and the calendar *)

Least(S)    == CHOOSE x \in S : \A y \in S : x <= y
Newer(f, g) == filed[f] > filed[g] \/ (filed[f] = filed[g] /\ f > g)

Period(d, length) == (d - 1) \div length
PeriodEnd(d, length) == Period(d, length) * length

\* The date a site shows: of today or yesterday; of a State of the Market report
\* the end of the last period.
Dates(x) == IF source = "imm" /\ x.report THEN {PeriodEnd(day, YearDays)}
                                           ELSE {d \in {day - 1, day} : d > 0}

\* The documents of one PUCT item appear at once, other filings one by one.
Appearing == LET next == Least(Filings \ Listed)
             IN  IF source = "puct" THEN {f \in Filings : Item[f] = Item[next]} ELSE {next}

\* The scheduled crawls that have a filing of date d in their window: of its day
\* and of the day after, if it is listed by then.  A filing listed after Friday's
\* crawl has none.
Chances(d) == {e \in {d, d + 1} \cap Weekdays : day < e \/ (day = e /\ tries = 0)}

Publish(x, d) ==
  /\ Listed # Filings
  /\ form'  = [f \in Filings |-> IF f \in Appearing THEN x ELSE form[f]]
  /\ filed' = [f \in Filings |-> IF f \in Appearing THEN d ELSE filed[f]]
  /\ owed'  = [f \in Filings |-> IF f \in Appearing THEN Chances(d) ELSE owed[f]]
  /\ UNCHANGED <<source, day, stored, torn, history, pc, job, todo, unit, out, alarm>>

\* A weekday ends with its crawl ended or its attempts spent.
Midnight ==
  /\ day < LastDay /\ pc \in {"idle", "done"}
  /\ day \in Weekend \/ served \/ tries = Attempts
  /\ day' = day + 1 /\ tries' = 0 /\ served' = FALSE
  /\ pc' = "idle" /\ since' = 0 /\ daily' = FALSE
  /\ due' = {} /\ unread' = {} /\ out' = {} /\ alarm' = FALSE
  /\ UNCHANGED <<source, form, filed, db, clean, refilled, todo, unit>>

-----------------------------------------------------------------------------
(* What an adapter answers for *)

Docket(f) == Least(form[f].dockets)

\* The cases of MD and VA whose docket has a row: of what was stored, and others.
Known == Watched[source] \cup {Docket(f) : f \in stored}

\* Electric utilities are known by the filer (MD), by the case name (VA).
ElectricCase(f) == Docket(f) \in ElectricNames

\* Filings the source takes whatever else it has met.
Own(f) ==
  CASE source \in {"ferc", "cpuc", "njbpu"} -> form[f].dockets \cap Watched[source] # {}
    [] source = "mdpsc" -> form[f].utility
    [] source = "vascc" -> ElectricCase(f)
    [] OTHER -> TRUE

\* And in MD and VA those of a case that is known, in MD also of one that a
\* utility files in meanwhile.
Wanted(s) ==
  LET window == {f \in Listed : filed[f] >= s}
  IN  {f \in window :
         \/ Own(f)
         \/ source \in {"mdpsc", "vascc"} /\ Docket(f) \in Known
         \/ source = "mdpsc" /\ \E g \in window : Own(g) /\ Docket(g) = Docket(f)}

-----------------------------------------------------------------------------
(* The jobs *)

\* The windows of at most WindowDays, the months, the years from s to today.
DateWindows(s) == {(s + i * WindowDays) .. Least({s + (i + 1) * WindowDays - 1, day}) :
                     i \in 0 .. Period(day - s + 1, WindowDays)}
Periods(s, length) == {Period(d, length) : d \in s .. day}

\* What is asked of the site, unit by unit; ERCOT and PUCT learn theirs from a
\* first request.
Units(s) ==
  CASE source \in {"ferc", "cpuc", "njbpu"} -> Watched[source]
    [] source = "mdpsc" -> DateWindows(s)
    [] source = "vascc" -> Periods(s, MonthDays)
    [] source = "imm"   -> Periods(s, YearDays) \X BOOLEAN
    [] source = "caiso" -> {"index"}
    [] OTHER -> {}

HasForm == source \in {"cpuc", "njbpu", "ercot-nprr", "ercot-mn", "puct"}

Begin(s, promised, units) ==
  /\ pc \in {"idle", "done"}
  /\ since' = s /\ due' = promised /\ unread' = {}
  /\ todo' = units
  /\ pc' = IF units # {} /\ source \notin {"cpuc", "njbpu"} THEN "unit"
           ELSE IF HasForm THEN "open" ELSE "finalize"
  /\ page' = 1 /\ view' = {} /\ got' = {} /\ out' = {} /\ alarm' = FALSE
  /\ UNCHANGED <<site, db, clean>>

\* The scheduler's since is yesterday, and the lookback can only shorten it.
\* And a since of today.
Since_Today == day
Since == IF Lookback > 1 THEN day - 1 ELSE day - Lookback

Daily ==
  /\ day \notin Weekend /\ ~served /\ tries < Attempts
  /\ Begin(Since, Wanted(day - 1), Units(Since))
  /\ daily' = TRUE /\ tries' = tries + 1
  /\ UNCHANGED <<served, refilled>>

\* With max_filings the date asked for is taken as it is; PUCT's is for one
\* control number.  ERCOT and CAISO take none.
Backfill ==
  /\ ~refilled /\ source \notin {"caiso", "ercot-nprr", "ercot-mn"}
  /\ IF source = "puct"
     THEN \E d \in Dockets : Begin(1, {f \in Wanted(1) : Docket(f) = d}, {d})
     ELSE Begin(1, Wanted(1), Units(1))
  /\ daily' = FALSE /\ refilled' = TRUE
  /\ UNCHANGED <<tries, served>>

\* What is in hand is over: its rows join the result, and what it lost the record.
InHand == CHOOSE u \in todo : TRUE
Advance(rows, lost, warned, here, over) ==
  /\ out'  = out \cup rows
  /\ unread' = unread \cup lost
  /\ todo' = todo \ {InHand}
  /\ pc'   = IF todo' # {} THEN here ELSE over
  /\ page' = 1 /\ view' = {} /\ got' = {}
  /\ alarm' = (alarm \/ warned)
  /\ UNCHANGED <<site, db, clean, due, job>>

EndUnit(rows, lost, warned) ==
  Advance(rows, lost, warned, "unit", IF source = "puct" THEN "items" ELSE "finalize")
EndRow(rows, lost, warned) == Advance(rows, lost, warned, "row", "finalize")

\* The rows of an answer, and those of one that ends before it has brought the
\* rows it was asked for.
NextUnit(rows, warned) == EndUnit(rows, {}, warned)
PassOver(rows, asked, warned) == EndUnit(rows, asked \ rows, warned)
NextRow(rows, warned) == EndRow(rows, {}, warned)

Turn(rows, set) ==
  /\ pc' = IF source = "ferc" THEN "unit" ELSE "page"
  /\ page' = page + 1 /\ got' = rows /\ view' = set
  /\ UNCHANGED <<site, db, history, job, todo, out, alarm>>

\* The n-th page of what a request finds.
Position(f, hits) == Cardinality({g \in hits : Newer(g, f)})
PageOf(hits, n)   == {f \in hits : Position(f, hits) \in (n - 1) * PageSize .. n * PageSize - 1}

\* The rows of a list that name d; those of the window.
Naming(d)      == {f \in Listed : d \in form[f].dockets}
InWindow(rows) == {f \in rows : filed[f] >= since}

\* What the unit in hand is asked for: a docket or prefix, a window of days, a
\* month, the filings or the reports of a year, an index.
Asked ==
  CASE source \in {"ferc", "cpuc", "njbpu", "puct"} -> InWindow(Naming(InHand))
    [] source = "mdpsc" -> {f \in Listed : filed[f] \in InHand}
    [] source = "vascc" -> InWindow({f \in Listed : Period(filed[f], MonthDays) = InHand})
    [] source = "imm"   -> InWindow({f \in Listed : /\ form[f].report = InHand[2]
                                                    /\ Period(filed[f], YearDays) = InHand[1]})
    [] OTHER -> InWindow(Listed)

\* A unit of a source whose answer holds none of it, and nobody says so.
Nothing(s) == source = s /\ pc = "unit" /\ PassOver({}, Asked, FALSE)

-----------------------------------------------------------------------------
(* FERC: the live list of a docket, newest first, page by page *)

\* A short page, or as many rows, repeats included, as the site counts by now,
\* or a last row from before the window.
FercLast(batch, hits) ==
  \/ Cardinality(batch) < PageSize
  \/ (page - 1) * PageSize + Cardinality(batch) >= Cardinality(hits)
  \/ \E f \in batch : filed[f] < since

FercPage ==
  /\ source = "ferc" /\ pc = "unit"
  /\ LET hits  == Naming(InHand)
         batch == PageOf(hits, page)
         rows  == got \cup batch
     IN  IF FercLast(batch, hits) \/ page = MaxPages
         THEN NextUnit(InWindow(rows), ~FercLast(batch, hits))
         ELSE Turn(rows, view)

\* An answer whose searchHits are null is a short page.
FercNull == source = "ferc" /\ pc = "unit" /\ PassOver(InWindow(got), Asked, FALSE)

-----------------------------------------------------------------------------
(* CPUC and NJ BPU: a form, then result sets that the server keeps and pages *)

\* The form, or the warm-up request, gives the session.  Without it the
\* adapter returns nothing, and says so.
OpenSession ==
  /\ source \in {"cpuc", "njbpu"} /\ pc = "open"
  /\ \/ pc' = (IF todo = {} THEN "finalize" ELSE "unit") /\ UNCHANGED <<todo, alarm>>
     \/ pc' = "persist" /\ todo' = {} /\ alarm' = TRUE
  /\ UNCHANGED <<site, db, history, job, unit, out>>

\* After a page: CPUC warns at its cap whatever it has, NJ BPU when rows are
\* missing.  NJ BPU also ends, without a word, where rows are missing and the page
\* has no link to the next, or at the cap when the first page showed no count.
\* The date of CPUC's last row stops nothing: the server filters by date.  And
\* CPUC with a page more than the cap.
CpucAfter_OneMore(set, rows, n) ==
  IF Cardinality(rows) < Cardinality(set) /\ n <= MaxPages THEN Turn(rows, set)
                                           ELSE NextUnit(rows, set # {} /\ n > MaxPages)
CpucAfter(set, rows, n) ==
  IF Cardinality(rows) < Cardinality(set) /\ n < MaxPages THEN Turn(rows, set)
                                          ELSE NextUnit(rows, set # {} /\ n >= MaxPages)
NjbpuAfter(set, rows, n) ==
  LET missing == Cardinality(rows) < Cardinality(set)
  IN  \/ ~missing /\ NextUnit(rows, FALSE)
      \/ missing /\ n < MaxPages /\ Turn(rows, set)
      \/ missing /\ n >= MaxPages /\ NextUnit(rows, TRUE)
      \/ missing /\ PassOver(rows, set, FALSE)

\* The server filters by date and proceeding, or prefix, when it is asked.
CpucSearch ==
  /\ source = "cpuc" /\ pc = "unit"
  /\ CpucAfter(Asked, PageOf(Asked, 1), 1)
CpucPage ==
  /\ source = "cpuc" /\ pc = "page"
  /\ CpucAfter(view, got \cup PageOf(view, page), page)

NjbpuSearch ==
  /\ source = "njbpu" /\ pc = "unit"
  /\ NjbpuAfter(Asked, PageOf(Asked, 1), 1)
NjbpuPage ==
  /\ source = "njbpu" /\ pc = "page"
  /\ NjbpuAfter(view, got \cup PageOf(view, page), page)

\* A page that does not come - a 500, a lost viewstate, a pager POST refused
\* twice - leaves the earlier pages.
PageFails == pc = "page" /\ NextUnit(got, TRUE)

\* A first page without a count or without rows is a search that found nothing; a
\* later one without the table of results is the last one.
CpucNothing  == Nothing("cpuc")
CpucNoTable  == source = "cpuc" /\ pc = "page" /\ PassOver(got, view, page >= MaxPages)
NjbpuNothing == Nothing("njbpu")
NjbpuNoTable == source = "njbpu" /\ pc = "page" /\ PassOver(got, view, FALSE)

-----------------------------------------------------------------------------
(* MD PSC and VA SCC: everything filed in a window; IMM and CAISO: index pages *)

MdpscWindow ==
  /\ source = "mdpsc" /\ pc = "unit"
  /\ NextUnit(Asked, FALSE)

\* A whole month, of which the window is kept.
VasccMonth ==
  /\ source = "vascc" /\ pc = "unit"
  /\ NextUnit(Asked, FALSE)

\* Two pages a year: the filings, and the State of the Market reports.
ImmPage(reports) ==
  /\ source = "imm" /\ pc = "unit" /\ InHand[2] = reports
  /\ NextUnit(Asked, FALSE)
ImmFilings == ImmPage(FALSE)
ImmReports == ImmPage(TRUE)

CaisoIndex ==
  /\ source = "caiso" /\ pc = "unit"
  /\ NextUnit(Asked, FALSE)

\* A log without its table, a list without a body, a year that is not found are
\* windows in which nothing was filed.
MdpscNothing == Nothing("mdpsc")
VasccNothing == Nothing("vascc")
ImmNothing   == Nothing("imm")

\* A unit whose request fails, or whose page is seen not to be the page it was,
\* is logged and passed over.
UnitFails ==
  /\ source \in {"cpuc", "njbpu", "mdpsc", "vascc", "imm", "caiso"} /\ pc = "unit"
  /\ NextUnit({}, TRUE)

-----------------------------------------------------------------------------
(* ERCOT: a listing, then a page per row, in one browser *)

\* The listing, a line in the log, or a table with none of its rows.
Listing ==
  /\ pc = "open"
  /\ LET rows == InWindow(Listed)
     IN  \/ /\ todo' = rows /\ UNCHANGED <<unread, alarm>>
            /\ pc' = IF rows = {} THEN "finalize" ELSE "row"
         \/ todo' = {} /\ pc' = "finalize" /\ alarm' = TRUE /\ UNCHANGED unread
         \/ todo' = {} /\ pc' = "finalize" /\ unread' = unread \cup rows /\ UNCHANGED alarm
  /\ UNCHANGED <<site, db, clean, due, job, unit, out>>

\* The document of a row, or nothing of it but a line in the log.
Document == pc = "row" /\ (NextRow({InHand}, FALSE) \/ NextRow({}, TRUE))

NprrListing    == source = "ercot-nprr" /\ Listing
NprrDocument   == source = "ercot-nprr" /\ Document
NoticeListing  == source = "ercot-mn" /\ Listing
NoticeDocument == source = "ercot-mn" /\ Document

-----------------------------------------------------------------------------
(* PUCT: control numbers, their items, the documents of the new ones *)

PuctDockets ==
  /\ source = "puct" /\ pc = "open"
  /\ LET named == {Docket(f) : f \in InWindow(Listed)}
     IN  /\ todo' = named
         /\ pc' = IF named = {} THEN "items" ELSE "unit"
  /\ UNCHANGED <<site, db, history, job, unit, out, alarm>>

\* A page without the table of control numbers is logged and passed over.
PuctNoDockets ==
  /\ source = "puct" /\ pc = "open"
  /\ todo' = {} /\ pc' = "items" /\ alarm' = TRUE
  /\ UNCHANGED <<site, db, history, job, unit, out>>

\* A control number without items is worth a word only when it was asked for.
PuctItems ==
  /\ source = "puct" /\ pc = "unit"
  /\ NextUnit(Asked, ~daily /\ Asked = {})
PuctNoItems ==
  /\ source = "puct" /\ pc = "unit"
  /\ PassOver({}, Asked, ~daily)

\* An item with a document that is stored is not new.
NewItems == {Item[f] : f \in out} \ {Item[f] : f \in stored}

PuctNewItems ==
  /\ source = "puct" /\ pc = "items"
  /\ todo' = NewItems /\ out' = {}
  /\ pc' = IF NewItems = {} THEN "finalize" ELSE "row"
  /\ UNCHANGED <<site, db, history, job, unit, alarm>>

\* The documents of an item, or a page without their table.
Documents == {f \in Listed : Item[f] = InHand}
PuctDocuments   == source = "puct" /\ pc = "row" /\ NextRow(Documents, FALSE)
PuctNoDocuments == source = "puct" /\ pc = "row" /\ EndRow({}, Documents, FALSE)

-----------------------------------------------------------------------------
(* The result, and what run_adapter makes of it *)

\* A case is electric when a utility files in it anywhere in the window, or when
\* it is known.  And when it is known.
MdpscKept_Known(rows) == {f \in rows : Own(f) \/ Docket(f) \in Known}
MdpscKept(rows) ==
  LET electric == Known \cup {Docket(f) : f \in {g \in rows : Own(g)}}
  IN  {f \in rows : Own(f) \/ Docket(f) \in electric}

VasccKept(rows) == {f \in rows : Own(f) \/ Docket(f) \in Known}

Kept == CASE source = "mdpsc" -> MdpscKept(out)
          [] source = "vascc" -> VasccKept(out)
          [] OTHER -> out

\* The states' adapters do not pass over a result of nothing.
Finalize ==
  /\ pc = "finalize" /\ pc' = "persist"
  /\ out' = Kept
  /\ alarm' = (alarm \/ (Kept = {} /\ source \in {"njbpu", "mdpsc", "vascc"}))
  /\ UNCHANGED <<site, db, history, job, todo, unit>>

\* What a cap leaves: of VA SCC's sorted result the newest, of the others' the
\* first as they come.
Whole  == daily \/ Cardinality(out) <= MaxFilings
Capped ==
  IF Whole THEN {out}
  ELSE {C \in SUBSET out :
          /\ Cardinality(C) = MaxFilings
          /\ source = "vascc" => \A f \in C, g \in out \ C : Newer(f, g)}

Partial(S) == {Item[f] : f \in {g \in S : \E h \in Listed \ S : Item[h] = Item[g]}}

\* What is stored is owed no more, what was overlooked not by this day's crawl.
Write(S, spared) ==
  /\ stored' = stored \cup S
  /\ owed' = [f \in Filings |-> IF f \in S THEN {}
                                ELSE IF f \in spared THEN owed[f] \ {day} ELSE owed[f]]
  /\ torn' = torn \cup (IF source = "puct" THEN Partial(stored \cup S) ELSE {})

\* What was on an answer taken for empty and on no other.
Lost == unread \ out

\* Each filing is written or its exception logged; the job is done.
Persist ==
  /\ pc = "persist" /\ pc' = "done"
  /\ \E C \in Capped : \E S \in SUBSET C :
       /\ Write(S, IF daily THEN Lost ELSE {})
       /\ alarm' = (alarm \/ S # C)
  /\ served' = (served \/ daily)
  /\ clean'  = IF daily /\ ~alarm' THEN clean \cup {day} ELSE clean
  /\ UNCHANGED <<site, due, unread, daily, tries, refilled, since, todo, unit, out>>

GiveUp ==
  /\ pc' = "idle" /\ todo' = {} /\ page' = 1 /\ view' = {} /\ got' = {}
  /\ out' = {} /\ alarm' = FALSE /\ due' = {} /\ unread' = {} /\ since' = 0 /\ daily' = FALSE
  /\ UNCHANGED <<site, clean, tries, served, refilled>>

\* A request that failed three times, a browser or a database that does not
\* answer ends the job, and the queue runs it again.
Raises ==
  /\ pc \in Running
  /\ \/ source \in {"ferc", "imm", "caiso", "puct"} \/ pc = "persist"
     \/ source \in {"ercot-nprr", "ercot-mn"} /\ pc = "open"
  /\ GiveUp /\ UNCHANGED db

Kill ==
  /\ pc \in Running
  /\ \E C \in IF pc = "persist" THEN Capped ELSE {{}} : \E S \in SUBSET C : Write(S, {})
  /\ GiveUp

Next ==
  \/ \E x \in Forms[source] : \E d \in Dates(x) : Publish(x, d)
  \/ Midnight \/ Daily \/ Backfill
  \/ FercPage \/ FercNull \/ OpenSession \/ CpucSearch \/ CpucPage \/ CpucNothing
  \/ CpucNoTable \/ NjbpuSearch \/ NjbpuPage \/ NjbpuNothing \/ NjbpuNoTable \/ PageFails
  \/ MdpscWindow \/ MdpscNothing \/ VasccMonth \/ VasccNothing \/ ImmFilings \/ ImmReports
  \/ ImmNothing \/ CaisoIndex \/ UnitFails
  \/ NprrListing \/ NprrDocument \/ NoticeListing \/ NoticeDocument
  \/ PuctDockets \/ PuctNoDockets \/ PuctItems \/ PuctNoItems \/ PuctNewItems
  \/ PuctDocuments \/ PuctNoDocuments
  \/ Finalize \/ Persist \/ Raises \/ Kill

Spec == Init /\ [][Next]_vars

-----------------------------------------------------------------------------
\* The exception to what follows: a PUCT item of which a death, an exception or
\* a cap left a part is taken for done by every later crawl.
Masked(f) == source = "puct" /\ Item[f] \in torn

\* What a crawl without a complaint may miss: what was on an answer it took for
\* empty, and in MD PSC a case that only such filings would have made known.
Overlooked(f) ==
  \/ f \in Lost
  \/ /\ source = "mdpsc" /\ ~Own(f)
     /\ LET makers == {g \in due : Own(g) /\ Docket(g) = Docket(f)}
        IN  makers # {} /\ makers \subseteq Lost

\* A crawl that returns without a word above INFO has stored every filing of its
\* window that the site showed when it began, but for what was on an answer that
\* it took for empty: no page, window, case or repeated row is lost on the way,
\* however the list moves under it.
QuietCrawlIsComplete ==
  pc = "done" /\ ~alarm /\ Whole => \A f \in due : f \in stored \/ Overlooked(f) \/ Masked(f)

\* A filing is missed only when each of its crawls has complained, raised, died or
\* taken the answer with the filing for empty: what one of them leaves behind the
\* next one brings.
MissedOnlyByComplaint ==
  \A f \in Listed : Own(f) /\ owed[f] \cap clean # {} => Masked(f)
=============================================================================

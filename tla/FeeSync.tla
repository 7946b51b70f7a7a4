------------------------------- MODULE FeeSync -------------------------------
(***************************************************************************)
(* Loading the occupation fees from the tax office                         *)
(* (src/src/lib/nextGenLinkage: syncRunner.ts, upsertFee.ts,               *)
(* integrationJobLog.ts, started by useFeeSyncScheduler.ts or by a user).  *)
(*                                                                         *)
(* The tax office cannot list its bills.  A run asks for bill numbers one  *)
(* by one, 1, 2, 3 ..., for every year of a range and for each of two      *)
(* queries, and stops counting after MaxEmpty answers in a row without a   *)
(* bill.  B-1 answers with a bill that is due, B-2 with the receipts of    *)
(* what has been paid on it.  A due bill is a row without a receipt        *)
(* serial; the first receipt that is new turns that row into its own.      *)
(*                                                                         *)
(* The tax office goes on while a run asks: bills are issued and paid      *)
(* between any two answers.  An answer, a write or a log entry may fail,   *)
(* and the server may stop anywhere; what is stored stays.                 *)
(***************************************************************************)
EXTENDS Naturals, FiniteSets

CONSTANTS
  FirstYear,    \* USE_FEE_SYNC_DEFAULT_START_YEAR
  LastYear,     \* bound: the last year the clock reaches
  MaxNumber,    \* bound: the highest bill number of a year
  MaxReceipts,  \* bound: the payments that settle a bill at the latest
  MaxEmpty,     \* USE_FEE_SYNC_MAX_EMPTY_COUNT
  MaxEvents,    \* bound: bills issued and payments made
  MaxFaults     \* bound: failed steps and stops of the server

ASSUME FeeSyncAssumption ==
  /\ {FirstYear, LastYear, MaxNumber, MaxReceipts} \subseteq Nat \ {0}
  /\ FirstYear <= LastYear
  /\ MaxEmpty \in Nat \ {0}
  /\ MaxEvents \in Nat /\ MaxFaults \in Nat

Year == FirstYear..LastYear

\* A bill is known by its year and number.
Bill == Year \X (1..MaxNumber)

\* The serial of a receipt, 0 for a row that has none (rcvmt_sn '').
Serial == 0..MaxReceipts

Row == Bill \X Serial

Query == {"B-1", "B-2"}

VARIABLES
  now,       \* the current year
  issued,    \* the tax office: bills that exist
  due,       \* the tax office: bills with something left to pay
  receipts,  \* the tax office: payments made on each bill
  rows,      \* *_ngl_fee_list: <<bill, serial>>, unique
  pc,        \* where the run stands, "idle" when running is false
  asked,     \* the years a user asked for, {} for the range of the code
  year,      \* fyr: the year being scanned, or to be scanned next
  lastYear,  \* the end of the range
  queries,   \* the queries of this year still to be asked
  query,     \* the query being asked
  number,    \* nextLvyNo
  empty,     \* emptyCount
  failed,    \* yearFail > 0
  items,     \* the answer's items still to be saved
  saved,     \* savedRows > 0
  scanned,   \* history: years whose scan came to its end
  jumped,    \* history: a user asked for a year before the ones below it
  dueThen,   \* history: bills of the year due when its scan began
  paidThen,  \* history: their receipts when its scan began
  complete,  \* history: bills that a scan without failure must have stored
  events,    \* changes at the tax office (bounded by MaxEvents)
  faults     \* failed steps and stops (bounded by MaxFaults)

officeVars == <<now, issued, due, receipts, events>>
scanVars == <<queries, query, number, empty, failed, items, saved, dueThen, paidThen>>
rangeVars == <<asked, year, lastYear>>
historyVars == <<scanned, jumped, complete>>
vars == <<officeVars, rows, pc, rangeVars, scanVars, historyVars, faults>>

PC == {"idle", "years", "begin", "query", "ask", "save", "count", "end", "endFailed"}

TypeOK ==
  /\ now \in Year
  /\ issued \subseteq Bill
  /\ due \subseteq issued
  /\ receipts \in [Bill -> Serial]
  /\ rows \subseteq Row
  /\ pc \in PC
  /\ asked \subseteq Year
  /\ year \in Nat
  /\ lastYear \in Year
  /\ queries \subseteq Query
  /\ query \in Query
  /\ number \in 1..(MaxNumber + MaxEmpty)
  /\ empty \in 0..(MaxEmpty - 1)
  /\ failed \in BOOLEAN
  /\ items \subseteq Serial
  /\ saved \in BOOLEAN
  /\ scanned \subseteq Year
  /\ jumped \in BOOLEAN
  /\ dueThen \subseteq Bill
  /\ paidThen \in [Bill -> Serial]
  /\ complete \subseteq Bill
  /\ events \in 0..MaxEvents
  /\ faults \in 0..MaxFaults

Init ==
  /\ now = FirstYear
  /\ issued = {} /\ due = {}
  /\ receipts = [b \in Bill |-> 0]
  /\ rows = {}
  /\ pc = "idle"
  /\ asked = {} /\ year = FirstYear /\ lastYear = FirstYear
  /\ queries = {} /\ query = "B-1"
  /\ number = 1 /\ empty = 0 /\ failed = FALSE
  /\ items = {} /\ saved = FALSE
  /\ scanned = {} /\ jumped = FALSE
  /\ dueThen = {} /\ paidThen = receipts /\ complete = {}
  /\ events = 0 /\ faults = 0

-----------------------------------------------------------------------------
(* The tax office *)

\* What query q answers for a bill: the bill itself, or its receipts.
Answer(q, b, dues, paid) ==
  IF q = "B-1" THEN IF b \in dues THEN {0} ELSE {}
  ELSE 1..paid[b]

\* A bill of the current year is issued.
Issue(b) ==
  /\ events < MaxEvents
  /\ b[1] = now /\ b \notin issued
  /\ issued' = issued \cup {b} /\ due' = due \cup {b}
  /\ events' = events + 1
  /\ UNCHANGED <<now, receipts, rows, pc, rangeVars, scanVars, historyVars, faults>>

\* A payment is made on a bill, which settles it or leaves a rest.
Pay(b) ==
  /\ events < MaxEvents
  /\ b \in due
  /\ receipts[b] < MaxReceipts
  /\ receipts' = [receipts EXCEPT ![b] = @ + 1]
  /\ due' \in {due \ {b}} \cup (IF receipts'[b] < MaxReceipts THEN {due} ELSE {})
  /\ events' = events + 1
  /\ UNCHANGED <<now, issued, rows, pc, rangeVars, scanVars, historyVars, faults>>

NewYear ==
  /\ now < LastYear
  /\ now' = now + 1
  /\ UNCHANGED <<issued, due, receipts, events, rows, pc, rangeVars, scanVars, historyVars, faults>>

-----------------------------------------------------------------------------
(* A run: runNextGenFeeSync *)

\* The newest year with a row (getMaxStoredFyr).
Stored == {r[1][1] : r \in rows}
Newest(y) == y \in Stored /\ \A z \in Stored : z <= y

Fault == faults < MaxFaults /\ faults' = faults + 1

\* The scheduler's hour has come, or a user asks, with or without a year;
\* refused while a run is going on.
Start ==
  /\ pc = "idle"
  /\ asked' \in {{}} \cup {{y} : y \in Year}
  /\ pc' = "years"
  /\ UNCHANGED <<officeVars, rows, year, lastYear, scanVars, historyVars, faults>>

\* Mutant: a stored year is taken for a finished one.
FirstOfRangeAfterNewest(y) ==
  \/ Stored = {} /\ y = FirstYear
  \/ \E n \in Stored : Newest(n) /\ y = IF n < now THEN n + 1 ELSE now

\* Where the range of resolveFyrList starts: the newest stored year, capped
\* by the current one, or the first year of all when nothing is stored.
FirstOfRange(y) ==
  \/ Stored = {} /\ y = FirstYear
  \/ \E n \in Stored : Newest(n) /\ y = IF n < now THEN n ELSE now

\* Reading the newest year may fail, which counts as nothing stored.
ResolveYears ==
  /\ pc = "years"
  /\ \/ /\ asked # {}
        /\ year' \in asked /\ lastYear' = year'
        /\ jumped' = (jumped \/ \E y \in Year : y < year' /\ y \notin scanned)
        /\ UNCHANGED faults
     \/ /\ asked = {}
        /\ lastYear' = now
        /\ \/ FirstOfRange(year') /\ UNCHANGED faults
           \/ year' = FirstYear /\ Fault
        /\ UNCHANGED jumped
  /\ asked' = {}
  /\ pc' = "begin"
  /\ UNCHANGED <<officeVars, rows, scanVars, scanned, complete>>

\* The next year of the range.  Its job log entry is written and never read:
\* only a failure to write it matters.
BeginYear ==
  /\ pc = "begin"
  /\ year <= lastYear
  /\ queries' = Query
  /\ dueThen' = {b \in due : b[1] = year}
  /\ paidThen' = [b \in Bill |-> IF b[1] = year THEN receipts[b] ELSE 0]
  /\ pc' = "query"
  /\ UNCHANGED <<officeVars, rows, rangeVars, query, number, empty, failed, items, saved, historyVars, faults>>

\* The local variables of a year and of the run go with them.
ScanOver ==
  /\ queries' = {} /\ query' = "B-1"
  /\ number' = 1 /\ empty' = 0 /\ failed' = FALSE
  /\ items' = {} /\ saved' = FALSE
  /\ dueThen' = {} /\ paidThen' = [b \in Bill |-> 0]

RunOver ==
  /\ pc' = "idle"
  /\ asked' = {} /\ year' = FirstYear /\ lastYear' = FirstYear

\* All years done, or the entry cannot be written: running is cleared.
EndRun ==
  /\ pc = "begin"
  /\ \/ year > lastYear /\ UNCHANGED faults
     \/ year <= lastYear /\ Fault
  /\ RunOver
  /\ UNCHANGED <<officeVars, rows, scanVars, historyVars>>

\* Mutant: the count of empty answers goes on from query to query.
BeginQueryCounting ==
  /\ pc = "query"
  /\ query' \in queries
  /\ queries' = queries \ {query'}
  /\ number' = 1
  /\ pc' = "ask"
  /\ UNCHANGED <<officeVars, rows, rangeVars, empty, failed, items, saved, dueThen, paidThen, historyVars, faults>>

\* The queries come in the order of the table, which has none.
BeginQuery ==
  /\ pc = "query"
  /\ query' \in queries
  /\ queries' = queries \ {query'}
  /\ number' = 1 /\ empty' = 0
  /\ pc' = "ask"
  /\ UNCHANGED <<officeVars, rows, rangeVars, failed, items, saved, dueThen, paidThen, historyVars, faults>>

ThisBill == <<year, number>>

\* postNextGenJson: the answer is of the moment it is given.
Ask ==
  /\ pc = "ask"
  /\ items' = IF ThisBill \in Bill THEN Answer(query, ThisBill, due, receipts) ELSE {}
  /\ saved' = FALSE
  /\ pc' = IF items' = {} THEN "count" ELSE "save"
  /\ UNCHANGED <<officeVars, rows, rangeVars, queries, query, number, empty, failed, dueThen, paidThen, historyVars, faults>>

\* No answer, or one that cannot be used: counted as a failure.
AskFails ==
  /\ pc = "ask"
  /\ Fault
  /\ items' = {} /\ saved' = FALSE /\ failed' = TRUE
  /\ pc' = "count"
  /\ UNCHANGED <<officeVars, rows, rangeVars, queries, query, number, empty, dueThen, paidThen, historyVars>>

\* Mutant: the row of an earlier receipt is taken for the due bill's as well.
WithReceiptOverAny(b, k) ==
  IF <<b, k>> \notin rows THEN (rows \ {<<b, j>> : j \in Serial}) \cup {<<b, k>>} ELSE rows

\* upsertReceiptRow: the row of the due bill becomes the receipt's, unless
\* the receipt has a row already.
WithReceipt(b, k) ==
  IF <<b, k>> \notin rows THEN (rows \ {<<b, 0>>}) \cup {<<b, k>>} ELSE rows

\* saveOne, item by item in the order of the answer; upsertArrearsRow for B-1.
Save ==
  /\ pc = "save"
  /\ \E k \in items :
       /\ \A j \in items : k <= j
       /\ items' = items \ {k}
       /\ rows' = IF k = 0 THEN rows \cup {<<ThisBill, 0>>} ELSE WithReceipt(ThisBill, k)
  /\ saved' = TRUE
  /\ pc' = IF items' = {} THEN "count" ELSE "save"
  /\ UNCHANGED <<officeVars, rangeVars, queries, query, number, empty, failed, dueThen, paidThen, historyVars, faults>>

\* A write fails: only when no item of the answer was saved is it counted.
SaveFails ==
  /\ pc = "save"
  /\ Fault
  /\ \E k \in items :
       /\ \A j \in items : k <= j
       /\ items' = items \ {k}
  /\ failed' = (failed \/ (items' = {} /\ ~saved))
  /\ pc' = IF items' = {} THEN "count" ELSE "save"
  /\ UNCHANGED <<officeVars, rows, rangeVars, queries, query, number, empty, saved, dueThen, paidThen, historyVars>>

\* Mutant: the query ends one answer too early.
CountOneLess ==
  /\ pc = "count"
  /\ \/ /\ ~saved /\ empty + 2 = MaxEmpty
        /\ pc' = IF queries = {} THEN "end" ELSE "query"
        /\ UNCHANGED <<number, empty>>
     \/ /\ saved \/ empty + 2 < MaxEmpty
        /\ empty' = IF saved THEN 0 ELSE empty + 1
        /\ number' = number + 1
        /\ pc' = "ask"
  /\ saved' = FALSE
  /\ UNCHANGED <<officeVars, rows, rangeVars, queries, query, failed, items, dueThen, paidThen, historyVars, faults>>

\* Mutant: only a failure ends the query, and no empty answer does.
CountOnlyFailures ==
  /\ pc = "count"
  /\ \/ /\ ~saved /\ empty + 1 = MaxEmpty /\ failed
        /\ pc' = IF queries = {} THEN "end" ELSE "query"
        /\ UNCHANGED <<number, empty>>
     \/ /\ saved \/ empty + 1 < MaxEmpty \/ ~failed
        /\ empty' = IF saved THEN 0 ELSE empty + 1
        /\ number' = number + 1
        /\ pc' = "ask"
  /\ saved' = FALSE
  /\ UNCHANGED <<officeVars, rows, rangeVars, queries, query, failed, items, dueThen, paidThen, historyVars, faults>>

\* emptyCount: a number without a saved item is one more, MaxEmpty of them
\* in a row end the query.
Count ==
  /\ pc = "count"
  /\ \/ /\ ~saved /\ empty + 1 = MaxEmpty
        /\ pc' = IF queries = {} THEN "end" ELSE "query"
        /\ UNCHANGED <<number, empty>>
     \/ /\ saved \/ empty + 1 < MaxEmpty
        /\ empty' = IF saved THEN 0 ELSE empty + 1
        /\ number' = number + 1
        /\ pc' = "ask"
  /\ saved' = FALSE
  /\ UNCHANGED <<officeVars, rows, rangeVars, queries, query, failed, items, dueThen, paidThen, historyVars, faults>>

\* Bills of the year that q answered for from the beginning of the scan on,
\* and that no gap of MaxEmpty numbers hides.
Steady(q) ==
  LET answered == {b \in Bill : /\ b[1] = year
                                /\ Answer(q, b, dueThen, paidThen) # {}
                                /\ Answer(q, b, due, receipts) # {}}
  IN  {b \in answered :
         \A n \in 0..(b[2] - 1) :
           \E m \in (n + 1)..(n + MaxEmpty) : <<year, m>> \in answered}

EndYear ==
  /\ pc = "end"
  /\ complete' = IF failed THEN complete ELSE complete \cup Steady("B-1") \cup Steady("B-2")
  /\ scanned' = scanned \cup {year}
  /\ year' = year + 1
  /\ pc' = "begin"
  /\ ScanOver
  /\ UNCHANGED <<officeVars, rows, asked, lastYear, jumped, faults>>

\* Writing SUCCESS fails: the catch block writes FAILED instead ...
EndYearFails ==
  /\ pc = "end"
  /\ Fault
  /\ pc' = "endFailed"
  /\ UNCHANGED <<officeVars, rows, rangeVars, scanVars, historyVars>>

\* ... or fails as well, and the exception ends the run.
LogFailed ==
  /\ pc = "endFailed"
  /\ scanned' = scanned \cup {year}
  /\ \/ /\ year' = year + 1
        /\ pc' = "begin"
        /\ UNCHANGED <<asked, lastYear, faults>>
     \/ RunOver /\ Fault
  /\ ScanOver
  /\ UNCHANGED <<officeVars, rows, jumped, complete>>

\* The server stops, and forgets the run.
Crash ==
  /\ pc # "idle"
  /\ Fault
  /\ RunOver /\ ScanOver
  /\ UNCHANGED <<officeVars, rows, historyVars>>

-----------------------------------------------------------------------------
Office == NewYear \/ \E b \in Bill : Issue(b) \/ Pay(b)

Run ==
  \/ ResolveYears \/ BeginYear \/ EndRun \/ BeginQuery \/ Ask \/ AskFails
  \/ Save \/ SaveFails \/ Count \/ EndYear \/ EndYearFails \/ LogFailed

Next == Office \/ Start \/ Run \/ Crash

Spec == Init /\ [][Next]_vars

(***************************************************************************)
(* Fairness.  Every await of a run settles.  The scheduler starts a run at *)
(* its hour of every night, unless one of a user is going on: strong       *)
(* fairness says that users do not keep it from starting night after       *)
(* night.  Nothing obliges the tax office, or a fault, to happen.          *)
(***************************************************************************)
StartOfScheduler == Start /\ asked' = {}

FairSpec == Spec /\ SF_vars(StartOfScheduler) /\ WF_vars(Run)

-----------------------------------------------------------------------------
(* Properties *)

\* No year is left out: whatever stops and faults cut a first load short,
\* every year before the newest stored one has been scanned to its end, so
\* that starting at the newest stored year misses none.  The exception is a
\* user who asked for a single later year first.
NoYearLeftOut ==
  ~jumped => \A y \in Stored, z \in Year : z < y => z \in scanned

\* A paid bill is not shown as due: once every receipt of a settled bill has
\* a row, the row of the due bill is gone and does not come back, in
\* whichever order the two queries saw the bill and its payments.  KeepsLedger
\* implies it.
PaidNotShownDue ==
  \A b \in issued \ due :
    (\A k \in 1..receipts[b] : <<b, k>> \in rows) => <<b, 0>> \notin rows

\* A year whose entry reports no failure holds every bill that the tax
\* office answered for throughout the scan, but those behind a gap of
\* MaxEmpty numbers.
ReportedComplete ==
  \A b \in complete : \E k \in Serial : <<b, k>> \in rows

Ledger == INSTANCE FeeLedger

\* All that runs do to the table, from whatever year and in whatever order
\* they ask, cut short or answered late, is to note bills that are due and to
\* write receipts that were issued; no receipt in it is lost or changed.
KeepsLedger == Ledger!Spec

\* Bills the next scan will not ask for: an earlier year than the newest
\* stored one, or behind a gap.
OutOfReach(q, b) ==
  \/ \E y \in Stored : b[1] < y
  \/ \E n \in 0..(b[2] - 1) :
       \A m \in (n + 1)..(n + MaxEmpty) :
         <<b[1], m>> \notin Bill \/ Answer(q, <<b[1], m>>, due, receipts) = {}

\* The tax office falls quiet in the end (MaxEvents, LastYear), and from some
\* moment on no settled bill is shown as due, unless it is out of reach of
\* the query for receipts.
PaymentsArrive ==
  <>[](\A b \in issued \ due : <<b, 0>> \in rows => OutOfReach("B-2", b))

\* Likewise every due bill has its row in the end, or is out of reach of the
\* query for bills.
BillsArrive ==
  <>[](\A b \in due : (\E k \in Serial : <<b, k>> \in rows) \/ OutOfReach("B-1", b))
=============================================================================

---------------------------- MODULE FeeSyncProofs ----------------------------
(***************************************************************************)
(* What FeeSync guarantees for every range of years, number of bills and   *)
(* length of a gap: no year is left out, a paid bill is not shown as due,  *)
(* and a year loaded without a failure holds what its scan could see.      *)
(***************************************************************************)
EXTENDS FeeSync, TLAPS

Asking == pc \in {"ask", "save", "count"}
InYear == pc \in {"query", "ask", "save", "count", "end", "endFailed"}

\* How far the numbers and the years go, and what the variables of a number
\* and of a year mean where they are alive.
Bounds ==
  /\ year >= FirstYear
  /\ InYear => year \in Year
  /\ Asking => /\ query \notin queries
               /\ empty < number
               /\ number <= MaxNumber + 1 + empty
  /\ saved => pc \in {"save", "count"}
  /\ saved \/ pc = "save" => number <= MaxNumber
  /\ pc = "save" => items # {}
  /\ dueThen \subseteq issued
  /\ \A b \in Bill : paidThen[b] <= receipts[b]

Typed == TypeOK /\ Bounds

\* The bills of the year that q answers for, then and now; those of them
\* that no gap hides are Steady(q).
Answered(q) == {b \in Bill : /\ b[1] = year
                             /\ Answer(q, b, dueThen, paidThen) # {}
                             /\ Answer(q, b, due, receipts) # {}}

HasRow(b) == \E k \in Serial : <<b, k>> \in rows

\* q was asked to its end.
Done(q) == q \notin queries /\ (Asking => q # query)

\* How far the loading of a year without a failure has come: below the number
\* everything answered has a row, the last answers counted were empty, and a
\* query asked to its end has left no steady bill out.
Loaded ==
  /\ \A b \in complete : HasRow(b)
  /\ saved => HasRow(ThisBill)
  /\ pc = "end" => queries = {}
  /\ ~failed /\ Asking =>
       /\ \A b \in Answered(query) : b[2] < number => HasRow(b)
       /\ \A m \in (number - empty)..(number - 1) : <<year, m>> \notin Answered(query)
       /\ pc = "count" /\ ~saved => ThisBill \notin Answered(query)
  /\ ~failed /\ InYear /\ pc # "endFailed" =>
       \A q \in Query : Done(q) => \A b \in Steady(q) : HasRow(b)

\* Every year below a stored one, and below the one a run has come to, was
\* scanned to its end.
Years ==
  ~jumped => /\ \A y \in Stored, z \in Year : z < y => z \in scanned
             /\ pc \notin {"idle", "years"} => \A z \in Year : z < year => z \in scanned

\* A receipt still to be written.
Unwritten(b) == \E k \in 1..receipts[b] : <<b, k>> \notin rows

\* Rows are of bills and payments that exist, and the row of a due bill is
\* there only as long as the bill is due or a receipt is still to replace it;
\* so it is with the item of a due bill on its way to the table.
DueRows ==
  /\ \A b \in Bill, k \in Serial : k > receipts[b] => <<b, k>> \notin rows
  /\ \A b \in Bill : <<b, 0>> \in rows => b \in issued
  /\ \A b \in issued \ due : <<b, 0>> \in rows => Unwritten(b)
  /\ pc = "save" =>
       /\ \A k \in items : k <= receipts[ThisBill]
       /\ 0 \in items => /\ items = {0}
                         /\ ThisBill \in issued
                         /\ ThisBill \in due \/ Unwritten(ThisBill)

USE DEF officeVars, scanVars, rangeVars, historyVars

-----------------------------------------------------------------------------
(* Types *)

LEMMA InitType == Init => Typed
<1> SUFFICES ASSUME Init PROVE Typed
  OBVIOUS
<1>1. receipts \in [Bill -> Serial] /\ paidThen = receipts /\ \A b \in Bill : receipts[b] = 0
  BY FeeSyncAssumption DEF Init, Serial
<1>2. FirstYear \in Year /\ now = FirstYear /\ year = FirstYear /\ lastYear = FirstYear
  BY FeeSyncAssumption DEF Init, Year
<1>3. number \in 1..(MaxNumber + MaxEmpty) /\ empty \in 0..(MaxEmpty - 1)
  BY FeeSyncAssumption DEF Init
<1>4. events \in 0..MaxEvents /\ faults \in 0..MaxFaults
  BY FeeSyncAssumption DEF Init
<1>5. TypeOK
  BY <1>1, <1>2, <1>3, <1>4, FeeSyncAssumption DEF Init, TypeOK, PC, Query
<1>6. Bounds
  BY <1>1, <1>2, FeeSyncAssumption DEF Init, Bounds, Asking, InYear
<1> QED
  BY <1>5, <1>6 DEF Typed

LEMMA OfficeType == ASSUME Typed, Office PROVE Typed'
<1>1. CASE NewYear
  BY <1>1, FeeSyncAssumption DEF NewYear, Typed, TypeOK, Bounds, Year, Asking, InYear
<1>2. ASSUME NEW b \in Bill, Issue(b) PROVE Typed'
  BY <1>2, FeeSyncAssumption DEF Issue, Typed, TypeOK, Bounds, Asking, InYear
<1>3. ASSUME NEW b \in Bill, Pay(b) PROVE Typed'
  <2>1. receipts' \in [Bill -> Serial] /\ \A a \in Bill : paidThen[a] <= receipts'[a]
    BY <1>3, FeeSyncAssumption DEF Pay, Typed, TypeOK, Bounds, Serial
  <2>2. due' \subseteq issued /\ events' \in 0..MaxEvents
    BY <1>3, FeeSyncAssumption DEF Pay, Typed, TypeOK
  <2> QED
    BY <1>3, <2>1, <2>2 DEF Pay, Typed, TypeOK, Bounds, Asking, InYear
<1> QED
  BY <1>1, <1>2, <1>3 DEF Office

\* The variables of a year are typed when they are given up.
LEMMA OverType ==
  ASSUME ScanOver
  PROVE  /\ queries' \subseteq Query /\ query' \in Query
         /\ number' \in 1..(MaxNumber + MaxEmpty) /\ empty' \in 0..(MaxEmpty - 1)
         /\ failed' = FALSE /\ items' = {} /\ saved' = FALSE
         /\ dueThen' = {} /\ paidThen' \in [Bill -> Serial]
         /\ \A b \in Bill : paidThen'[b] = 0
BY FeeSyncAssumption DEF ScanOver, Query, Serial

LEMMA RangeType == ASSUME Typed, Start \/ ResolveYears \/ BeginYear \/ EndRun PROVE Typed'
<1> USE FeeSyncAssumption DEF Typed, TypeOK, Bounds, Year, PC, Asking, InYear
<1>1. CASE Start
  BY <1>1 DEF Start
<1>2. CASE ResolveYears
  <2>1. Stored \subseteq Year
    BY DEF Stored, Row, Bill
  <2>2. ASSUME FirstOfRange(year') PROVE year' \in Year
    BY <2>1, <2>2 DEF FirstOfRange
  <2>3. year' \in Year /\ lastYear' \in Year
    <3>1. FirstYear \in Year /\ now \in Year /\ asked \subseteq Year
      OBVIOUS
    <3> QED
      BY <1>2, <2>2, <3>1, Zenon DEF ResolveYears
  <2>9. jumped' \in BOOLEAN
    <3>1. jumped \in BOOLEAN
      OBVIOUS
    <3> QED
      BY <1>2, <3>1, Zenon DEF ResolveYears
  <2>4. faults' \in 0..MaxFaults
    BY <1>2 DEF ResolveYears, Fault
  <2>5. /\ asked' = {} /\ pc' = "begin"
        /\ UNCHANGED <<officeVars, rows, scanVars, scanned, complete>>
    BY <1>2 DEF ResolveYears
  <2>6. saved = FALSE
    BY <1>2 DEF ResolveYears
  <2>7. TypeOK'
    BY <2>3, <2>4, <2>5, <2>9
  <2>8. Bounds'
    BY <2>3, <2>5, <2>6
  <2> QED
    BY <2>7, <2>8
<1>3. CASE BeginYear
  BY <1>3 DEF BeginYear, Bill, Serial
<1>4. CASE EndRun
  BY <1>4 DEF EndRun, RunOver, Fault
<1> QED
  BY <1>1, <1>2, <1>3, <1>4

LEMMA NumberType ==
  ASSUME Typed, BeginQuery \/ Ask \/ AskFails \/ Save \/ SaveFails \/ Count
  PROVE  Typed'
<1> USE FeeSyncAssumption DEF Typed, TypeOK, Bounds, PC, Asking, InYear
<1>1. CASE BeginQuery
  BY <1>1 DEF BeginQuery
<1>2. CASE Ask
  <2>1. receipts \in [Bill -> Serial] /\ due \subseteq Bill
    OBVIOUS
  <2>2. items' \subseteq Serial
    <3>1. CASE ThisBill \in Bill
      <4>1. receipts[ThisBill] \in 0..MaxReceipts
        BY <2>1, <3>1 DEF Serial
      <4>2. Answer(query, ThisBill, due, receipts) \subseteq Serial
        BY <4>1 DEF Answer, Serial
      <4> QED
        BY <1>2, <3>1, <4>2 DEF Ask
    <3> QED
      BY <1>2, <3>1 DEF Ask
  <2>3. ThisBill \in Bill <=> number <= MaxNumber
    BY <1>2 DEF Ask, ThisBill, Bill
  <2> QED
    BY <1>2, <2>2, <2>3 DEF Ask
<1>3. CASE AskFails
  <2>1. faults' \in 0..MaxFaults
    BY <1>3 DEF AskFails, Fault
  <2>2. /\ pc = "ask" /\ pc' = "count" /\ items' = {} /\ saved' = FALSE /\ failed' = TRUE
        /\ UNCHANGED <<officeVars, rows, rangeVars, queries, query, number, empty, dueThen, paidThen, historyVars>>
    BY <1>3 DEF AskFails
  <2>3. TypeOK'
    BY <2>1, <2>2
  <2>4. Bounds'
    BY <2>2
  <2> QED
    BY <2>3, <2>4
<1>4. CASE Save
  <2>1. ThisBill \in Bill
    BY <1>4 DEF Save, ThisBill, Bill
  <2>2. PICK k \in items : /\ items' = items \ {k}
                           /\ rows' = IF k = 0 THEN rows \cup {<<ThisBill, 0>>} ELSE WithReceipt(ThisBill, k)
    BY <1>4 DEF Save
  <2>3. rows' \subseteq Row
    BY <2>1, <2>2 DEF WithReceipt, Row, Serial
  <2>4. pc' \in {"save", "count"} /\ items' \subseteq Serial /\ (pc' = "save" => items' # {})
    BY <1>4, <2>2 DEF Save
  <2>5. /\ pc = "save" /\ saved' = TRUE
        /\ UNCHANGED <<officeVars, rangeVars, queries, query, number, empty, failed, dueThen, paidThen, historyVars, faults>>
    BY <1>4 DEF Save
  <2>6. TypeOK'
    BY <2>3, <2>4, <2>5
  <2>7. Bounds'
    BY <2>4, <2>5
  <2> QED
    BY <2>6, <2>7
<1>5. CASE SaveFails
  <2>1. failed' \in BOOLEAN
    BY <1>5, Zenon DEF SaveFails
  <2>2. /\ items' \subseteq items /\ pc = "save" /\ pc' \in {"save", "count"}
        /\ pc' = "save" => items' # {}
        /\ UNCHANGED <<officeVars, rows, rangeVars, queries, query, number, empty, saved, dueThen, paidThen, historyVars>>
    BY <1>5 DEF SaveFails
  <2>3. faults' \in 0..MaxFaults
    BY <1>5 DEF SaveFails, Fault
  <2>4. TypeOK'
    BY <2>1, <2>2, <2>3
  <2>5. Bounds'
    BY <2>2
  <2> QED
    BY <2>4, <2>5
<1>6. CASE Count
  <2>1. /\ pc = "count" /\ saved' = FALSE
        /\ UNCHANGED <<officeVars, rows, rangeVars, queries, query, failed, items, dueThen, paidThen, historyVars, faults>>
    BY <1>6 DEF Count
  <2>2. CASE pc' \in {"end", "query"} /\ UNCHANGED <<number, empty>>
    BY <2>1, <2>2
  <2>3. CASE /\ saved \/ empty + 1 < MaxEmpty
             /\ empty' = (IF saved THEN 0 ELSE empty + 1)
             /\ number' = number + 1
             /\ pc' = "ask"
    <3>1. /\ number' \in 1..(MaxNumber + MaxEmpty) /\ empty' \in 0..(MaxEmpty - 1)
          /\ empty' < number' /\ number' <= MaxNumber + 1 + empty'
      BY <2>1, <2>3
    <3>2. TypeOK'
      BY <2>1, <2>3, <3>1
    <3>3. Bounds'
      BY <2>1, <2>3, <3>1
    <3> QED
      BY <3>2, <3>3
  <2> QED
    BY <1>6, <2>2, <2>3 DEF Count
<1> QED
  BY <1>1, <1>2, <1>3, <1>4, <1>5, <1>6

LEMMA EndType ==
  ASSUME Typed, EndYear \/ EndYearFails \/ LogFailed \/ Crash
  PROVE  Typed'
<1> USE FeeSyncAssumption DEF Typed, TypeOK, Bounds, PC, Asking, InYear
<1>0. receipts \in [Bill -> Serial] /\ \A b \in Bill : receipts[b] >= 0
  BY DEF Serial
<1>1. CASE EndYear
  <2>1. complete' \subseteq Bill
    BY <1>1 DEF EndYear, Steady
  <2>2. UNCHANGED <<officeVars, rows, asked, lastYear, jumped, faults>>
    BY <1>1 DEF EndYear
  <2>3. year' \in Nat /\ year' >= FirstYear /\ scanned' \subseteq Year /\ pc' = "begin"
    BY <1>1 DEF EndYear, Year
  <2>4. ScanOver
    BY <1>1 DEF EndYear
  <2>5. TypeOK'
    BY <2>1, <2>2, <2>3, <2>4, OverType
  <2>6. Bounds'
    BY <1>0, <2>2, <2>3, <2>4, OverType
  <2> QED
    BY <2>5, <2>6
<1>2. CASE EndYearFails
  BY <1>2 DEF EndYearFails, Fault
<1>3. CASE LogFailed
  <2>1. UNCHANGED <<officeVars, rows, jumped, complete>> /\ pc' \in {"idle", "begin"}
    BY <1>3 DEF LogFailed, RunOver
  <2>2. /\ year' \in Nat /\ year' >= FirstYear /\ lastYear' \in Year /\ asked' \subseteq Year
        /\ scanned' \subseteq Year /\ faults' \in 0..MaxFaults
    <3>1. year \in Year /\ FirstYear \in Year
      BY <1>3 DEF LogFailed, Year
    <3>2. CASE year' = year + 1 /\ UNCHANGED <<asked, lastYear, faults>>
      BY <1>3, <3>1, <3>2 DEF LogFailed, Year
    <3>3. CASE RunOver /\ Fault
      BY <1>3, <3>1, <3>3 DEF LogFailed, RunOver, Fault, Year
    <3> QED
      BY <1>3, <3>2, <3>3 DEF LogFailed
  <2>3. ScanOver
    BY <1>3 DEF LogFailed
  <2>4. TypeOK'
    BY <2>1, <2>2, <2>3, OverType
  <2>5. Bounds'
    BY <1>0, <2>1, <2>2, <2>3, OverType
  <2> QED
    BY <2>4, <2>5
<1>4. CASE Crash
  <2>1. UNCHANGED <<officeVars, rows, scanned, jumped, complete>> /\ pc' = "idle"
    BY <1>4 DEF Crash, RunOver
  <2>2. /\ year' \in Nat /\ year' >= FirstYear /\ lastYear' \in Year /\ asked' \subseteq Year
        /\ faults' \in 0..MaxFaults
    BY <1>4 DEF Crash, RunOver, Fault, Year
  <2> QED
    BY <1>4, <1>0, <2>1, <2>2, OverType DEF Crash
<1> QED
  BY <1>1, <1>2, <1>3, <1>4

LEMMA StepType == Typed /\ [Next]_vars => Typed'
<1>1. Typed /\ UNCHANGED vars => Typed'
  BY DEF vars, Typed, TypeOK, Bounds, Asking, InYear
<1> QED
  BY <1>1, OfficeType, RangeType, NumberType, EndType DEF Next, Run

\* Every variable keeps to its type.
THEOREM TypeCorrect == Spec => []TypeOK
<1>1. Spec => []Typed
  BY InitType, StepType, PTL DEF Spec
<1> QED
  BY <1>1, PTL DEF Typed

-----------------------------------------------------------------------------
(* Years *)

LEMMA YearsStay ==
  ASSUME Years, Stored' \subseteq Stored, scanned \subseteq scanned', jumped' = jumped,
         pc' \in {"idle", "years"} \/ (pc \notin {"idle", "years"} /\ year' = year)
  PROVE  Years'
BY DEF Years

LEMMA StepYears == Typed /\ Years /\ [Next]_vars => Years'
<1> SUFFICES ASSUME Typed, Years, [Next]_vars PROVE Years'
  OBVIOUS
<1>1. CASE UNCHANGED vars \/ Office
  BY <1>1, YearsStay DEF vars, Office, NewYear, Issue, Pay, Stored
<1>2. CASE Start \/ BeginYear \/ EndRun \/ BeginQuery \/ Ask \/ AskFails \/ SaveFails
             \/ Count \/ EndYearFails \/ Crash
  <2>1. UNCHANGED <<rows, scanned, jumped>>
    BY <1>2 DEF Start, BeginYear, EndRun, BeginQuery, Ask, AskFails, SaveFails, Count,
                EndYearFails, Crash
  <2>2. pc' \in {"idle", "years"} \/ (pc \notin {"idle", "years"} /\ year' = year)
    BY <1>2 DEF Start, BeginYear, EndRun, BeginQuery, Ask, AskFails, SaveFails, Count,
                EndYearFails, Crash, RunOver
  <2> QED
    BY <2>1, <2>2, YearsStay DEF Stored
<1>3. CASE ResolveYears
  <2>1. /\ Stored' = Stored /\ scanned' = scanned
        /\ Stored \subseteq Year /\ now \in Year /\ Year \subseteq Nat
    BY <1>3, FeeSyncAssumption DEF ResolveYears, Stored, Typed, TypeOK, Row, Bill, Year
  <2>2. CASE asked # {}
    BY <1>3, <2>1, <2>2 DEF ResolveYears, Years
  <2>3. CASE asked = {} /\ year' = FirstYear
    BY <1>3, <2>1, <2>3, FeeSyncAssumption DEF ResolveYears, Years, Year
  <2>4. CASE asked = {} /\ FirstOfRange(year')
    <3>1. CASE Stored = {}
      BY <2>3, <2>4, <3>1 DEF FirstOfRange
    <3>2. ASSUME NEW n \in Stored, year' = IF n < now THEN n ELSE now PROVE Years'
      <4>1. year' <= n
        BY <2>1, <3>2
      <4> QED
        BY <1>3, <2>1, <2>4, <3>2, <4>1 DEF ResolveYears, Years
    <3> QED
      BY <2>4, <3>1, <3>2 DEF FirstOfRange
  <2> QED
    BY <1>3, <2>2, <2>3, <2>4 DEF ResolveYears
<1>4. CASE Save
  <2>1. Stored' \subseteq Stored \cup {year}
    BY <1>4 DEF Save, WithReceipt, Stored, ThisBill
  <2> QED
    BY <1>4, <2>1 DEF Save, Years
<1>5. CASE EndYear \/ LogFailed
  <2>1. /\ Stored' = Stored /\ jumped' = jumped /\ scanned' = scanned \cup {year}
        /\ pc' = "idle" \/ year' = year + 1
        /\ pc \notin {"idle", "years"} /\ year \in Nat
    BY <1>5 DEF EndYear, LogFailed, RunOver, Stored, Typed, TypeOK
  <2> QED
    BY <2>1, FeeSyncAssumption DEF Years, Year
<1> QED
  BY <1>1, <1>2, <1>3, <1>4, <1>5 DEF Next, Run

\* No year below the newest stored one is left unscanned, unless a user
\* asked for a later one first.
THEOREM NoYearIsLeftOut == Spec => []NoYearLeftOut
<1>1. Init => Typed /\ Years
  BY InitType DEF Init, Years, Stored
<1>2. Typed /\ Years /\ [Next]_vars => (Typed /\ Years)'
  BY StepType, StepYears
<1>3. Years => NoYearLeftOut
  BY DEF Years, NoYearLeftOut
<1> QED
  BY <1>1, <1>2, <1>3, PTL DEF Spec

-----------------------------------------------------------------------------
(* Paid bills *)

LEMMA DueStays ==
  ASSUME DueRows, UNCHANGED <<issued, due, receipts, rows>>,
         pc' # "save" \/ (pc = "save" /\ items' \subseteq items /\ UNCHANGED ThisBill)
  PROVE  DueRows'
<1>1. CASE pc' # "save"
  BY <1>1 DEF DueRows, Unwritten
<1>2. CASE pc = "save" /\ items' \subseteq items /\ UNCHANGED ThisBill
  BY <1>2, Zenon DEF DueRows, Unwritten
<1> QED
  BY <1>1, <1>2

LEMMA StepDue == Typed /\ DueRows /\ [Next]_vars => DueRows'
<1> SUFFICES ASSUME Typed, DueRows, [Next]_vars PROVE DueRows'
  OBVIOUS
<1>0. /\ receipts \in [Bill -> Serial] /\ due \subseteq issued /\ issued \subseteq Bill
      /\ items \subseteq Serial /\ rows \subseteq Row
      /\ pc = "save" => ThisBill \in Bill
  BY DEF Typed, TypeOK, Bounds, ThisBill, Bill, InYear
<1>1. CASE UNCHANGED vars \/ NewYear
  BY <1>1, DueStays DEF vars, NewYear, ThisBill
<1>2. ASSUME NEW a \in Bill, Issue(a) PROVE DueRows'
  <2>1. /\ issued' = issued \cup {a} /\ due' = due \cup {a}
        /\ UNCHANGED <<receipts, rows, pc, items, ThisBill>>
    BY <1>2 DEF Issue, ThisBill
  <2> QED
    BY <2>1 DEF DueRows, Unwritten
<1>3. ASSUME NEW a \in Bill, Pay(a) PROVE DueRows'
  <2>1. /\ receipts[a] < MaxReceipts /\ receipts' = [receipts EXCEPT ![a] = receipts[a] + 1]
        /\ due \ {a} \subseteq due' /\ due' \subseteq due
        /\ UNCHANGED <<issued, rows, pc, items, ThisBill>>
    BY <1>3 DEF Pay, ThisBill
  <2>2. receipts[a] \in Nat /\ receipts'[a] = receipts[a] + 1 /\ receipts'[a] \in Serial
    BY <1>0, <2>1, FeeSyncAssumption DEF Serial
  <2>3. \A b \in Bill : b # a => receipts'[b] = receipts[b]
    BY <1>0, <2>1
  <2>4. <<a, receipts'[a]>> \notin rows
    BY <2>2 DEF DueRows
  <2>5. Unwritten(a)'
    BY <2>1, <2>2, <2>4 DEF Unwritten
  <2>6. \A b \in Bill : Unwritten(b) => Unwritten(b)'
    BY <2>1, <2>3, <2>5 DEF Unwritten
  <2>7. \A b \in Bill, k \in Serial : k > receipts'[b] => k > receipts[b]
    BY <1>0, <2>2, <2>3, FeeSyncAssumption DEF Serial
  <2>8. \A b \in issued' \ due' : <<b, 0>> \in rows' => Unwritten(b)'
    BY <1>0, <2>1, <2>5, <2>6 DEF DueRows
  <2>9. ASSUME pc = "save" PROVE \A k \in items : k <= receipts'[ThisBill]
    BY <1>0, <2>2, <2>3, <2>9, FeeSyncAssumption DEF DueRows, Serial
  <2>10. ASSUME pc = "save", 0 \in items
         PROVE  items = {0} /\ ThisBill \in issued /\ (ThisBill \in due' \/ Unwritten(ThisBill)')
    <3>1. ThisBill \in due \/ Unwritten(ThisBill)
      BY <2>10 DEF DueRows
    <3>2. ThisBill = a \/ ThisBill \in due' \/ Unwritten(ThisBill)'
      BY <1>0, <2>1, <2>6, <2>10, <3>1 DEF Unwritten
    <3>3. ThisBill = a => Unwritten(ThisBill)'
      BY <2>1, <2>5 DEF Unwritten
    <3> QED
      BY <2>10, <3>2, <3>3 DEF DueRows
  <2> QED
    BY <2>1, <2>7, <2>8, <2>9, <2>10 DEF DueRows, Unwritten
<1>4. CASE Start \/ ResolveYears \/ BeginYear \/ EndRun \/ BeginQuery \/ AskFails \/ SaveFails
             \/ Count \/ EndYear \/ EndYearFails \/ LogFailed \/ Crash
  <2>1. UNCHANGED <<issued, due, receipts, rows>>
    BY <1>4 DEF Start, ResolveYears, BeginYear, EndRun, BeginQuery, AskFails, SaveFails, Count,
                EndYear, EndYearFails, LogFailed, Crash
  <2>2. pc' # "save" \/ (pc = "save" /\ items' \subseteq items /\ UNCHANGED ThisBill)
    BY <1>4 DEF Start, ResolveYears, BeginYear, EndRun, BeginQuery, AskFails, SaveFails, Count,
                EndYear, EndYearFails, LogFailed, Crash, RunOver, ThisBill
  <2> QED
    BY <2>1, <2>2, DueStays
<1>5. CASE Ask
  <2>1. UNCHANGED <<issued, due, receipts, rows, ThisBill>>
    BY <1>5 DEF Ask, ThisBill
  <2>2. CASE items' = {}
    BY <1>5, <2>1, <2>2, DueStays DEF Ask
  <2>3. CASE items' # {}
    <3>1. ThisBill \in Bill /\ items' = Answer(query, ThisBill, due, receipts)
      BY <1>5, <2>3 DEF Ask
    <3>2. receipts[ThisBill] \in Nat
      BY <1>0, <3>1, FeeSyncAssumption DEF Serial
    <3>3. \/ items' = {0} /\ ThisBill \in due
          \/ items' = 1..receipts[ThisBill]
      BY <2>3, <3>1 DEF Answer
    <3>4. \A k \in items' : k <= receipts[ThisBill]
      BY <3>2, <3>3
    <3>5. 0 \in items' => items' = {0} /\ ThisBill \in due /\ ThisBill \in issued
      BY <1>0, <3>2, <3>3
    <3> QED
      BY <2>1, <3>4, <3>5, Zenon DEF DueRows, Unwritten
  <2> QED
    BY <2>2, <2>3
<1>6. CASE Save
  <2>1. UNCHANGED <<issued, due, receipts, ThisBill>> /\ pc = "save" /\ ThisBill \in Bill
    BY <1>0, <1>6 DEF Save, ThisBill
  <2>2. PICK k \in items :
          /\ \A j \in items : k <= j
          /\ items' = items \ {k}
          /\ rows' = IF k = 0 THEN rows \cup {<<ThisBill, 0>>} ELSE WithReceipt(ThisBill, k)
    BY <1>6 DEF Save
  <2>3. CASE k = 0
    <3>1. items' = {} /\ ThisBill \in issued /\ (ThisBill \in due \/ Unwritten(ThisBill))
      BY <2>1, <2>2, <2>3 DEF DueRows
    <3>2. rows' = rows \cup {<<ThisBill, 0>>}
      BY <2>2, <2>3
    <3>3. \A b \in Bill : Unwritten(b) => Unwritten(b)'
      BY <2>1, <3>2 DEF Unwritten
    <3>4. \A b \in issued' \ due' : <<b, 0>> \in rows' => Unwritten(b)'
      BY <1>0, <2>1, <3>1, <3>2, <3>3 DEF DueRows
    <3>5. \A b \in Bill, j \in Serial : j > receipts'[b] => <<b, j>> \notin rows'
      BY <1>0, <2>1, <3>2, FeeSyncAssumption DEF DueRows, Serial
    <3>6. \A b \in Bill : <<b, 0>> \in rows' => b \in issued'
      BY <2>1, <3>1, <3>2 DEF DueRows
    <3> QED
      BY <3>1, <3>4, <3>5, <3>6 DEF DueRows
  <2>4. CASE k # 0
    <3>1. rows' = WithReceipt(ThisBill, k) /\ k \in Serial /\ k <= receipts[ThisBill]
      BY <1>0, <2>1, <2>2, <2>4 DEF DueRows
    <3>2. 0 \notin items'
      BY <1>0, <2>2, <2>4, FeeSyncAssumption DEF Serial
    <3>3. \A j \in items' : j <= receipts'[ThisBill]
      BY <2>1, <2>2 DEF DueRows
    <3>4. \A b \in Bill, j \in Serial : <<b, j>> \in rows' => <<b, j>> \in rows \/ (b = ThisBill /\ j = k)
      BY <3>1 DEF WithReceipt
    <3>5. \A b \in Bill : <<b, 0>> \in rows' => <<b, 0>> \in rows
      BY <2>4, <3>1 DEF WithReceipt
    <3>6. rows' = rows \/ <<ThisBill, 0>> \notin rows'
      BY <2>4, <3>1 DEF WithReceipt
    <3>7. \A b \in Bill : b # ThisBill /\ Unwritten(b) => Unwritten(b)'
      BY <2>1, <3>1 DEF Unwritten, WithReceipt
    <3>8. \A b \in issued' \ due' : <<b, 0>> \in rows' => Unwritten(b)'
      BY <1>0, <2>1, <3>5, <3>6, <3>7 DEF DueRows, Unwritten
    <3>9. \A b \in Bill, j \in Serial : j > receipts'[b] => <<b, j>> \notin rows'
      BY <1>0, <2>1, <3>1, <3>4, FeeSyncAssumption DEF DueRows, Serial
    <3>10. \A b \in Bill : <<b, 0>> \in rows' => b \in issued'
      BY <2>1, <3>5 DEF DueRows
    <3>11. \A j \in items' : j <= receipts'[ThisBill']
      BY <2>1, <3>3
    <3> QED
      BY <3>2, <3>8, <3>9, <3>10, <3>11 DEF DueRows
  <2> QED
    BY <2>3, <2>4
<1> QED
  BY <1>1, <1>2, <1>3, <1>4, <1>5, <1>6 DEF Next, Run, Office

\* A bill whose receipts are all in the table is not shown as due.
THEOREM PaidIsNotDue == Spec => []PaidNotShownDue
<1>1. Init => Typed /\ DueRows
  BY InitType DEF Init, DueRows
<1>2. Typed /\ DueRows /\ [Next]_vars => (Typed /\ DueRows)'
  BY StepType, StepDue
<1>3. DueRows => PaidNotShownDue
  BY DEF DueRows, PaidNotShownDue, Unwritten
<1> QED
  BY <1>1, <1>2, <1>3, PTL DEF Spec

-----------------------------------------------------------------------------
(* Complete years *)

LEMMA SteadyIs ==
  ASSUME NEW q
  PROVE  Steady(q) = {b \in Answered(q) :
                        \A n \in 0..(b[2] - 1) :
                          \E m \in (n + 1)..(n + MaxEmpty) : <<year, m>> \in Answered(q)}
BY Zenon DEF Steady, Answered

LEMMA SteadyShrinks ==
  ASSUME NEW q, Answered(q)' \subseteq Answered(q), year' = year
  PROVE  Steady(q)' \subseteq Steady(q)
<1>1. Steady(q)' = {b \in Answered(q)' :
                      \A n \in 0..(b[2] - 1) :
                        \E m \in (n + 1)..(n + MaxEmpty) : <<year', m>> \in Answered(q)'}
  BY Zenon DEF Steady, Answered
<1> QED
  BY <1>1, SteadyIs

\* What the tax office does takes nothing into Answered.
LEMMA OfficeShrinks ==
  ASSUME Typed, Office \/ UNCHANGED officeVars, UNCHANGED <<year, dueThen, paidThen>>, NEW q
  PROVE  Answered(q)' \subseteq Answered(q)
<1>0. /\ receipts \in [Bill -> Serial] /\ paidThen \in [Bill -> Serial]
      /\ dueThen \subseteq issued /\ \A b \in Bill : paidThen[b] <= receipts[b]
  BY DEF Typed, TypeOK, Bounds
<1>1. \A b \in dueThen : b \in due' => b \in due
  <2>1. CASE UNCHANGED officeVars \/ NewYear
    BY <2>1 DEF NewYear
  <2>2. ASSUME NEW a \in Bill, Issue(a) \/ Pay(a)
        PROVE  \A b \in dueThen : b \in due' => b \in due
    BY <1>0, <2>2 DEF Issue, Pay
  <2> QED
    BY <2>1, <2>2 DEF Office
<1>2. ASSUME NEW b \in Bill, 1..paidThen[b] # {} PROVE 1..receipts[b] # {}
  <2>1. paidThen[b] \in Nat /\ receipts[b] \in Nat /\ paidThen[b] <= receipts[b]
    BY <1>0, FeeSyncAssumption DEF Serial
  <2> QED
    BY <1>2, <2>1
<1>3. CASE q = "B-1"
  BY <1>1, <1>3 DEF Answered, Answer
<1>4. CASE q # "B-1"
  BY <1>2, <1>4 DEF Answered, Answer
<1> QED
  BY <1>3, <1>4

\* Where a query stands does not change, and no bill loses its row.
LEMMA LoadedStays ==
  ASSUME Typed, Loaded, Office \/ UNCHANGED officeVars,
         \A b \in Bill : HasRow(b) => HasRow(b)',
         UNCHANGED <<pc, year, queries, query, number, empty, failed, saved, dueThen, paidThen, complete>>
  PROVE  Loaded'
<1>1. \A q : Answered(q)' \subseteq Answered(q) /\ Steady(q)' \subseteq Steady(q)
  BY OfficeShrinks, SteadyShrinks
<1>2. \A q : Steady(q) \subseteq Bill /\ Answered(q) \subseteq Bill
  BY SteadyIs DEF Answered
<1>3. ThisBill' = ThisBill /\ (saved => ThisBill \in Bill) /\ complete \subseteq Bill
  BY DEF ThisBill, Typed, TypeOK, Bounds, Bill, InYear
<1>4. /\ \A b \in complete' : HasRow(b)'
      /\ saved' => HasRow(ThisBill)'
      /\ pc' = "end" => queries' = {}
  BY <1>3 DEF Loaded
<1>5. ASSUME ~failed', Asking'
      PROVE  /\ \A b \in Answered(query)' : b[2] < number' => HasRow(b)'
             /\ \A m \in (number' - empty')..(number' - 1) : <<year', m>> \notin Answered(query)'
             /\ pc' = "count" /\ ~saved' => ThisBill' \notin Answered(query)'
  <2>1. Answered(query)' \subseteq Answered(query) /\ Answered(query) \subseteq Bill
    BY <1>1, <1>2 DEF Answered
  <2>2. ~failed /\ Asking
    BY <1>5 DEF Asking
  <2> QED
    BY <1>3, <2>1, <2>2 DEF Loaded
<1>6. ASSUME ~failed', InYear', pc' # "endFailed", NEW q \in Query, Done(q)'
      PROVE  \A b \in Steady(q)' : HasRow(b)'
  <2>1. Done(q) /\ ~failed /\ InYear /\ pc # "endFailed"
    BY <1>6 DEF Done, Asking, InYear
  <2> QED
    BY <1>1, <1>2, <2>1 DEF Loaded
<1> QED
  BY <1>4, <1>5, <1>6, Zenon DEF Loaded

\* Nothing of a year is alive.
LEMMA LoadedOver ==
  ASSUME Loaded, rows' = rows, complete' = complete, ~saved', pc' \notin {"end"},
         failed' \/ pc' \in {"idle", "years", "begin", "endFailed"}
  PROVE  Loaded'
<1>1. \A b : HasRow(b)' = HasRow(b)
  BY DEF HasRow
<1>2. failed' \/ (~Asking' /\ (~InYear' \/ pc' = "endFailed"))
  BY DEF Asking, InYear
<1> QED
  BY <1>1, <1>2 DEF Loaded

\* The rows of a bill become another's of the same bill, or one more.
LEMMA SaveRows ==
  ASSUME Typed, Save
  PROVE  /\ ThisBill \in Bill /\ HasRow(ThisBill)'
         /\ \A b \in Bill : HasRow(b) => HasRow(b)'
<1>1. ThisBill \in Bill
  BY DEF Typed, TypeOK, Bounds, ThisBill, Bill, InYear, Save
<1>2. PICK k \in Serial :
        rows' = IF k = 0 THEN rows \cup {<<ThisBill, 0>>} ELSE WithReceipt(ThisBill, k)
  BY DEF Save, Typed, TypeOK
<1>3. HasRow(ThisBill)'
  <2>1. <<ThisBill, k>> \in rows' /\ ThisBill' = ThisBill
    BY <1>2 DEF WithReceipt, Save, ThisBill
  <2> QED
    BY <1>2, <2>1 DEF HasRow
<1>4. ASSUME NEW b \in Bill, HasRow(b), b # ThisBill PROVE HasRow(b)'
  <2>1. PICK j \in Serial : <<b, j>> \in rows
    BY <1>4 DEF HasRow
  <2>2. <<b, j>> \in rows'
    BY <1>2, <1>4, <2>1 DEF WithReceipt
  <2> QED
    BY <2>2 DEF HasRow
<1>5. ASSUME NEW b \in Bill, HasRow(b) PROVE HasRow(b)'
  <2>1. CASE b = ThisBill
    <3>1. <<b, k>> \in rows'
      BY <1>2, <2>1 DEF WithReceipt
    <3> QED
      BY <3>1 DEF HasRow
  <2> QED
    BY <1>4, <1>5, <2>1
<1> QED
  BY <1>1, <1>3, <1>5

LEMMA StepLoaded == Typed /\ Loaded /\ [Next]_vars => Loaded'
<1> SUFFICES ASSUME Typed, Loaded, [Next]_vars PROVE Loaded'
  OBVIOUS
<1>a. rows' = rows => \A b \in Bill : HasRow(b) => HasRow(b)'
  BY Zenon DEF HasRow
<1>0. /\ rows' = rows => \A b \in Bill : HasRow(b) => HasRow(b)'
      /\ failed \in BOOLEAN /\ saved \in BOOLEAN
      /\ number \in Nat /\ empty \in Nat /\ MaxEmpty \in Nat \ {0}
      /\ MaxNumber \in Nat
  BY <1>a, FeeSyncAssumption DEF Typed, TypeOK
<1>1. CASE UNCHANGED vars \/ Office
  <2>1. UNCHANGED <<rows, pc, year, queries, query, number, empty, failed, saved, dueThen, paidThen, complete>>
    BY <1>1 DEF vars, Office, NewYear, Issue, Pay
  <2> QED
    BY <1>0, <1>1, <2>1, LoadedStays DEF vars
<1>2. CASE Start \/ ResolveYears \/ EndRun \/ EndYearFails \/ LogFailed \/ Crash
  <2>1. rows' = rows /\ complete' = complete /\ pc' \in {"idle", "years", "begin", "endFailed"}
    BY <1>2 DEF Start, ResolveYears, EndRun, EndYearFails, LogFailed, Crash, RunOver
  <2>2. ~saved'
    BY <1>2 DEF Start, ResolveYears, EndRun, EndYearFails, LogFailed, Crash, ScanOver, Typed, Bounds
  <2> QED
    BY <2>1, <2>2, LoadedOver
<1>3. CASE BeginYear
  <2>1. /\ rows' = rows /\ complete' = complete /\ pc' = "query" /\ queries' = Query /\ ~saved'
    BY <1>3 DEF BeginYear, Typed, Bounds
  <2>2. ~Asking' /\ \A q \in Query : ~Done(q)'
    BY <2>1 DEF Asking, Done
  <2>3. \A b : HasRow(b)' = HasRow(b)
    BY <2>1 DEF HasRow
  <2> QED
    BY <2>1, <2>2, <2>3 DEF Loaded
<1>4. CASE AskFails
  BY <1>4, LoadedOver DEF AskFails
<1>5. CASE BeginQuery
  <2>1. /\ pc = "query" /\ query' \in queries /\ queries' = queries \ {query'} /\ pc' = "ask"
        /\ number' = 1 /\ empty' = 0
        /\ UNCHANGED <<officeVars, rows, rangeVars, failed, saved, dueThen, paidThen, complete>>
    BY <1>5 DEF BeginQuery
  <2>2. /\ \A b : HasRow(b)' = HasRow(b)
        /\ \A q : Answered(q)' = Answered(q) /\ Steady(q)' = Steady(q)
    BY <2>1, Zenon DEF HasRow, Answered, Steady
  <2>3. \A q \in Query : Done(q)' => Done(q)
    BY <2>1 DEF Done, Asking
  <2>4. Asking' /\ InYear' /\ ~saved'
    BY <2>1 DEF Asking, InYear, Typed, Bounds
  <2>5. ASSUME NEW b \in Answered(query)' PROVE b[2] >= 1
    BY FeeSyncAssumption DEF Answered, Bill
  <2>6. \A b \in Answered(query)' : b[2] < number' => HasRow(b)'
    <3>1. ASSUME NEW b \in Answered(query)' PROVE b[2] \in Nat
      BY FeeSyncAssumption DEF Answered, Bill
    <3> QED
      BY <2>1, <2>5, <3>1
  <2>7. \A m \in (number' - empty')..(number' - 1) : FALSE
    BY <2>1
  <2>8. ~failed' => \A q \in Query : Done(q)' => \A b \in Steady(q)' : HasRow(b)'
    BY <2>1, <2>2, <2>3 DEF Loaded, InYear
  <2> QED
    BY <2>1, <2>2, <2>4, <2>6, <2>7, <2>8 DEF Loaded
<1>6. CASE Ask
  <2>1. /\ pc = "ask" /\ pc' = (IF items' = {} THEN "count" ELSE "save") /\ ~saved'
        /\ items' = (IF ThisBill \in Bill THEN Answer(query, ThisBill, due, receipts) ELSE {})
        /\ UNCHANGED <<officeVars, rows, rangeVars, queries, query, number, empty, failed, dueThen, paidThen, complete>>
    BY <1>6 DEF Ask
  <2>2. /\ \A b : HasRow(b)' = HasRow(b)
        /\ \A q : Answered(q)' = Answered(q) /\ Steady(q)' = Steady(q)
        /\ Answered(query)' = Answered(query)
    BY <2>1, Zenon DEF HasRow, Answered, Steady
  <2>3. /\ Asking /\ InYear /\ pc' \notin {"end", "endFailed"} /\ pc # "endFailed"
        /\ \A q : Done(q)' = Done(q)
    BY <2>1 DEF Asking, InYear, Done
  <2>4. pc' = "count" => ThisBill' \notin Answered(query)'
    <3>1. ThisBill' = ThisBill
      BY <2>1 DEF ThisBill
    <3>2. pc' = "count" => ThisBill \notin Bill \/ Answer(query, ThisBill, due, receipts) = {}
      BY <2>1
    <3> QED
      BY <2>2, <3>1, <3>2 DEF Answered
  <2> QED
    BY <2>1, <2>2, <2>3, <2>4 DEF Loaded
<1>7. CASE Save
  <2>1. /\ pc = "save" /\ pc' \in {"save", "count"} /\ saved' = TRUE
        /\ UNCHANGED <<officeVars, rangeVars, queries, query, number, empty, failed, dueThen, paidThen, complete>>
    BY <1>7 DEF Save
  <2>2. /\ \A q : Answered(q)' = Answered(q) /\ Steady(q)' = Steady(q)
        /\ Answered(query)' = Answered(query) /\ ThisBill' = ThisBill
        /\ \A q : Answered(q) \subseteq Bill /\ Steady(q) \subseteq Bill
    <3>1. \A q : Answered(q)' = Answered(q) /\ Steady(q)' = Steady(q)
      BY <2>1, Zenon DEF Answered, Steady
    <3>2. \A q : Answered(q) \subseteq Bill /\ Steady(q) \subseteq Bill
      BY SteadyIs DEF Answered
    <3>3. Answered(query)' = Answered(query) /\ ThisBill' = ThisBill
      BY <2>1, Zenon DEF Answered, ThisBill
    <3> QED
      BY <3>1, <3>2, <3>3
  <2>3. /\ Asking /\ InYear /\ pc' \notin {"end", "endFailed"} /\ pc # "endFailed"
        /\ \A q : Done(q)' = Done(q)
    BY <2>1 DEF Asking, InYear, Done
  <2>4. complete \subseteq Bill
    BY DEF Typed, TypeOK
  <2> QED
    BY <1>7, <2>1, <2>2, <2>3, <2>4, SaveRows DEF Loaded
<1>8. CASE SaveFails
  <2>1. /\ pc = "save" /\ pc' = (IF items' = {} THEN "count" ELSE "save")
        /\ failed' = (failed \/ (items' = {} /\ ~saved))
        /\ UNCHANGED <<officeVars, rows, rangeVars, queries, query, number, empty, saved, dueThen, paidThen, complete>>
    BY <1>8 DEF SaveFails
  <2>2. /\ \A b : HasRow(b)' = HasRow(b)
        /\ \A q : Answered(q)' = Answered(q) /\ Steady(q)' = Steady(q)
        /\ Answered(query)' = Answered(query) /\ ThisBill' = ThisBill
    BY <2>1, Zenon DEF HasRow, Answered, Steady, ThisBill
  <2>3. /\ Asking /\ InYear /\ pc' \notin {"end", "endFailed"} /\ pc # "endFailed"
        /\ \A q : Done(q)' = Done(q)
    BY <2>1 DEF Asking, InYear, Done
  <2>4. ~failed' => ~failed /\ ~(pc' = "count" /\ ~saved')
    BY <2>1
  <2> QED
    BY <2>1, <2>2, <2>3, <2>4 DEF Loaded
<1>9. CASE Count
  <2>1. /\ pc = "count" /\ ~saved'
        /\ UNCHANGED <<officeVars, rows, rangeVars, queries, query, failed, dueThen, paidThen, complete>>
    BY <1>9 DEF Count
  <2>2. /\ \A b : HasRow(b)' = HasRow(b)
        /\ \A q : Answered(q)' = Answered(q) /\ Steady(q)' = Steady(q)
        /\ Answered(query)' = Answered(query)
        /\ Asking /\ InYear /\ pc # "endFailed"
    BY <2>1, Zenon DEF HasRow, Answered, Steady, Asking, InYear
  <2>3. /\ query \in Query /\ query \notin queries /\ empty < number
        /\ \A q : Answered(q) \subseteq Bill
        /\ \A b \in Answered(query) : b[1] = year /\ b = <<year, b[2]>> /\ b[2] \in Nat
    BY <2>2, FeeSyncAssumption DEF Typed, TypeOK, Bounds, Answered, Bill
  <2>4. \A q \in Query : ~failed /\ q \notin queries /\ q # query => \A b \in Steady(q) : HasRow(b)
    BY <2>2 DEF Loaded, Done
  <2>5. CASE /\ ~saved /\ empty + 1 = MaxEmpty
             /\ pc' = (IF queries = {} THEN "end" ELSE "query")
    <3>1. ASSUME ~failed, NEW b \in Steady(query) PROVE HasRow(b)
      <4>1. b \in Answered(query)
        BY <3>1, SteadyIs
      <4>2. CASE b[2] < number
        BY <2>2, <3>1, <4>1, <4>2 DEF Loaded
      <4>3. CASE b[2] >= number
        <5> DEFINE n == number - MaxEmpty
        <5>1. n \in 0..(b[2] - 1) /\ n + 1 = number - empty /\ n + MaxEmpty = number
          BY <1>0, <2>3, <2>5, <4>1, <4>3
        <5>2. PICK m \in (n + 1)..(n + MaxEmpty) : <<year, m>> \in Answered(query)
          BY <3>1, <5>1, SteadyIs
        <5>3. m \in (number - empty)..(number - 1) \/ m = number
          BY <1>0, <5>1
        <5>4. <<year, m>> \notin Answered(query)
          BY <2>1, <2>2, <2>5, <3>1, <5>3 DEF Loaded, ThisBill
        <5> QED
          BY <5>2, <5>4
      <4> QED
        BY <1>0, <2>3, <4>1, <4>2, <4>3
    <3>2. ~Asking' /\ pc' # "endFailed" /\ (pc' = "end" => queries' = {})
      BY <2>1, <2>5 DEF Asking
    <3>3. ~failed' => \A q \in Query : Done(q)' => \A b \in Steady(q)' : HasRow(b)'
      BY <2>1, <2>2, <2>4, <3>1 DEF Done
    <3> QED
      BY <2>1, <2>2, <3>2, <3>3 DEF Loaded
  <2>6. CASE /\ saved \/ empty + 1 < MaxEmpty
             /\ empty' = (IF saved THEN 0 ELSE empty + 1)
             /\ number' = number + 1
             /\ pc' = "ask"
    <3>1. ASSUME ~failed, NEW b \in Answered(query), b[2] < number + 1 PROVE HasRow(b)
      <4>1. CASE b[2] < number
        BY <2>2, <3>1, <4>1 DEF Loaded
      <4>2. CASE b[2] = number
        BY <2>1, <2>2, <2>3, <3>1, <4>2 DEF Loaded, ThisBill
      <4> QED
        BY <1>0, <2>3, <3>1, <4>1, <4>2
    <3>2. ASSUME ~failed, NEW m \in (number' - empty')..(number' - 1)
          PROVE  <<year, m>> \notin Answered(query)
      <4>1. ~saved /\ (m \in (number - empty)..(number - 1) \/ m = number)
        BY <1>0, <2>6
      <4> QED
        BY <2>1, <2>2, <3>2, <4>1 DEF Loaded, ThisBill
    <3>3. ~failed' => \A q \in Query : Done(q)' => \A b \in Steady(q)' : HasRow(b)'
      BY <2>1, <2>2, <2>4, <2>6 DEF Done, Asking
    <3>4. pc' \notin {"end", "count"} /\ year' = year
      BY <2>1, <2>6
    <3> QED
      BY <2>1, <2>2, <2>6, <3>1, <3>2, <3>3, <3>4 DEF Loaded
  <2> QED
    BY <1>9, <2>5, <2>6 DEF Count
<1>10. CASE EndYear
  <2>1. /\ pc = "end" /\ rows' = rows /\ pc' = "begin" /\ ~saved'
        /\ complete' = IF failed THEN complete ELSE complete \cup Steady("B-1") \cup Steady("B-2")
    BY <1>10 DEF EndYear, ScanOver
  <2>2. queries = {} /\ InYear /\ ~Asking
    BY <2>1 DEF Loaded, InYear, Asking
  <2>3. ~failed => \A q \in Query : \A b \in Steady(q) : HasRow(b)
    BY <2>1, <2>2 DEF Loaded, Done
  <2>4. \A b \in complete' : HasRow(b)'
    BY <2>1, <2>3 DEF Loaded, HasRow, Query
  <2> QED
    BY <2>1, <2>4 DEF Loaded, Asking, InYear
<1> QED
  BY <1>1, <1>2, <1>3, <1>4, <1>5, <1>6, <1>7, <1>8, <1>9, <1>10 DEF Next, Run

\* A year reported without a failure holds what its scan could see.
THEOREM ReportedYearsAreComplete == Spec => []ReportedComplete
<1>1. Init => Typed /\ Loaded
  BY InitType DEF Init, Loaded, Asking, InYear
<1>2. Typed /\ Loaded /\ [Next]_vars => (Typed /\ Loaded)'
  BY StepType, StepLoaded
<1>3. Loaded => ReportedComplete
  BY DEF Loaded, ReportedComplete, HasRow
<1> QED
  BY <1>1, <1>2, <1>3, PTL DEF Spec

-----------------------------------------------------------------------------
(* FeeSync implements FeeLedger *)

\* What the tax office does is a step of the ledger.
LEMMA OfficeKeepsLedger ==
  ASSUME Office PROVE [Ledger!Next]_Ledger!vars
<1>1. CASE NewYear
  BY <1>1 DEF NewYear, Ledger!vars
<1>2. ASSUME NEW b \in Bill, Issue(b) PROVE Ledger!Issue(b)
  BY <1>2 DEF Issue, Ledger!Issue
<1>3. ASSUME NEW b \in Bill, Pay(b) PROVE Ledger!Pay(b)
  BY <1>3, Zenon DEF Pay, Ledger!Pay
<1> QED
  BY <1>1, <1>2, <1>3 DEF Office, Ledger!Next

\* So is every write of a run: an item that was answered long ago is still
\* one that the ledger may note.
LEMMA SaveKeepsLedger ==
  ASSUME Typed, DueRows, Save PROVE [Ledger!Next]_Ledger!vars
<1>1. /\ UNCHANGED <<issued, due, receipts>>
      /\ pc = "save" /\ ThisBill \in Bill /\ items \subseteq Serial
  BY DEF Save, Typed, TypeOK, Bounds, ThisBill, Bill, InYear
<1>2. PICK k \in items :
        rows' = IF k = 0 THEN rows \cup {<<ThisBill, 0>>} ELSE WithReceipt(ThisBill, k)
  BY DEF Save
<1>3. CASE k = 0
  <2>1. ThisBill \in due \/ Ledger!Unwritten(ThisBill)
    BY <1>1, <1>2, <1>3 DEF DueRows, Unwritten, Ledger!Unwritten
  <2>2. Ledger!NoteDue(ThisBill)
    BY <1>1, <1>2, <1>3, <2>1 DEF Ledger!NoteDue
  <2> QED
    BY <1>1, <2>2 DEF Ledger!Next
<1>4. CASE k # 0
  <2>1. k \in 1..receipts[ThisBill]
    BY <1>1, <1>2, <1>4, FeeSyncAssumption DEF DueRows, Serial, Typed, TypeOK
  <2>2. CASE <<ThisBill, k>> \in rows
    BY <1>1, <1>2, <1>4, <2>2 DEF WithReceipt, Ledger!vars
  <2>3. CASE <<ThisBill, k>> \notin rows
    <3>1. Ledger!WriteReceipt(ThisBill)
      BY <1>1, <1>2, <1>4, <2>1, <2>3 DEF WithReceipt, Ledger!WriteReceipt
    <3> QED
      BY <1>1, <3>1 DEF Ledger!Next
  <2> QED
    BY <2>2, <2>3
<1> QED
  BY <1>3, <1>4

\* Everything else a run does, the end of the server included, leaves the
\* ledger alone.
LEMMA NextKeepsLedger ==
  ASSUME Typed, DueRows, [Next]_vars PROVE [Ledger!Next]_Ledger!vars
<1>1. CASE Start \/ ResolveYears \/ BeginYear \/ EndRun \/ BeginQuery \/ Ask \/ AskFails
             \/ SaveFails \/ Count \/ EndYear \/ EndYearFails \/ LogFailed \/ Crash
             \/ UNCHANGED vars
  BY <1>1 DEF Start, ResolveYears, BeginYear, EndRun, BeginQuery, Ask, AskFails, SaveFails,
    Count, EndYear, EndYearFails, LogFailed, Crash, vars, Ledger!vars
<1> QED
  BY <1>1, OfficeKeepsLedger, SaveKeepsLedger DEF Next, Run

\* FeeSync implements FeeLedger: runs, however they are started, cut short or
\* overtaken by the tax office, only note bills that are due and write
\* receipts that were issued.
THEOREM ImplementsLedger == Spec => KeepsLedger
<1>1. Init => Typed /\ DueRows /\ Ledger!Init
  BY InitType DEF Init, DueRows, Ledger!Init
<1>2. Typed /\ DueRows /\ [Next]_vars => (Typed /\ DueRows)'
  BY StepType, StepDue
<1>3. Typed /\ DueRows /\ [Next]_vars => [Ledger!Next]_Ledger!vars
  BY NextKeepsLedger
<1> QED
  BY <1>1, <1>2, <1>3, PTL DEF Spec, KeepsLedger, Ledger!Spec

-----------------------------------------------------------------------------
(* What the promise of FeeLedger is worth *)

(***************************************************************************)
(* The inductive strengthening of Balanced: a bill that was settled and is *)
(* still noted as due has a receipt to come; none is there early.          *)
(***************************************************************************)
Entered ==
  /\ issued \subseteq Bill
  /\ receipts \in [Bill -> Nat]
  /\ \A b \in issued \ due : <<b, 0>> \in rows => Ledger!Unwritten(b)
  /\ \A b \in Bill, k \in Nat : k > receipts[b] => <<b, k>> \notin rows

\* Whatever implements FeeLedger never shows a bill as due once its receipts
\* are all in the table, and holds no receipt that was not issued.
THEOREM LedgerIsBalanced == Ledger!Spec => []Ledger!Balanced
<1>1. Ledger!Init => Entered
  BY DEF Ledger!Init, Entered
<1>2. Entered /\ [Ledger!Next]_Ledger!vars => Entered'
  <2> SUFFICES ASSUME Entered, [Ledger!Next]_Ledger!vars PROVE Entered'
    OBVIOUS
  <2>1. ASSUME NEW b \in Bill, Ledger!Issue(b) PROVE Entered'
    BY <2>1 DEF Entered, Ledger!Issue, Ledger!Unwritten
  <2>2. ASSUME NEW b \in Bill, Ledger!Pay(b) PROVE Entered'
    <3>1. /\ receipts' \in [Bill -> Nat] /\ receipts'[b] = receipts[b] + 1
          /\ \A a \in Bill : a # b => receipts'[a] = receipts[a]
          /\ \A a \in Bill : receipts'[a] >= receipts[a]
          /\ due' \in {due, due \ {b}} /\ UNCHANGED <<issued, rows>>
      BY <2>2 DEF Entered, Ledger!Pay
    <3>2. Ledger!Unwritten(b)'
      <4>1. receipts'[b] \in 1..receipts'[b] /\ <<b, receipts'[b]>> \notin rows'
        BY <3>1 DEF Entered
      <4> QED
        BY <4>1 DEF Ledger!Unwritten
    <3>3. \A a : a # b /\ a \in Bill /\ Ledger!Unwritten(a) => Ledger!Unwritten(a)'
      BY <3>1 DEF Ledger!Unwritten
    <3>4. \A a \in issued' \ due' : a \in Bill /\ <<a, 0>> \in rows' => Ledger!Unwritten(a)'
      BY <3>1, <3>2, <3>3 DEF Entered
    <3> QED
      BY <3>1, <3>4 DEF Entered
  <2>3. ASSUME NEW b \in Bill, Ledger!NoteDue(b) PROVE Entered'
    <3>1. /\ rows' = rows \cup {<<b, 0>>}
          /\ b \in due \/ Ledger!Unwritten(b)
          /\ UNCHANGED <<issued, due, receipts>>
      BY <2>3 DEF Ledger!NoteDue
    <3>2. \A a : Ledger!Unwritten(a) => Ledger!Unwritten(a)'
      BY <3>1 DEF Ledger!Unwritten
    <3> QED
      BY <3>1, <3>2 DEF Entered
  <2>4. ASSUME NEW b \in Bill, Ledger!WriteReceipt(b) PROVE Entered'
    <3>1. PICK k \in 1..receipts[b] : rows' = (rows \ {<<b, 0>>}) \cup {<<b, k>>}
      BY <2>4 DEF Ledger!WriteReceipt
    <3>2. UNCHANGED <<issued, due, receipts>> /\ receipts[b] \in Nat
      BY <2>4 DEF Ledger!WriteReceipt, Entered
    <3>3. k # 0 /\ k <= receipts[b] /\ <<b, 0>> \notin rows'
      BY <3>1, <3>2
    <3>4. \A a : a # b /\ Ledger!Unwritten(a) => Ledger!Unwritten(a)'
      BY <3>1, <3>2 DEF Ledger!Unwritten
    <3>5. \A a \in issued' \ due' : <<a, 0>> \in rows' => Ledger!Unwritten(a)'
      BY <3>1, <3>2, <3>3, <3>4 DEF Entered
    <3>6. \A a \in Bill, j \in Nat : j > receipts'[a] => <<a, j>> \notin rows'
      BY <3>1, <3>2, <3>3 DEF Entered
    <3> QED
      BY <3>2, <3>5, <3>6 DEF Entered
  <2>5. CASE UNCHANGED Ledger!vars
    BY <2>5 DEF Entered, Ledger!vars, Ledger!Unwritten
  <2> QED
    BY <2>1, <2>2, <2>3, <2>4, <2>5 DEF Ledger!Next
<1>3. Entered => Ledger!Balanced
  BY DEF Entered, Ledger!Balanced, Ledger!Unwritten
<1> QED
  BY <1>1, <1>2, <1>3, PTL DEF Ledger!Spec

\* Whatever implements FeeLedger never loses a receipt, nor the row of a due
\* bill but for one of its receipts.
THEOREM LedgerKeepsReceipts == Ledger!Spec => Ledger!KeepsReceipts
<1> DEFINE Kept == \A b \in Bill, k \in Nat :
                     <<b, k>> \in rows => \/ <<b, k>> \in rows'
                                          \/ k = 0 /\ \E j \in 1..receipts[b] :
                                               <<b, j>> \in rows' \ rows
<1>1. [Ledger!Next]_Ledger!vars => [Kept]_Ledger!vars
  <2>1. ASSUME NEW b \in Bill, Ledger!Issue(b) \/ Ledger!Pay(b) \/ Ledger!NoteDue(b)
        PROVE  Kept
    BY <2>1 DEF Ledger!Issue, Ledger!Pay, Ledger!NoteDue
  <2>2. ASSUME NEW b \in Bill, Ledger!WriteReceipt(b) PROVE Kept
    BY <2>2 DEF Ledger!WriteReceipt
  <2> QED
    BY <2>1, <2>2 DEF Ledger!Next
<1> QED
  BY <1>1, PTL DEF Ledger!Spec, Ledger!KeepsReceipts
=============================================================================

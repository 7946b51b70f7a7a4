----------------------- MODULE RestartHandoffProofs -----------------------
(***************************************************************************)
(* What RestartHandoff guarantees for every number of applies, processes   *)
(* and faults: its types, and, in an orderly hand-off, that the success    *)
(* row of the last apply is never forgotten and that no apply is recorded  *)
(* twice.  Orderly: no terminated server lingers, and no server writes the *)
(* file between two statements of the launcher that read it and write it   *)
(* back.                                                                   *)
(***************************************************************************)
EXTENDS RestartHandoff, TLAPS

Orderly == ~Torn /\ "lingers" \notin KillOutcomes

\* The file names an apply whenever it holds a row to record.
NamesApply ==
  /\ signal.pending => signal.apply \in Apply
  /\ seen.pending => seen.apply \in Apply

(***************************************************************************)
(* Why the launcher's write-back loses nothing: what it has read is still  *)
(* in the file, and a launcher that has not started yet has no children,   *)
(* and no relaunch under way.                                              *)
(***************************************************************************)
ReadIsCurrent == WritingBack => seen = signal

Fresh ==
  launcher \in {"down", "start"} =>
    relaunch = "no" /\ waiting = 0 /\ attached = {} /\ closes = {}

Launching == ReadIsCurrent /\ Fresh

(***************************************************************************)
(* Why the write-back of a flush loses nothing: the file is that of the    *)
(* last apply, only the one process that has the port flushes, what it     *)
(* read is still in the file, and once it has inserted the row is there.   *)
(***************************************************************************)
SignalIsLast == signal.apply = last

OnPort(s) == srv[s] \in {"listen", "insert", "rewrite", "ready"}

OnePort == quiet = {} /\ \A s, t \in Server : OnPort(s) /\ OnPort(t) => s = t

FlushIsLast ==
  \A s \in Server :
    srv[s] \in {"insert", "rewrite"} => raw[s].apply = last /\ last \in Apply

FlushInserted ==
  \A s \in Server : srv[s] = "rewrite" => rows[raw[s].apply] > 0

Kept == SignalIsLast /\ OnePort /\ FlushIsLast /\ FlushInserted /\ LastRowKept

(***************************************************************************)
(* Why no row is inserted twice: an apply that has not finished has none,  *)
(* and a row that is pending, or about to be inserted, is not there yet,   *)
(* unless the flush that inserted it has still to write the file back.     *)
(***************************************************************************)
Unfinished ==
  /\ last \in done \cup {NoApply}
  /\ \A a \in Apply \ done : rows[a] = 0

PendingMissing ==
  signal.pending =>
    cut \/ rows[last] = 0 \/ \E s \in Server : srv[s] = "rewrite"

InsertMissing ==
  \A s \in Server : srv[s] = "insert" => cut \/ rows[last] = 0

Single == Unfinished /\ PendingMissing /\ InsertMissing /\ RecordedOnce

IInv == TypeOK /\ NamesApply /\ Launching /\ Kept /\ Single

USE DEF srvVars, launcherVars, runVars, histVars

-----------------------------------------------------------------------------
\* The initial states have the declared types.
LEMMA InitType == Init => TypeOK /\ NamesApply
<1> SUFFICES ASSUME Init PROVE TypeOK /\ NamesApply
  OBVIOUS
<1>1. signal \in Signal /\ seen \in Signal /\ raw \in [Server -> Signal]
  BY DEF Init, Signal, Blank
<1>2. faults \in 0..MaxFaults /\ rows \in [Apply -> 0..2]
  BY RestartHandoffAssumption DEF Init
<1>3. NamesApply
  BY DEF Init, NamesApply, Blank
<1> QED
  BY <1>1, <1>2, <1>3 DEF Init, TypeOK

\* The end of processes keeps the types of what it changes.
LEMMA DieType ==
  ASSUME TypeOK, NEW dead, Die(dead)
  PROVE  /\ srv' \in [Server -> {"none", "boot", "listen", "insert", "rewrite", "ready"}]
         /\ raw' \in [Server -> Signal]
         /\ quiet' \subseteq Server /\ exiting' \subseteq Server
         /\ closes' \subseteq Server /\ attached' \subseteq Server
         /\ fresh' \subseteq Server /\ cut' \in BOOLEAN
<1>1. Blank \in Signal
  BY DEF Blank, Signal
<1> QED
  BY <1>1 DEF TypeOK, Die

\* A further row keeps the counters of rows.
LEMMA RecordedType ==
  ASSUME rows \in [Apply -> 0..2], NEW a PROVE Recorded(a) \in [Apply -> 0..2]
<1>1. Recorded(a) = [b \in Apply |-> IF b = a THEN (IF rows[a] = 2 THEN 2 ELSE rows[a] + 1) ELSE rows[b]]
  BY DEF Recorded
<1>2. ASSUME NEW b \in Apply PROVE (IF rows[b] = 2 THEN 2 ELSE rows[b] + 1) \in 0..2
  BY <1>2
<1> QED
  BY <1>1, <1>2

\* Every step keeps the types, whatever the kill does.
LEMMA TypeNext ==
  ASSUME TypeOK, NamesApply, Next
  PROVE  TypeOK' /\ NamesApply'
<1> USE DEF TypeOK, NamesApply
<1>1. ASSUME NEW s \in Server, Bind(s) PROVE TypeOK' /\ NamesApply'
  <2>1. CASE Listening = {}
    BY <1>1, <2>1 DEF Bind
  <2>2. CASE Listening # {}
    BY <1>1, <2>2, DieType DEF Bind
  <2> QED
    BY <2>1, <2>2
<1>2. ASSUME NEW s \in Server, FlushRead(s) PROVE TypeOK' /\ NamesApply'
  BY <1>2 DEF FlushRead, Signal
<1>3. ASSUME NEW s \in Server, FlushInsert(s) PROVE TypeOK' /\ NamesApply'
  <2>1. rows' \in [Apply -> 0..2]
    <3>1. Recorded(raw[s].apply) \in [Apply -> 0..2]
      BY RecordedType
    <3> QED
      BY <1>3, <3>1 DEF FlushInsert
  <2>2. raw' \in [Server -> Signal]
    <3>1. Blank \in Signal
      BY DEF Blank, Signal
    <3> QED
      BY <1>3, <3>1 DEF FlushInsert
  <2>3. srv' \in [Server -> {"none", "boot", "listen", "insert", "rewrite", "ready"}]
    BY <1>3 DEF FlushInsert
  <2> QED
    BY <1>3, <2>1, <2>2, <2>3 DEF FlushInsert
<1>4. ASSUME NEW s \in Server, FlushRewrite(s) PROVE TypeOK' /\ NamesApply'
  <2>1. Blank \in Signal /\ UNCHANGED launcherVars
    BY <1>4 DEF FlushRewrite, Blank, Signal
  <2>2. CASE signal' = [raw[s] EXCEPT !.pending = FALSE, !.flushed = TRUE]
    <3>1. raw[s] \in Signal
      OBVIOUS
    <3>2. signal' \in Signal /\ ~signal'.pending
      BY <2>2, <3>1 DEF Signal
    <3> QED
      BY <1>4, <2>1, <3>2 DEF FlushRewrite
  <2>3. CASE UNCHANGED signal
    BY <1>4, <2>1, <2>3 DEF FlushRewrite
  <2> QED
    BY <1>4, <2>2, <2>3 DEF FlushRewrite
<1>5. ASSUME NEW s \in Server, Exit(s) PROVE TypeOK' /\ NamesApply'
  BY <1>5, DieType DEF Exit
<1>6. ASSUME NEW s \in Server, Drained(s) PROVE TypeOK' /\ NamesApply'
  BY <1>6, DieType DEF Drained
<1>7. ASSUME NEW s \in Server, FirstSpawn(s) PROVE TypeOK' /\ NamesApply'
  BY <1>7 DEF FirstSpawn, Spawn
<1>8. ASSUME NEW s \in Server, Respawn(s) PROVE TypeOK' /\ NamesApply'
  BY <1>8 DEF Respawn, Spawn
<1>9. ASSUME NEW s \in Server, Close(s) PROVE TypeOK' /\ NamesApply'
  <2>1. UNCHANGED <<signal, srvVars, histVars>>
    BY <1>9 DEF Close
  <2>2. CASE LauncherGone
    BY <2>1, <2>2 DEF LauncherGone, Blank, Signal
  <2>3. CASE ~LauncherGone
    BY <1>9, <2>1, <2>3 DEF Close, BeginRelaunch
  <2> QED
    BY <2>2, <2>3
<1>10. ASSUME NEW s \in Server, ServerDies(s) PROVE TypeOK' /\ NamesApply'
  BY <1>10, DieType, RestartHandoffAssumption DEF ServerDies, Fault
<1>11. ASSUME NEW a \in Apply, NEW s \in Server, Finish(a, s) PROVE TypeOK' /\ NamesApply'
  BY <1>11, RestartHandoffAssumption, RecordedType DEF Finish, SignalOf, Signal
<1>12. ASSUME StartLauncher PROVE TypeOK' /\ NamesApply'
  BY <1>12 DEF StartLauncher
<1>18. ASSUME RecordBoot PROVE TypeOK' /\ NamesApply'
  BY <1>18 DEF RecordBoot, Signal, Blank
<1>19. ASSUME Mark PROVE TypeOK' /\ NamesApply'
  BY <1>19 DEF Mark, Marked, Signal, Blank
<1>20. ASSUME MarkFails PROVE TypeOK' /\ NamesApply'
  BY <1>20, RestartHandoffAssumption DEF MarkFails, Fault, Signal, Blank
<1>21. ASSUME StillBusy PROVE TypeOK' /\ NamesApply'
  BY <1>21 DEF StillBusy
<1>22. ASSUME NEW s \in Server, RespawnLate(s) PROVE TypeOK' /\ NamesApply'
  BY <1>22 DEF RespawnLate, Spawn
<1>13. ASSUME FreePort PROVE TypeOK' /\ NamesApply'
  BY <1>13, DieType DEF FreePort
<1>14. ASSUME Poll PROVE TypeOK' /\ NamesApply'
  BY <1>14 DEF Poll, BeginRelaunch, Signal
<1>15. ASSUME KillNext PROVE TypeOK' /\ NamesApply'
  <2> DEFINE child == {nextProc} \cap Alive
  <2>1. CASE Die(child) /\ relaunch' = "free"
    BY <1>15, <2>1, DieType DEF KillNext
  <2>2. CASE quiet' = quiet \cup child /\ UNCHANGED <<srv, raw, exiting, attached, closes, fresh, cut>>
    BY <1>15, <2>2 DEF KillNext, Alive
  <2>3. CASE /\ closes' = closes \cup child /\ attached' = attached \ child
             /\ UNCHANGED <<srv, raw, quiet, exiting, fresh, cut>>
    BY <1>15, <2>3 DEF KillNext, Alive
  <2> QED
    BY <1>15, <2>1, <2>2, <2>3 DEF KillNext
<1>16. ASSUME MachineDies PROVE TypeOK' /\ NamesApply'
  BY <1>16, RestartHandoffAssumption DEF MachineDies, LauncherGone, Fault, Signal, Blank
<1>17. ASSUME LauncherDies PROVE TypeOK' /\ NamesApply'
  BY <1>17, RestartHandoffAssumption DEF LauncherDies, LauncherGone, Fault, Signal, Blank
<1> QED
  BY <1>1, <1>2, <1>3, <1>4, <1>5, <1>6, <1>7, <1>8, <1>9, <1>10, <1>11, <1>12, <1>13, <1>14, <1>15, <1>16, <1>17,
     <1>18, <1>19, <1>20, <1>21, <1>22 DEF Next, Serve, Launch

-----------------------------------------------------------------------------
(***************************************************************************)
(* Most steps are calm: they neither record nor finish anything, leave the *)
(* row in the file alone, and move no process on the port except away from *)
(* it.                                                                     *)
(***************************************************************************)
Calm ==
  /\ rows' = rows /\ last' = last /\ done' = done /\ quiet' \subseteq quiet
  /\ signal'.apply = signal.apply /\ signal'.pending = signal.pending
  /\ \A s \in Server : OnPort(s)' => srv'[s] = srv[s] /\ raw'[s] = raw[s]
  /\ cut => cut'
  /\ cut' => cut \/ \E s \in Server : srv[s] = "rewrite" /\ srv'[s] # "rewrite"
  /\ \A s \in Server : srv[s] = "rewrite" => srv'[s] = "rewrite" \/ cut'

\* A calm step keeps everything.
LEMMA CalmKeeps ==
  ASSUME IInv, Calm PROVE Kept' /\ Single'
<1> USE DEF IInv, Calm, Kept, Single
<1>1. SignalIsLast' /\ LastRowKept'
  BY DEF SignalIsLast, LastRowKept
<1>2. OnePort'
  BY DEF OnePort, OnPort
<1>3. FlushIsLast' /\ FlushInserted'
  BY DEF FlushIsLast, FlushInserted, OnPort
<1>4. Unfinished' /\ RecordedOnce'
  BY DEF Unfinished, RecordedOnce
<1>5. PendingMissing' /\ InsertMissing'
  BY DEF PendingMissing, InsertMissing, OnPort
<1> QED
  BY <1>1, <1>2, <1>3, <1>4, <1>5

\* The end of processes is calm.
LEMMA DieCalm ==
  ASSUME TypeOK, NEW dead \in SUBSET Server, Die(dead), UNCHANGED <<signal, rows, last, done>>
  PROVE  Calm
BY DEF Die, Calm, OnPort, TypeOK

\* A server takes the port only when nobody has it.
LEMMA BindKeeps ==
  ASSUME IInv, NEW s \in Server, Bind(s) PROVE Kept' /\ Single'
<1>1. CASE Listening # {}
  <2>1. Calm
    BY <1>1, DieCalm DEF Bind, IInv
  <2> QED
    BY <2>1, CalmKeeps
<1>2. CASE Listening = {}
  <2> USE DEF IInv, TypeOK, Kept, Single
  <2>1. /\ srv' = [srv EXCEPT ![s] = "listen"] /\ srv[s] = "boot"
        /\ UNCHANGED <<signal, raw, quiet, rows, last, done, cut>>
    BY <1>2 DEF Bind
  <2>2. \A t \in Server : ~OnPort(t)
    BY <1>2 DEF Listening, Alive, OnPort, OnePort
  <2>3. OnePort' /\ FlushIsLast' /\ FlushInserted'
    BY <2>1, <2>2 DEF OnePort, OnPort, FlushIsLast, FlushInserted
  <2>4. SignalIsLast' /\ LastRowKept' /\ Unfinished' /\ RecordedOnce'
    BY <2>1 DEF SignalIsLast, LastRowKept, Unfinished, RecordedOnce
  <2>5. PendingMissing' /\ InsertMissing'
    BY <2>1, <2>2 DEF PendingMissing, InsertMissing, OnPort
  <2> QED
    BY <2>3, <2>4, <2>5
<1> QED
  BY <1>1, <1>2

\* What a flush reads is the row of the last apply, still to be recorded.
LEMMA FlushReadKeeps ==
  ASSUME IInv, NEW s \in Server, FlushRead(s) PROVE Kept' /\ Single'
<1> USE DEF IInv, TypeOK, Kept, Single, FlushRead
<1>1. \A t \in Server : srv[t] # "rewrite"
  BY DEF OnePort, OnPort
<1>2. OnePort' /\ SignalIsLast' /\ LastRowKept' /\ Unfinished' /\ RecordedOnce'
  BY DEF OnePort, OnPort, SignalIsLast, LastRowKept, Unfinished, RecordedOnce
<1>3. FlushIsLast'
  BY DEF FlushIsLast, SignalIsLast, NamesApply
<1>4. FlushInserted'
  BY <1>1 DEF FlushInserted
<1>5. PendingMissing' /\ InsertMissing'
  BY <1>1 DEF PendingMissing, InsertMissing
<1> QED
  BY <1>2, <1>3, <1>4, <1>5

\* The row that is inserted is that of the last apply, and it was missing.
LEMMA FlushInsertKeeps ==
  ASSUME IInv, NEW s \in Server, FlushInsert(s) PROVE Kept' /\ Single'
<1> USE DEF IInv, TypeOK, Kept, Single
<1>1. /\ srv[s] = "insert" /\ raw[s].apply = last /\ last \in Apply
      /\ UNCHANGED <<signal, quiet, last, done, cut>>
  BY DEF FlushInsert, FlushIsLast
<1>2. CASE rows' = Recorded(raw[s].apply) /\ srv' = [srv EXCEPT ![s] = "rewrite"] /\ UNCHANGED raw
  <2>1. rows' = [rows EXCEPT ![last] = IF rows[last] = 2 THEN 2 ELSE rows[last] + 1]
    BY <1>1, <1>2 DEF Recorded
  <2>2. rows'[last] > 0 /\ \A a \in Apply : a # last => rows'[a] = rows[a]
    BY <1>1, <2>1
  <2>3. OnePort' /\ SignalIsLast' /\ LastRowKept'
    BY <1>1, <1>2, <2>2 DEF OnePort, OnPort, SignalIsLast, LastRowKept
  <2>4. FlushIsLast' /\ FlushInserted'
    BY <1>1, <1>2, <2>2 DEF FlushIsLast, FlushInserted
  <2>5. Unfinished'
    BY <1>1, <2>2, RestartHandoffAssumption DEF Unfinished
  <2>6. PendingMissing'
    BY <1>1, <1>2 DEF PendingMissing
  <2>7. InsertMissing'
    BY <1>1, <1>2 DEF InsertMissing, OnePort, OnPort
  <2>8. RecordedOnce'
    <3>1. cut \/ rows[last] = 0
      BY <1>1 DEF InsertMissing
    <3> QED
      BY <1>1, <2>1, <3>1 DEF RecordedOnce
  <2> QED
    BY <2>3, <2>4, <2>5, <2>6, <2>7, <2>8
<1>3. CASE srv' = [srv EXCEPT ![s] = "ready"] /\ raw' = [raw EXCEPT ![s] = Blank] /\ UNCHANGED rows
  <2>1. OnePort' /\ SignalIsLast' /\ LastRowKept' /\ Unfinished' /\ RecordedOnce'
    BY <1>1, <1>3 DEF OnePort, OnPort, SignalIsLast, LastRowKept, Unfinished, RecordedOnce
  <2>2. FlushIsLast' /\ FlushInserted'
    BY <1>1, <1>3 DEF FlushIsLast, FlushInserted
  <2>3. PendingMissing' /\ InsertMissing'
    BY <1>1, <1>3 DEF PendingMissing, InsertMissing
  <2> QED
    BY <2>1, <2>2, <2>3
<1> QED
  BY <1>2, <1>3 DEF FlushInsert

\* The file that is written back is still that of the last apply.
LEMMA FlushRewriteKeeps ==
  ASSUME IInv, NEW s \in Server, FlushRewrite(s) PROVE Kept' /\ Single'
<1> USE DEF IInv, TypeOK, Kept, Single
<1>1. /\ srv[s] = "rewrite" /\ raw[s].apply = last /\ rows[last] > 0
      /\ srv' = [srv EXCEPT ![s] = "ready"] /\ raw' = [raw EXCEPT ![s] = Blank]
      /\ UNCHANGED <<quiet, rows, last, done>>
  BY DEF FlushRewrite, FlushIsLast, FlushInserted
<1>2. OnePort' /\ Unfinished'
  BY <1>1 DEF OnePort, OnPort, Unfinished
<1>3. FlushIsLast' /\ FlushInserted'
  BY <1>1 DEF FlushIsLast, FlushInserted
<1>4. LastRowKept'
  BY <1>1 DEF LastRowKept
<1>5. SignalIsLast'
  <2>1. CASE signal' = [raw[s] EXCEPT !.pending = FALSE, !.flushed = TRUE]
    <3>1. raw[s] \in Signal
      OBVIOUS
    <3>2. signal'.apply = raw[s].apply
      BY <2>1, <3>1 DEF Signal
    <3> QED
      BY <1>1, <3>2 DEF SignalIsLast
  <2>2. CASE UNCHANGED signal
    BY <1>1, <2>2 DEF SignalIsLast
  <2> QED
    BY <2>1, <2>2 DEF FlushRewrite
<1>6. cut => cut'
  BY DEF FlushRewrite
<1>7. PendingMissing'
  BY <1>1, <1>6 DEF FlushRewrite, PendingMissing, Signal
<1>8. InsertMissing' /\ RecordedOnce'
  BY <1>1, <1>6 DEF InsertMissing, RecordedOnce
<1> QED
  BY <1>2, <1>3, <1>4, <1>5, <1>7, <1>8

\* An apply that finishes has no row yet, and its server is the only one on
\* the port: no flush is under way that could write an older file back.
LEMMA FinishKeeps ==
  ASSUME IInv, NEW a \in Apply, NEW s \in Server, Finish(a, s) PROVE Kept' /\ Single'
<1> USE DEF IInv, TypeOK, Kept, Single
<1>1. /\ a \notin done /\ rows[a] = 0 /\ last' = a /\ done' = done \cup {a}
      /\ signal' = SignalOf(a) /\ UNCHANGED <<srv, raw, quiet, cut>>
  BY DEF Finish, Unfinished
<1>2. \A t \in Server : srv[t] \notin {"insert", "rewrite"}
  BY DEF Finish, OnePort, OnPort
<1>3. OnePort' /\ FlushIsLast' /\ FlushInserted' /\ InsertMissing'
  BY <1>1, <1>2 DEF OnePort, OnPort, FlushIsLast, FlushInserted, InsertMissing
<1>4. SignalIsLast' /\ LastRowKept'
  BY <1>1 DEF SignalIsLast, LastRowKept, SignalOf
<1>5. \/ UNCHANGED rows
      \/ Mode[a] = "none" /\ rows' = [rows EXCEPT ![a] = 1]
  BY <1>1 DEF Finish, Recorded
<1>6. Unfinished' /\ RecordedOnce'
  BY <1>1, <1>5 DEF Unfinished, RecordedOnce
<1>7. PendingMissing'
  BY <1>1, <1>5 DEF PendingMissing, SignalOf
<1> QED
  BY <1>3, <1>4, <1>6, <1>7

\* Every step is calm but those of a flush, the one that takes the port and
\* the end of an apply.
LEMMA MostAreCalm ==
  ASSUME Orderly, IInv, Next
  PROVE  \/ Calm
         \/ \E s \in Server : \/ Bind(s) /\ Listening = {}
                              \/ FlushRead(s) \/ FlushInsert(s) \/ FlushRewrite(s)
         \/ \E a \in Apply, s \in Server : Finish(a, s)
<1> USE DEF IInv
<1>1. ASSUME NEW s \in Server, Exit(s) \/ Drained(s) \/ ServerDies(s) PROVE Calm
  BY <1>1, DieCalm DEF Exit, Drained, ServerDies
<1>2. ASSUME NEW s \in Server, FirstSpawn(s) \/ Respawn(s) \/ RespawnLate(s) PROVE Calm
  BY <1>2 DEF FirstSpawn, Respawn, RespawnLate, Spawn, Calm, OnPort, TypeOK
<1>3. ASSUME NEW s \in Server, Close(s) PROVE Calm
  BY <1>3 DEF Close, BeginRelaunch, Calm, OnPort, TypeOK, Signal
<1>4. ASSUME StartLauncher \/ LauncherDies \/ Poll \/ StillBusy \/ MarkFails PROVE Calm
  BY <1>4 DEF StartLauncher, LauncherDies, Poll, StillBusy, MarkFails, BeginRelaunch, Calm,
    OnPort, TypeOK
<1>9. ASSUME Mark \/ RecordBoot PROVE Calm
  <2>1. seen = signal
    BY <1>9 DEF Mark, RecordBoot, Launching, ReadIsCurrent, WritingBack
  <2>2. signal'.apply = signal.apply /\ signal'.pending = signal.pending
    BY <1>9, <2>1 DEF Mark, Marked, RecordBoot, TypeOK, Signal
  <2> QED
    BY <1>9, <2>2 DEF Mark, RecordBoot, Calm, OnPort
<1>5. ASSUME FreePort PROVE Calm
  BY <1>5, DieCalm DEF FreePort, Listening, Alive
<1>6. ASSUME KillNext PROVE Calm
  <2> DEFINE child == {nextProc} \cap Alive
  <2>1. UNCHANGED <<signal, rows, last, done>>
    BY <1>6 DEF KillNext
  <2>2. CASE Die(child)
    BY <2>1, <2>2, DieCalm DEF Alive
  <2>3. CASE UNCHANGED <<srv, raw, quiet, exiting, fresh, cut>>
    BY <2>1, <2>3 DEF Calm, OnPort
  <2> QED
    BY <1>6, <2>2, <2>3 DEF KillNext, Orderly
<1>7. ASSUME MachineDies PROVE Calm
  BY <1>7 DEF MachineDies, Calm, OnPort, TypeOK
<1>8. ASSUME NEW s \in Server, Bind(s), Listening # {} PROVE Calm
  BY <1>8, DieCalm DEF Bind
<1> QED
  BY <1>1, <1>2, <1>3, <1>4, <1>5, <1>6, <1>7, <1>8, <1>9 DEF Next, Serve, Launch

\* What the launcher has read stays what the file holds: nobody else writes
\* it meanwhile.
LEMMA LaunchingNext ==
  ASSUME Orderly, IInv, Next PROVE Launching'
<1> USE DEF Orderly, IInv, TypeOK, Launching, ReadIsCurrent, Fresh, WritingBack
<1>1. ASSUME UNCHANGED <<launcherVars, signal, attached, closes>> PROVE Launching'
  BY <1>1
<1>2. ASSUME NEW dead, Die(dead), UNCHANGED <<signal, launcherVars>> PROVE Launching'
  BY <1>2 DEF Die
<1>3. ASSUME NEW s \in Server, Serve(s) PROVE Launching'
  <2>1. CASE FlushRewrite(s)
    BY <2>1 DEF FlushRewrite
  <2>2. CASE Bind(s)
    BY <1>1, <1>2, <2>2 DEF Bind
  <2>3. CASE FlushRead(s) \/ FlushInsert(s)
    BY <1>1, <2>3 DEF FlushRead, FlushInsert
  <2>4. CASE Exit(s) \/ Drained(s)
    BY <1>2, <2>4 DEF Exit, Drained
  <2> QED
    BY <1>3, <2>1, <2>2, <2>3, <2>4 DEF Serve
<1>4. ASSUME NEW a \in Apply, NEW s \in Server, Finish(a, s) PROVE Launching'
  BY <1>4 DEF Finish
<1>5. ASSUME NEW s \in Server, FirstSpawn(s) \/ Respawn(s) \/ RespawnLate(s) PROVE Launching'
  BY <1>5 DEF FirstSpawn, Respawn, RespawnLate, Spawn, Free
<1>6. ASSUME NEW s \in Server, Close(s) PROVE Launching'
  BY <1>6 DEF Close, Free, BeginRelaunch, LauncherGone
<1>7. ASSUME NEW s \in Server, ServerDies(s) PROVE Launching'
  BY <1>2, <1>7 DEF ServerDies
<1>8. ASSUME StartLauncher \/ RecordBoot \/ Poll \/ Mark \/ MarkFails \/ StillBusy
      PROVE  Launching'
  BY <1>8 DEF StartLauncher, RecordBoot, Poll, BeginRelaunch, Mark, MarkFails, StillBusy
<1>9. ASSUME FreePort PROVE Launching'
  BY <1>2, <1>9 DEF FreePort
<1>10. ASSUME KillNext PROVE Launching'
  BY <1>10 DEF KillNext
<1>11. ASSUME MachineDies \/ LauncherDies PROVE Launching'
  BY <1>11 DEF MachineDies, LauncherDies, LauncherGone
<1> QED
  BY <1>3, <1>4, <1>5, <1>6, <1>7, <1>8, <1>9, <1>10, <1>11 DEF Next, Launch

\* Every step keeps the invariant.
LEMMA KeptNext ==
  ASSUME Orderly, IInv, Next
  PROVE  Launching' /\ Kept' /\ Single'
BY LaunchingNext, MostAreCalm, CalmKeeps, BindKeeps, FlushReadKeeps, FlushInsertKeeps, FlushRewriteKeeps,
   FinishKeeps

-----------------------------------------------------------------------------
(* The theorems *)

\* Type correctness, whatever a kill does.
THEOREM TypeCorrect == Spec => []TypeOK
<1>1. TypeOK /\ NamesApply /\ UNCHANGED vars => (TypeOK /\ NamesApply)'
  BY DEF TypeOK, NamesApply, vars
<1>2. TypeOK /\ NamesApply /\ [Next]_vars => (TypeOK /\ NamesApply)'
  BY <1>1, TypeNext
<1> QED
  BY InitType, <1>2, PTL DEF Spec

\* The inductive invariant holds from the beginning ...
LEMMA InitIInv == Init => IInv
<1>1. Init => Kept
  BY DEF Init, Kept, SignalIsLast, OnePort, OnPort, FlushIsLast, FlushInserted, LastRowKept, Blank
<1>2. Init => Single
  BY DEF Init, Single, Unfinished, PendingMissing, InsertMissing, RecordedOnce, Blank
<1>3. Init => Launching
  BY DEF Init, Launching, ReadIsCurrent, Fresh, WritingBack
<1> QED
  BY InitType, <1>1, <1>2, <1>3 DEF IInv

\* ... and for ever, in an orderly hand-off.
THEOREM RowsCorrect == ASSUME Orderly PROVE Spec => []IInv
<1>1. IInv /\ UNCHANGED vars => IInv'
  <2> SUFFICES ASSUME IInv, UNCHANGED vars PROVE IInv'
    OBVIOUS
  <2>1. Calm /\ TypeOK' /\ NamesApply' /\ Launching'
    BY DEF IInv, TypeOK, NamesApply, Launching, ReadIsCurrent, Fresh, WritingBack, Calm,
      OnPort, vars
  <2> QED
    BY <2>1, CalmKeeps DEF IInv
<1>2. IInv /\ [Next]_vars => IInv'
  BY <1>1, TypeNext, KeptNext DEF IInv
<1> QED
  BY InitIInv, <1>2, PTL DEF Spec

\* The success of the last apply with a restart is never forgotten: its row
\* is recorded or still in the file, whichever process dies when.
THEOREM LastRowIsKept == ASSUME Orderly PROVE Spec => []LastRowKept
<1>1. IInv => LastRowKept
  BY DEF IInv, Kept
<1> QED
  BY RowsCorrect, <1>1, PTL

\* No apply is recorded twice unless a flush ended between its insert and
\* its write-back.
THEOREM RowIsRecordedOnce == ASSUME Orderly PROVE Spec => []RecordedOnce
<1>1. IInv => RecordedOnce
  BY DEF IInv, Single
<1> QED
  BY RowsCorrect, <1>1, PTL

-----------------------------------------------------------------------------
(* The promise of OwedRow *)

(***************************************************************************)
(* What the mapping needs beside IInv: a flush between its insert and its  *)
(* write-back has the port for itself, so that the file still holds what   *)
(* it read.                                                                *)
(***************************************************************************)
FlushStillPending ==
  \A s \in Server : srv[s] \in {"insert", "rewrite"} => signal.pending

\* The row in the file is that of the last apply, which waits for a restart.
PendingIsLater == signal.pending => last \in Apply /\ Mode[last] # "none"

OInv == IInv /\ FlushStillPending /\ PendingIsLater

LEMMA CalmStillPending ==
  ASSUME OInv, Calm PROVE FlushStillPending' /\ PendingIsLater'
BY DEF OInv, Calm, FlushStillPending, PendingIsLater, OnPort

LEMMA NextPending ==
  ASSUME Orderly, OInv, Next
  PROVE  FlushStillPending' /\ PendingIsLater'
<1> USE DEF OInv, IInv, TypeOK
<1>1. CASE Calm
  BY <1>1, CalmStillPending
<1>2. ASSUME NEW s \in Server, Bind(s), Listening = {}
      PROVE  FlushStillPending' /\ PendingIsLater'
  BY <1>2 DEF Bind, FlushStillPending, PendingIsLater
<1>3. ASSUME NEW s \in Server, FlushRead(s) PROVE FlushStillPending' /\ PendingIsLater'
  BY <1>3 DEF FlushRead, FlushStillPending, PendingIsLater
<1>4. ASSUME NEW s \in Server, FlushInsert(s) PROVE FlushStillPending' /\ PendingIsLater'
  BY <1>4 DEF FlushInsert, FlushStillPending, PendingIsLater
<1>5. ASSUME NEW s \in Server, FlushRewrite(s) PROVE FlushStillPending' /\ PendingIsLater'
  <2>1. \A t \in Server : srv'[t] \notin {"insert", "rewrite"}
    BY <1>5 DEF FlushRewrite, Kept, OnePort, OnPort
  <2>2. signal'.pending => signal.pending
    BY <1>5 DEF FlushRewrite, Signal
  <2> QED
    BY <1>5, <2>1, <2>2 DEF FlushRewrite, FlushStillPending, PendingIsLater
<1>6. ASSUME NEW a \in Apply, NEW s \in Server, Finish(a, s)
      PROVE  FlushStillPending' /\ PendingIsLater'
  <2>1. \A t \in Server : srv'[t] \notin {"insert", "rewrite"}
    BY <1>6 DEF Finish, Kept, OnePort, OnPort
  <2> QED
    BY <1>6, <2>1 DEF Finish, SignalOf, FlushStillPending, PendingIsLater
<1> QED
  BY <1>1, <1>2, <1>3, <1>4, <1>5, <1>6, MostAreCalm

\* A calm step shows only when it ends a flush before its write-back.
LEMMA CalmPromise ==
  ASSUME OInv, Calm, TypeOK' PROVE Promise!Interrupt \/ UNCHANGED Promise!vars
<1> USE DEF OInv, IInv, TypeOK
<1>1. UNCHANGED <<done, last, rows>> /\ signal'.apply = signal.apply
      /\ signal'.pending = signal.pending
      /\ \A s \in Server : srv'[s] = "rewrite" => srv[s] = "rewrite"
  BY DEF Calm, OnPort
<1>2. CASE \A s \in Server : srv[s] = "rewrite" => srv'[s] = "rewrite"
  <2>1. Owed' = Owed
    BY <1>1, <1>2 DEF Owed
  <2>2. cut' = cut
    <3>1. cut \in BOOLEAN /\ cut' \in BOOLEAN
      OBVIOUS
    <3>2. cut => cut'
      BY DEF Calm
    <3>3. cut' => cut
      BY <1>2 DEF Calm
    <3> QED
      BY <3>1, <3>2, <3>3
  <2> QED
    BY <1>1, <2>1, <2>2 DEF Promise!vars
<1>3. ASSUME NEW s \in Server, srv[s] = "rewrite", srv'[s] # "rewrite"
      PROVE  Promise!Interrupt
  <2>1. Owed = NoApply
    BY <1>3 DEF Owed
  <2>2. signal.pending /\ signal.apply = last /\ last \in Apply /\ Mode[last] # "none"
        /\ rows[last] > 0
    BY <1>3 DEF FlushStillPending, PendingIsLater, Kept, SignalIsLast, FlushIsLast,
      FlushInserted
  <2>3. \A t \in Server : srv'[t] # "rewrite"
    BY <1>1, <1>3 DEF Kept, OnePort, OnPort
  <2>4. Owed' = last
    BY <1>1, <2>2, <2>3 DEF Owed
  <2>5. cut'
    BY <1>3 DEF Calm
  <2> QED
    BY <1>1, <2>1, <2>2, <2>4, <2>5 DEF Promise!Interrupt
<1> QED
  BY <1>2, <1>3

\* The insert settles the row, the write-back shows only when it fails.
LEMMA FlushPromise ==
  ASSUME OInv, NEW s \in Server,
         FlushRead(s) \/ FlushInsert(s) \/ FlushRewrite(s)
  PROVE  Promise!Settle \/ Promise!Interrupt \/ UNCHANGED Promise!vars
<1> USE DEF OInv, IInv, TypeOK
<1>0. UNCHANGED <<done, last>> /\ OnPort(s) /\ \A t \in Server \ {s} : ~OnPort(t)
  BY DEF FlushRead, FlushInsert, FlushRewrite, Kept, OnePort, OnPort
<1>1. CASE FlushRead(s)
  <2>1. Owed' = Owed
    BY <1>1 DEF FlushRead, Owed
  <2> QED
    BY <1>1, <2>1 DEF FlushRead, Promise!vars
<1>2. CASE FlushInsert(s) /\ UNCHANGED rows /\ srv' = [srv EXCEPT ![s] = "ready"]
  <2>1. Owed' = Owed
    BY <1>2 DEF FlushInsert, Owed
  <2> QED
    BY <1>2, <2>1 DEF FlushInsert, Promise!vars
<1>3. CASE FlushInsert(s) /\ rows' = Recorded(raw[s].apply) /\ srv' = [srv EXCEPT ![s] = "rewrite"]
  <2>1. signal.pending /\ signal.apply = last /\ raw[s].apply = last /\ last \in Apply
    BY <1>3 DEF FlushInsert, FlushStillPending, Kept, SignalIsLast, FlushIsLast
  <2>2. Owed = last /\ Owed' = NoApply
    BY <1>0, <1>3, <2>1 DEF FlushInsert, Owed, OnPort
  <2>3. /\ rows'[last] = IF rows[last] = 2 THEN 2 ELSE rows[last] + 1
        /\ \A a \in Apply \ {last} : rows'[a] = rows[a]
    BY <1>3, <2>1 DEF Recorded
  <2>4. {a \in Apply : rows'[a] > 0} = {a \in Apply : rows[a] > 0} \cup {last}
    BY <2>1, <2>3
  <2>5. {a \in Apply : rows'[a] > 1}
          = {a \in Apply : rows[a] > 1} \cup ({a \in Apply : rows[a] > 0} \cap {last})
    BY <2>1, <2>3
  <2> QED
    BY <1>0, <1>3, <2>1, <2>2, <2>4, <2>5, RestartHandoffAssumption
      DEF FlushInsert, Promise!Settle
<1>4. CASE FlushRewrite(s)
  <2>1. srv[s] = "rewrite" /\ UNCHANGED rows /\ \A t \in Server : srv'[t] # "rewrite"
    BY <1>0, <1>4 DEF FlushRewrite, OnPort
  <2>2. Owed = NoApply
    BY <2>1 DEF Owed
  <2>3. CASE UNCHANGED cut /\ ~signal'.pending
    <3>1. Owed' = NoApply
      BY <2>3 DEF Owed
    <3> QED
      BY <1>0, <2>1, <2>2, <2>3, <3>1 DEF Promise!vars
  <2>4. CASE cut' = TRUE /\ UNCHANGED signal
    <3>1. signal.pending /\ signal.apply = last /\ last \in Apply /\ Mode[last] # "none"
          /\ rows[last] > 0
      BY <2>1 DEF FlushStillPending, PendingIsLater, Kept, SignalIsLast, FlushIsLast,
        FlushInserted
    <3>2. Owed' = last
      BY <2>1, <2>4, <3>1 DEF Owed
    <3> QED
      BY <1>0, <2>1, <2>2, <2>4, <3>1, <3>2 DEF Promise!Interrupt
  <2> QED
    BY <1>4, <2>3, <2>4 DEF FlushRewrite, Signal
<1> QED
  BY <1>1, <1>2, <1>3, <1>4 DEF FlushInsert

\* A server that finishes an apply has the port, so that no flush is between
\* its insert and its write-back.
LEMMA FinishPromise ==
  ASSUME OInv, NEW a \in Apply, NEW s \in Server, Finish(a, s)
  PROVE  Promise!FinishNow(a) \/ Promise!FinishLater(a)
<1> USE DEF OInv, IInv, TypeOK
<1>1. /\ a \notin done /\ done' = done \cup {a} /\ last' = a /\ cut' = cut
      /\ signal' = SignalOf(a) /\ UNCHANGED srv
  BY DEF Finish
<1>2. \A t \in Server : srv'[t] # "rewrite"
  BY DEF Finish, Kept, OnePort, OnPort
<1>3. Owed' = IF Mode[a] # "none" THEN a ELSE NoApply
  BY <1>1, <1>2 DEF Owed, SignalOf
<1>4. rows[a] = 0
  BY <1>1 DEF Single, Unfinished
<1>5. CASE UNCHANGED rows
  BY <1>1, <1>3, <1>5 DEF Promise!FinishNow, Promise!FinishLater, Promise!Finish
<1>6. CASE Mode[a] = "none" /\ rows' = Recorded(a)
  <2>1. rows'[a] = 1 /\ \A b \in Apply \ {a} : rows'[b] = rows[b]
    BY <1>4, <1>6 DEF Recorded
  <2>2. {b \in Apply : rows'[b] > 0} = {b \in Apply : rows[b] > 0} \cup {a}
    BY <1>4, <2>1
  <2>3. {b \in Apply : rows'[b] > 1} = {b \in Apply : rows[b] > 1}
    BY <1>4, <2>1
  <2> QED
    BY <1>1, <1>3, <1>6, <2>2, <2>3 DEF Promise!FinishNow, Promise!Finish
<1> QED
  BY <1>5, <1>6 DEF Finish

LEMMA NextPromise ==
  ASSUME Orderly, OInv, [Next]_vars
  PROVE  [Promise!Next]_Promise!vars
<1> USE DEF Promise!Next
<1>1. CASE UNCHANGED vars
  <2>1. Owed' = Owed
    BY <1>1 DEF vars, Owed
  <2> QED
    BY <1>1, <2>1 DEF vars, Promise!vars
<1>2. ASSUME NEW s \in Server, Bind(s), Listening = {} PROVE UNCHANGED Promise!vars
  <2>1. Owed' = Owed
    BY <1>2 DEF OInv, IInv, TypeOK, Bind, Owed
  <2> QED
    BY <1>2, <2>1 DEF Bind, Promise!vars
<1>3. CASE Next
  <2>1. ASSUME Calm PROVE [Promise!Next]_Promise!vars
    BY <1>3, <2>1, TypeNext, CalmPromise DEF OInv, IInv
  <2>2. ASSUME NEW s \in Server, FlushRead(s) \/ FlushInsert(s) \/ FlushRewrite(s)
        PROVE  [Promise!Next]_Promise!vars
    BY <2>2, FlushPromise
  <2>3. ASSUME NEW a \in Apply, NEW s \in Server, Finish(a, s)
        PROVE  [Promise!Next]_Promise!vars
    BY <2>3, FinishPromise
  <2> QED
    BY <1>2, <1>3, <2>1, <2>2, <2>3, MostAreCalm DEF OInv
<1> QED
  BY <1>1, <1>3

\* In an orderly hand-off the file acts like one row that is owed and settled
\* in a single step.
THEOREM ImplementsPromise == ASSUME Orderly PROVE Spec => OwesOneRow
<1>1. Init => Promise!Init /\ FlushStillPending /\ PendingIsLater
  <2> SUFFICES ASSUME Init PROVE Promise!Init /\ FlushStillPending /\ PendingIsLater
    OBVIOUS
  <2>1. Owed = NoApply
    BY DEF Init, Owed, Blank
  <2>2. {a \in Apply : rows[a] > 0} = {} /\ {a \in Apply : rows[a] > 1} = {}
    BY DEF Init
  <2> QED
    BY <2>1, <2>2 DEF Init, Blank, Promise!Init, FlushStillPending, PendingIsLater
<1>2. OInv /\ [Next]_vars => FlushStillPending' /\ PendingIsLater'
  <2>1. OInv /\ UNCHANGED vars => FlushStillPending' /\ PendingIsLater'
    BY DEF OInv, FlushStillPending, PendingIsLater, vars
  <2> QED
    BY <2>1, NextPending
<1>3. OInv /\ [Next]_vars => [Promise!Next]_Promise!vars
  BY NextPromise
<1>4. OInv <=> IInv /\ FlushStillPending /\ PendingIsLater
  BY DEF OInv
<1> QED
  BY <1>1, <1>2, <1>3, <1>4, RowsCorrect, PTL DEF Spec, OwesOneRow, Promise!Spec

-----------------------------------------------------------------------------
(* What the promise of OwedRow is worth *)

\* Whatever implements OwedRow records the row of the last apply or still
\* owes it, and records none twice before a settling step is interrupted.
THEOREM PromiseAccountsRows == Promise!Spec => []Promise!Accounted
<1> DEFINE Later == {a \in Apply : Mode[a] # "none"}
<1> DEFINE Has == {a \in Apply : rows[a] > 0}
<1> DEFINE Aside ==
      /\ last \in done \cup {NoApply}
      /\ Has \subseteq done
      /\ Owed # NoApply => Owed = last
      /\ Owed # NoApply => cut \/ Owed \notin Has
<1>1. Promise!Init => Aside /\ Promise!Accounted
  BY RestartHandoffAssumption DEF Promise!Init, Promise!Accounted
<1>2. Aside /\ Promise!Accounted /\ [Promise!Next]_Promise!vars => (Aside /\ Promise!Accounted)'
  <2> SUFFICES ASSUME Aside, Promise!Accounted, [Promise!Next]_Promise!vars
               PROVE  (Aside /\ Promise!Accounted)'
    OBVIOUS
  <2>1. ASSUME NEW a \in Apply, Promise!FinishNow(a) PROVE (Aside /\ Promise!Accounted)'
    BY <2>1, RestartHandoffAssumption DEF Promise!FinishNow, Promise!Finish, Promise!Accounted
  <2>2. ASSUME NEW a \in Apply, Promise!FinishLater(a) PROVE (Aside /\ Promise!Accounted)'
    BY <2>2 DEF Promise!FinishLater, Promise!Finish, Promise!Accounted
  <2>3. CASE Promise!Settle
    BY <2>3 DEF Promise!Settle, Promise!Accounted
  <2>4. CASE Promise!Interrupt
    BY <2>4 DEF Promise!Interrupt, Promise!Accounted
  <2>5. CASE UNCHANGED Promise!vars
    BY <2>5 DEF Promise!vars, Promise!Accounted
  <2> QED
    BY <2>1, <2>2, <2>3, <2>4, <2>5 DEF Promise!Next
<1> QED
  BY <1>1, <1>2, PTL DEF Promise!Spec
=============================================================================

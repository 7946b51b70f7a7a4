------------------------------ MODULE KrasSync ------------------------------
(***************************************************************************)
(* Replacing a table with a download of the land registry                  *)
(* (src/src/integrations/krasLandFileSync.ts) under the advisory lock of   *)
(* src/src/integrations/core.ts.                                           *)
(*                                                                         *)
(* The lock is PostgreSQL's: it belongs to a connection, counts how often  *)
(* that connection took it, and ends with the connection.  The code takes  *)
(* and gives it back through a pool, so each of the two statements runs on *)
(* whichever connection is free, and a connection that stays free for      *)
(* idleTimeoutMillis is closed.  The download is loaded into a table of    *)
(* its own, which then takes the name of the old one.                      *)
(*                                                                         *)
(* One key of the lock and one table are modelled.  Rows are batches: the  *)
(* first is what a suspiciously short download holds, both are a full one. *)
(***************************************************************************)
EXTENDS Naturals, FiniteSets

CONSTANTS
  Run,        \* calls of withAdvisoryLock for the key: timed and manual ones
  Process,    \* server processes on the one database
  Home,       \* the process of each run
  PoolMax,    \* DATABASE_POOL_MAX of each process
  MaxFaults,  \* bound: failed statements and processes that end
  Before,     \* the download the table holds at first
  NoTable

ASSUME KrasSyncAssumption ==
  /\ IsFiniteSet(Run)
  /\ Home \in [Run -> Process]
  /\ PoolMax \in [Process -> Nat]
  /\ MaxFaults \in Nat
  /\ Before \notin Run

Conn == UNION {{p} \X (1..PoolMax[p]) : p \in Process}
Batch == 1..2
Source == Run \cup {Before}
Content == SUBSET (Source \X Batch)
Table == {NoTable} \cup Content

ASSUME TableAssumption == \A t \in Content : t # NoTable

VARIABLES
  held,     \* how often each connection holds the lock
  pc,       \* where each run stands
  got,      \* batches of its download; nothing before it and for none
  target,   \* the table
  old,      \* <table>_krasold
  tmp,      \* <table>_krastmp
  faults,
  lapsed,   \* history: a connection that held the lock was closed while a
            \* run of its process worked
  overlapped \* history: two runs have been past the lock at once

lockVars  == <<held, lapsed, overlapped>>
tableVars == <<target, old, tmp>>
vars == <<held, pc, got, target, old, tmp, faults, lapsed, overlapped>>

InTry == {"insert1", "insert2", "count", "dropOld", "exists",
          "away", "in", "inFor", "dropAway"}
InWork == {"fetch", "dropTmp", "create", "back", "cleanup", "unlock"} \cup InTry
Step == {"new", "end"} \cup InWork

Works(r) == pc[r] \in InWork

TypeOK ==
  /\ held \in [Conn -> Nat]
  /\ pc \in [Run -> Step]
  /\ got \in [Source -> SUBSET Batch]
  /\ target \in Table /\ old \in Table /\ tmp \in Table
  /\ faults \in 0..MaxFaults
  /\ lapsed \in BOOLEAN
  /\ overlapped \in BOOLEAN

Init ==
  /\ held = [c \in Conn |-> 0]
  /\ pc = [r \in Run |-> "new"]
  /\ got = [s \in Source |-> IF s = Before THEN Batch ELSE {}]
  /\ target = {Before} \X Batch
  /\ old = NoTable
  /\ tmp = NoTable
  /\ faults = 0
  /\ lapsed = FALSE
  /\ overlapped = FALSE

-----------------------------------------------------------------------------
(* The lock *)

Goes(r, step) == pc' = [pc EXCEPT ![r] = step]

\* pg_try_advisory_lock on connection c: refused when another connection has
\* the lock, counted when c has it.
Acquire(r, c) ==
  /\ pc[r] = "new"
  /\ c[1] = Home[r]
  /\ \A d \in Conn \ {c} : held[d] = 0
  /\ held' = [held EXCEPT ![c] = @ + 1]
  /\ overlapped' = (overlapped \/ \E q \in Run : Works(q))
  /\ Goes(r, "fetch")
  /\ UNCHANGED <<got, tableVars, faults, lapsed>>

\* Mutant: the answer of pg_try_advisory_lock is not looked at.
BusyUnseen(r, c) ==
  /\ pc[r] = "new"
  /\ c[1] = Home[r]
  /\ \E d \in Conn \ {c} : held[d] > 0
  /\ Goes(r, "fetch")
  /\ UNCHANGED <<lockVars, got, tableVars, faults>>

Busy(r, c) ==
  /\ pc[r] = "new"
  /\ c[1] = Home[r]
  /\ \E d \in Conn \ {c} : held[d] > 0
  /\ Goes(r, "end")
  /\ UNCHANGED <<lockVars, got, tableVars, faults>>

\* Mutant: an unlock is counted whether or not the connection has the lock.
UnlockCounted(r, c) ==
  /\ pc[r] = "unlock"
  /\ c[1] = Home[r]
  /\ held' = [held EXCEPT ![c] = @ - 1]
  /\ Goes(r, "end")
  /\ UNCHANGED <<got, tableVars, faults, lapsed, overlapped>>

\* pg_advisory_unlock on connection c, which is a warning and nothing else
\* when c does not hold the lock.
Unlock(r, c) ==
  /\ pc[r] = "unlock"
  /\ c[1] = Home[r]
  /\ held' = [held EXCEPT ![c] = IF @ > 0 THEN @ - 1 ELSE 0]
  /\ Goes(r, "end")
  /\ UNCHANGED <<got, tableVars, faults, lapsed, overlapped>>

\* The pool closes a connection that was idle for too long; it is idle while
\* its lock's run downloads or uses other connections.
CloseIdle(c) ==
  /\ held[c] > 0
  /\ held' = [held EXCEPT ![c] = 0]
  /\ lapsed' = (lapsed \/ \E r \in Run : Home[r] = c[1] /\ Works(r))
  /\ UNCHANGED <<pc, got, tableVars, faults, overlapped>>

-----------------------------------------------------------------------------
(* The new table *)

\* The download: nothing keeps the old table, and so does an error.
Fetch(r) ==
  /\ pc[r] = "fetch"
  /\ \E b \in {{}, {1}, Batch} :
       /\ got' = [got EXCEPT ![r] = b]
       /\ Goes(r, IF b = {} THEN "unlock" ELSE "dropTmp")
  /\ UNCHANGED <<lockVars, tableVars, faults>>

\* Mutant: a table that an earlier run left behind is loaded on.
DropTmpReused(r) ==
  /\ pc[r] = "dropTmp"
  /\ Goes(r, IF tmp = NoTable THEN "create" ELSE "insert1")
  /\ UNCHANGED <<lockVars, got, tableVars, faults>>

DropTmp(r) ==
  /\ pc[r] = "dropTmp"
  /\ tmp' = NoTable
  /\ Goes(r, "create")
  /\ UNCHANGED <<lockVars, got, target, old, faults>>

\* A table that is there makes the statement fail, before the try block.
Create(r) ==
  /\ pc[r] = "create"
  /\ IF tmp = NoTable
     THEN tmp' = {} /\ Goes(r, "insert1")
     ELSE tmp' = tmp /\ Goes(r, "unlock")
  /\ UNCHANGED <<lockVars, got, target, old, faults>>

\* One batch after the other (insertVarcharRows).
Insert(r) ==
  /\ pc[r] \in {"insert1", "insert2"}
  /\ LET n == IF pc[r] = "insert1" THEN 1 ELSE 2 IN
     IF tmp = NoTable
     THEN tmp' = tmp /\ Goes(r, "cleanup")
     ELSE /\ tmp' = tmp \cup ({r} \X (got[r] \cap {n}))
          /\ Goes(r, IF n = 1 THEN "insert2" ELSE "count")
  /\ UNCHANGED <<lockVars, got, target, old, faults>>

\* KRAS_DROP_GUARD: a download far shorter than the table there is.
Suspicious(new) ==
  target # NoTable /\ Cardinality(new) < Cardinality(target)

\* Mutant: only an empty table is refused.
CountOnlyEmpty(r) ==
  /\ pc[r] = "count"
  /\ Goes(r, IF tmp = NoTable \/ tmp = {} THEN "cleanup" ELSE "dropOld")
  /\ UNCHANGED <<lockVars, got, tableVars, faults>>

\* The rows of both tables are counted.
Count(r) ==
  /\ pc[r] = "count"
  /\ Goes(r, IF tmp = NoTable \/ tmp = {} \/ Suspicious(tmp) THEN "cleanup" ELSE "dropOld")
  /\ UNCHANGED <<lockVars, got, tableVars, faults>>

-----------------------------------------------------------------------------
(* swapTables *)

DropOld(r) ==
  /\ pc[r] = "dropOld"
  /\ old' = NoTable
  /\ Goes(r, "exists")
  /\ UNCHANGED <<lockVars, got, target, tmp, faults>>

SeeTarget(r) ==
  /\ pc[r] = "exists"
  /\ Goes(r, IF target # NoTable THEN "away" ELSE "in")
  /\ UNCHANGED <<lockVars, got, tableVars, faults>>

\* Mutant: the table is dropped to make room for the new one.
RenameAwayDropped(r) ==
  /\ pc[r] = "away"
  /\ target' = NoTable
  /\ Goes(r, "inFor")
  /\ UNCHANGED <<lockVars, got, old, tmp, faults>>

RenameAway(r) ==
  /\ pc[r] = "away"
  /\ IF target # NoTable /\ old = NoTable
     THEN old' = target /\ target' = NoTable /\ Goes(r, "inFor")
     ELSE UNCHANGED <<old, target>> /\ Goes(r, "cleanup")
  /\ UNCHANGED <<lockVars, got, tmp, faults>>

\* When it fails, a table that had been renamed away ("inFor") comes back.
RenameIn(r) ==
  /\ pc[r] \in {"in", "inFor"}
  /\ IF tmp # NoTable /\ target = NoTable
     THEN target' = tmp /\ tmp' = NoTable /\ Goes(r, "dropAway")
     ELSE UNCHANGED <<target, tmp>> /\ Goes(r, IF pc[r] = "inFor" THEN "back" ELSE "cleanup")
  /\ UNCHANGED <<lockVars, got, old, faults>>

\* The old table gets its name back, if that can be done.
RenameBack(r) ==
  /\ pc[r] = "back"
  /\ IF old # NoTable /\ target = NoTable
     THEN target' = old /\ old' = NoTable
     ELSE UNCHANGED <<target, old>>
  /\ Goes(r, "cleanup")
  /\ UNCHANGED <<lockVars, got, tmp, faults>>

DropAway(r) ==
  /\ pc[r] = "dropAway"
  /\ old' = NoTable
  /\ Goes(r, "unlock")
  /\ UNCHANGED <<lockVars, got, target, tmp, faults>>

\* The table that was not to be, or could not be, put in place is dropped.
Cleanup(r) ==
  /\ pc[r] = "cleanup"
  /\ tmp' = NoTable
  /\ Goes(r, "unlock")
  /\ UNCHANGED <<lockVars, got, target, old, faults>>

-----------------------------------------------------------------------------
(* Faults *)

\* A statement fails: where it leads depends on the try block it is in.
StatementFails(r) ==
  /\ faults < MaxFaults
  /\ Works(r)
  /\ faults' = faults + 1
  /\ Goes(r, CASE pc[r] = "inFor" -> "back"
               [] pc[r] \in (InTry \ {"inFor"}) \cup {"back"} -> "cleanup"
               [] pc[r] = "unlock" -> "end"
               [] OTHER -> "unlock")
  /\ UNCHANGED <<lockVars, got, tableVars>>

\* The process ends, and with it its runs and connections.
Crash(p) ==
  /\ faults < MaxFaults
  /\ \E r \in Run : Home[r] = p /\ Works(r)
  /\ faults' = faults + 1
  /\ held' = [c \in Conn |-> IF c[1] = p THEN 0 ELSE held[c]]
  /\ pc' = [r \in Run |-> IF Home[r] = p /\ Works(r) THEN "end" ELSE pc[r]]
  /\ UNCHANGED <<got, tableVars, lapsed, overlapped>>

-----------------------------------------------------------------------------
Locking(r) == \E c \in Conn : Acquire(r, c) \/ Busy(r, c) \/ Unlock(r, c)

Loading(r) == Fetch(r) \/ DropTmp(r) \/ Create(r) \/ Insert(r) \/ Count(r)

Swapping(r) ==
  DropOld(r) \/ SeeTarget(r) \/ RenameAway(r) \/ RenameIn(r) \/ RenameBack(r)
    \/ DropAway(r) \/ Cleanup(r)

Next ==
  \/ \E r \in Run : Locking(r) \/ Loading(r) \/ Swapping(r) \/ StatementFails(r)
  \/ \E c \in Conn : CloseIdle(c)
  \/ \E p \in Process : Crash(p)

Spec == Init /\ [][Next]_vars

-----------------------------------------------------------------------------
(* Properties *)

Rows(s) == {s} \X got[s]
Whole(table) == \E s \in Source : got[s] # {} /\ table = Rows(s)

\* Two processes never work on the table at once, although the unlock of a
\* run may miss its lock and another run's unlock may hit it, unless a
\* connection that held the lock was closed while a run of its process still
\* worked.
ProcessesExclude ==
  ~lapsed => \A r, q \in Run : Works(r) /\ Works(q) => Home[r] = Home[q]

\* What is published under the table's name is one whole download, whatever
\* statement fails and wherever a process ends, as long as no two runs were
\* past the lock at once.
TableWhole == ~overlapped /\ target # NoTable => Whole(target)

\* A single fault never costs the last whole copy of the data.  It survives
\* under one of the three names, although a run that follows a crash starts
\* by dropping two of them.
CopyKept ==
  ~overlapped /\ faults <= 1 =>
    Whole(target) \/ Whole(old) \/ Whole(tmp)

-----------------------------------------------------------------------------
(* What replacing a table promises (TableReplacement) *)

\* A download is staged from the count of its rows until it has the table's
\* name or a statement fails.
Staging(r) == pc[r] \in {"dropOld", "exists", "away", "in", "inFor"}

Staged == IF \E r \in Run : Staging(r) THEN tmp ELSE NoTable

\* What a run can have downloaded: nothing is no download.
Download == {{s} \X b : s \in Source, b \in (SUBSET Batch) \ {{}}}

Replacement == INSTANCE TableReplacement WITH
  Download <- Download,
  Size     <- [d \in Download |-> Cardinality(d)],
  First    <- {Before} \X Batch,
  shown    <- target,
  staged   <- Staged,
  kept     <- old,
  sound    <- ~overlapped

\* Runs, faults and the table's three names implement the replacement.
ReplacesWhole == Replacement!Spec
=============================================================================

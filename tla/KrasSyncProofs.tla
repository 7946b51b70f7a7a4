--------------------------- MODULE KrasSyncProofs ---------------------------
(***************************************************************************)
(* What KrasSync guarantees for every number of runs, processes,           *)
(* connections and faults: processes exclude each other as long as no      *)
(* connection with the lock is closed under a run, what is published is a  *)
(* whole download, and a single fault does not cost the last copy.         *)
(***************************************************************************)
EXTENDS KrasSync, FiniteSetTheorems, TLAPS

(***************************************************************************)
(* The inductive strengthening of ProcessesExclude: one connection has the *)
(* lock, and it has it at least as often as its process has runs at work.  *)
(* An unlock that misses leaves it with more; none ever takes it below.    *)
(***************************************************************************)
AtWork(p) == {r \in Run : Home[r] = p /\ Works(r)}

OneHolder == \A c, d \in Conn : held[c] > 0 /\ held[d] > 0 => c = d

HeldPerRun ==
  ~lapsed =>
    \A r \in Run : Works(r) =>
      \E c \in Conn : c[1] = Home[r] /\ held[c] >= Cardinality(AtWork(Home[r]))

Holding == OneHolder /\ HeldPerRun

(***************************************************************************)
(* The inductive strengthening of TableWhole and CopyKept: while runs do   *)
(* not overlap, the one at work finds the three tables as it left them.    *)
(***************************************************************************)
Solo == ~overlapped => \A r, q \in Run : Works(r) /\ Works(q) => r = q

Downloaded ==
  \A r \in Run :
    /\ pc[r] \in {"new", "fetch"} => got[r] = {}
    /\ pc[r] \in {"dropTmp", "create"} \cup InTry => got[r] # {}

Loaded ==
  ~overlapped => \A r \in Run :
    /\ pc[r] = "create" => tmp = NoTable
    /\ pc[r] = "insert1" => tmp = {}
    /\ pc[r] = "insert2" => tmp = {r} \X (got[r] \cap {1})
    /\ pc[r] \in {"count", "dropOld", "exists", "away", "in", "inFor"} => tmp = Rows(r)

Swapped ==
  ~overlapped => \A r \in Run :
    /\ pc[r] \in {"exists", "away"} => old = NoTable
    /\ pc[r] \in {"away", "dropAway"} => target # NoTable
    /\ pc[r] = "in" => target = NoTable
    /\ pc[r] \in {"inFor", "back"} => target = NoTable /\ old # NoTable

WholeNames ==
  ~overlapped =>
    /\ target # NoTable => Whole(target)
    /\ old # NoTable => Whole(old)

NoFaultNoGap ==
  ~overlapped /\ faults = 0 /\ target = NoTable => \E r \in Run : pc[r] = "inFor"

OneFaultOneGap ==
  ~overlapped /\ faults <= 1 /\ target = NoTable =>
    old # NoTable \/ (faults = 1 /\ \E r \in Run : pc[r] \in {"exists", "in"})

Swap == Solo /\ Downloaded /\ Loaded /\ Swapped /\ WholeNames /\ NoFaultNoGap /\ OneFaultOneGap

-----------------------------------------------------------------------------
(* Types *)

LEMMA InitType == Init => TypeOK
<1> SUFFICES ASSUME Init PROVE TypeOK
  OBVIOUS
<1>1. {Before} \X Batch \in Content
  BY DEF Content, Source
<1>2. got \in [Source -> SUBSET Batch]
  BY DEF Init
<1>3. faults \in 0..MaxFaults
  BY KrasSyncAssumption DEF Init
<1>4. held \in [Conn -> Nat] /\ pc \in [Run -> Step]
  BY DEF Init, Step
<1> QED
  BY <1>1, <1>2, <1>3, <1>4 DEF Init, TypeOK, Table

LEMMA LockingType == ASSUME TypeOK, NEW r \in Run, Locking(r) PROVE TypeOK'
<1> USE DEF lockVars, tableVars, Goes, Step, InWork
<1>1. ASSUME NEW c \in Conn, Acquire(r, c) PROVE TypeOK'
  <2>1. held' \in [Conn -> Nat]
    BY <1>1 DEF TypeOK, Acquire
  <2>2. overlapped' \in BOOLEAN
    BY <1>1 DEF TypeOK, Acquire
  <2> QED
    BY <1>1, <2>1, <2>2 DEF TypeOK, Acquire
<1>2. ASSUME NEW c \in Conn, Busy(r, c) PROVE TypeOK'
  BY <1>2 DEF TypeOK, Busy
<1>3. ASSUME NEW c \in Conn, Unlock(r, c) PROVE TypeOK'
  <2>1. held' \in [Conn -> Nat]
    BY <1>3 DEF TypeOK, Unlock
  <2> QED
    BY <1>3, <2>1 DEF TypeOK, Unlock
<1> QED
  BY <1>1, <1>2, <1>3 DEF Locking

LEMMA LoadingType == ASSUME TypeOK, NEW r \in Run, Loading(r) PROVE TypeOK'
<1> USE DEF lockVars, tableVars, Goes, Step, InWork, InTry
<1>1. CASE Fetch(r)
  <2>1. r \in Source /\ {1} \subseteq Batch
    BY DEF Source, Batch
  <2> QED
    BY <1>1, <2>1 DEF TypeOK, Fetch
<1>2. CASE DropTmp(r)
  BY <1>2 DEF TypeOK, DropTmp, Table
<1>3. CASE Create(r)
  <2>1. {} \in Content
    BY DEF Content
  <2> QED
    BY <1>3, <2>1 DEF TypeOK, Create, Table
<1>4. CASE Insert(r)
  <2>1. \A n : {r} \X (got[r] \cap {n}) \in Content
    BY DEF TypeOK, Content, Source
  <2>2. tmp # NoTable => \A n : tmp \cup ({r} \X (got[r] \cap {n})) \in Content
    BY <2>1 DEF TypeOK, Table, Content
  <2>3. tmp' \in Table
    <3>1. tmp' = tmp \/ (tmp # NoTable /\ \E n : tmp' = tmp \cup ({r} \X (got[r] \cap {n})))
      BY <1>4 DEF Insert
    <3> QED
      BY <3>1, <2>2 DEF TypeOK, Table
  <2>4. pc' \in [Run -> Step]
    BY <1>4 DEF Insert, TypeOK
  <2> QED
    BY <1>4, <2>3, <2>4 DEF TypeOK, Insert
<1>5. CASE Count(r)
  BY <1>5 DEF TypeOK, Count
<1> QED
  BY <1>1, <1>2, <1>3, <1>4, <1>5 DEF Loading

LEMMA SwappingType == ASSUME TypeOK, NEW r \in Run, Swapping(r) PROVE TypeOK'
<1> USE DEF lockVars, tableVars, Goes, Step, InWork, InTry, Table
<1>1. CASE DropOld(r)
  BY <1>1 DEF TypeOK, DropOld
<1>2. CASE SeeTarget(r)
  BY <1>2 DEF TypeOK, SeeTarget
<1>3. CASE RenameAway(r)
  BY <1>3 DEF TypeOK, RenameAway
<1>4. CASE RenameIn(r)
  BY <1>4 DEF TypeOK, RenameIn
<1>5. CASE RenameBack(r)
  BY <1>5 DEF TypeOK, RenameBack
<1>6. CASE DropAway(r)
  BY <1>6 DEF TypeOK, DropAway
<1>7. CASE Cleanup(r)
  BY <1>7 DEF TypeOK, Cleanup
<1> QED
  BY <1>1, <1>2, <1>3, <1>4, <1>5, <1>6, <1>7 DEF Swapping

LEMMA FaultType ==
  ASSUME TypeOK,
         \/ \E r \in Run : StatementFails(r)
         \/ \E c \in Conn : CloseIdle(c)
         \/ \E p \in Process : Crash(p)
  PROVE  TypeOK'
<1> USE DEF lockVars, tableVars, Goes, Step, InWork
<1>1. ASSUME NEW r \in Run, StatementFails(r) PROVE TypeOK'
  <2>1. faults' \in 0..MaxFaults
    BY <1>1, KrasSyncAssumption DEF TypeOK, StatementFails
  <2>2. pc' \in [Run -> Step]
    BY <1>1 DEF TypeOK, StatementFails
  <2> QED
    BY <1>1, <2>1, <2>2 DEF TypeOK, StatementFails
<1>2. ASSUME NEW c \in Conn, CloseIdle(c) PROVE TypeOK'
  <2>1. lapsed' \in BOOLEAN
    BY <1>2 DEF TypeOK, CloseIdle
  <2> QED
    BY <1>2, <2>1 DEF TypeOK, CloseIdle
<1>3. ASSUME NEW p \in Process, Crash(p) PROVE TypeOK'
  <2>1. faults' \in 0..MaxFaults
    BY <1>3, KrasSyncAssumption DEF TypeOK, Crash
  <2>2. held' \in [Conn -> Nat] /\ pc' \in [Run -> Step]
    BY <1>3 DEF TypeOK, Crash
  <2> QED
    BY <1>3, <2>1, <2>2 DEF TypeOK, Crash
<1> QED
  BY <1>1, <1>2, <1>3

LEMMA NextType == TypeOK /\ [Next]_vars => TypeOK'
<1> SUFFICES ASSUME TypeOK, [Next]_vars PROVE TypeOK'
  OBVIOUS
<1>1. CASE Next
  BY <1>1, LockingType, LoadingType, SwappingType, FaultType DEF Next
<1>2. CASE UNCHANGED vars
  BY <1>2 DEF TypeOK, vars
<1> QED
  BY <1>1, <1>2

\* Every variable has its type in every state.
THEOREM TypeCorrect == Spec => []TypeOK
<1> QED
  BY InitType, NextType, PTL DEF Spec

-----------------------------------------------------------------------------
(* The lock *)

\* The runs at work in a process are finitely many, and a process without any
\* has the number 0.
LEMMA AtWorkFinite ==
  ASSUME NEW p
  PROVE  IsFiniteSet(AtWork(p)) /\ Cardinality(AtWork(p)) \in Nat
<1>1. AtWork(p) \subseteq Run
  BY DEF AtWork
<1>2. IsFiniteSet(AtWork(p))
  BY <1>1, FS_Subset, KrasSyncAssumption
<1> QED
  BY <1>2, FS_CardinalityType

LEMMA SomeAtWork ==
  ASSUME NEW r \in Run, Works(r)
  PROVE  Cardinality(AtWork(Home[r])) >= 1
<1>1. r \in AtWork(Home[r])
  BY DEF AtWork
<1> QED
  BY <1>1, AtWorkFinite, FS_EmptySet

\* The runs at work stay the same when every run does what it did.
LEMMA SameAtWork ==
  ASSUME \A r \in Run : Works(r)' = Works(r)
  PROVE  \A p : AtWork(p)' = AtWork(p)
BY DEF AtWork

\* A step which leaves the lock alone and starts nobody keeps the invariant.
LEMMA QuietHolding ==
  ASSUME TypeOK, Holding, UNCHANGED <<held, lapsed>>,
         \A r \in Run : Works(r)' => Works(r)
  PROVE  Holding'
<1>1. OneHolder'
  BY DEF Holding, OneHolder
<1>2. ASSUME ~lapsed, NEW r \in Run, Works(r)'
      PROVE \E c \in Conn : c[1] = Home[r] /\ held'[c] >= Cardinality(AtWork(Home[r])')
  <2>1. PICK c \in Conn : c[1] = Home[r] /\ held[c] >= Cardinality(AtWork(Home[r]))
    BY <1>2 DEF Holding, HeldPerRun
  <2>2. AtWork(Home[r])' \subseteq AtWork(Home[r])
    BY DEF AtWork
  <2>3. Cardinality(AtWork(Home[r])') <= Cardinality(AtWork(Home[r]))
        /\ Cardinality(AtWork(Home[r])') \in Nat
    BY <2>2, AtWorkFinite, FS_Subset, FS_CardinalityType
  <2>4. held'[c] >= Cardinality(AtWork(Home[r])')
    BY <2>1, <2>3, AtWorkFinite DEF TypeOK
  <2> QED
    BY <2>1, <2>4
<1>3. HeldPerRun'
  BY <1>2 DEF HeldPerRun
<1> QED
  BY <1>1, <1>3 DEF Holding

LEMMA AcquireHolding ==
  ASSUME TypeOK, Holding, NEW r \in Run, NEW c \in Conn, Acquire(r, c)
  PROVE  Holding'
<1>0. /\ held' = [held EXCEPT ![c] = held[c] + 1] /\ lapsed' = lapsed
      /\ c[1] = Home[r] /\ \A d \in Conn \ {c} : held[d] = 0
      /\ ~Works(r) /\ Works(r)' /\ \A q \in Run \ {r} : Works(q)' = Works(q)
  BY DEF Acquire, Goes, TypeOK, Works, InWork, InTry, Step
<1>1. OneHolder'
  BY <1>0 DEF TypeOK, OneHolder
<1>2. ASSUME ~lapsed, NEW q \in Run, Works(q)'
      PROVE /\ c[1] = Home[q]
            /\ held'[c] >= Cardinality(AtWork(Home[q])')
  <2>1. Home[q] = Home[r] /\ Cardinality(AtWork(Home[r])) <= held[c]
    <3>1. CASE \E s \in Run : Works(s)
      <4>1. ASSUME NEW s \in Run, Works(s)
            PROVE Home[s] = Home[r] /\ Cardinality(AtWork(Home[r])) <= held[c]
        <5>1. PICK d \in Conn : d[1] = Home[s] /\ held[d] >= Cardinality(AtWork(Home[s]))
          BY <1>2, <4>1 DEF Holding, HeldPerRun
        <5>2. held[d] # 0
          BY <5>1, <4>1, SomeAtWork, AtWorkFinite DEF TypeOK
        <5>3. d = c
          BY <5>2, <1>0
        <5> QED
          BY <5>1, <5>3, <1>0, AtWorkFinite DEF TypeOK
      <4>2. q # r => Home[q] = Home[r]
        BY <4>1, <1>2, <1>0
      <4> QED
        BY <3>1, <4>1, <4>2
    <3>2. CASE \A s \in Run : ~Works(s)
      <4>1. q = r
        BY <3>2, <1>2, <1>0
      <4>2. AtWork(Home[r]) = {}
        BY <3>2 DEF AtWork
      <4> QED
        BY <4>1, <4>2, FS_EmptySet DEF TypeOK
    <3> QED
      BY <3>1, <3>2
  <2>2. AtWork(Home[r])' = AtWork(Home[r]) \cup {r} /\ r \notin AtWork(Home[r])
    BY <1>0 DEF AtWork
  <2>3. Cardinality(AtWork(Home[r])') = Cardinality(AtWork(Home[r])) + 1
    BY <2>2, AtWorkFinite, FS_AddElement
  <2>4. held'[c] = held[c] + 1
    BY <1>0 DEF TypeOK
  <2>5. held'[c] >= Cardinality(AtWork(Home[r])')
    BY <2>1, <2>3, <2>4, AtWorkFinite DEF TypeOK
  <2> QED
    BY <2>1, <2>5, <1>0
<1>3. HeldPerRun'
  BY <1>2, <1>0 DEF HeldPerRun
<1> QED
  BY <1>1, <1>3 DEF Holding

LEMMA UnlockHolding ==
  ASSUME TypeOK, Holding, NEW r \in Run, NEW c \in Conn, Unlock(r, c)
  PROVE  Holding'
<1>0. /\ held' = [held EXCEPT ![c] = IF held[c] > 0 THEN held[c] - 1 ELSE 0]
      /\ lapsed' = lapsed /\ c[1] = Home[r]
      /\ Works(r) /\ ~Works(r)' /\ \A q \in Run \ {r} : Works(q)' = Works(q)
  BY DEF Unlock, Goes, TypeOK, Works, InWork, InTry, Step
<1>1. OneHolder'
  BY <1>0 DEF TypeOK, Holding, OneHolder
<1>2. ASSUME ~lapsed, NEW q \in Run, Works(q)'
      PROVE \E d \in Conn : d[1] = Home[q] /\ held'[d] >= Cardinality(AtWork(Home[q])')
  <2>1. PICK d \in Conn : d[1] = Home[q] /\ held[d] >= Cardinality(AtWork(Home[q]))
    BY <1>0, <1>2 DEF Holding, HeldPerRun
  <2>2. CASE Home[q] = Home[r]
    <3>1. AtWork(Home[r])' = AtWork(Home[r]) \ {r} /\ r \in AtWork(Home[r])
      BY <1>0 DEF AtWork
    <3>2. Cardinality(AtWork(Home[r])') = Cardinality(AtWork(Home[r])) - 1
      BY <3>1, AtWorkFinite, FS_RemoveElement
    <3>3. held'[d] >= held[d] - 1
      BY <1>0 DEF TypeOK
    <3>4. held'[d] >= Cardinality(AtWork(Home[r])')
      BY <2>1, <2>2, <3>2, <3>3, <1>0, AtWorkFinite DEF TypeOK
    <3> QED
      BY <2>1, <2>2, <3>4
  <2>3. CASE Home[q] # Home[r]
    <3>1. AtWork(Home[q])' = AtWork(Home[q])
      BY <1>0, <2>3 DEF AtWork
    <3>2. held'[d] = held[d]
      BY <1>0, <2>1, <2>3 DEF TypeOK
    <3> QED
      BY <2>1, <3>1, <3>2
  <2> QED
    BY <2>2, <2>3
<1>3. HeldPerRun'
  BY <1>2, <1>0 DEF HeldPerRun
<1> QED
  BY <1>1, <1>3 DEF Holding

LEMMA CloseHolding ==
  ASSUME TypeOK, Holding, NEW c \in Conn, CloseIdle(c)
  PROVE  Holding'
<1>0. /\ held' = [held EXCEPT ![c] = 0]
      /\ lapsed' = (lapsed \/ \E r \in Run : Home[r] = c[1] /\ Works(r))
      /\ \A q \in Run : Works(q)' = Works(q)
  BY DEF CloseIdle, Works
<1>1. OneHolder'
  BY <1>0 DEF TypeOK, Holding, OneHolder
<1>2. ASSUME ~lapsed', NEW q \in Run, Works(q)'
      PROVE \E d \in Conn : d[1] = Home[q] /\ held'[d] >= Cardinality(AtWork(Home[q])')
  <2>1. PICK d \in Conn : d[1] = Home[q] /\ held[d] >= Cardinality(AtWork(Home[q]))
    BY <1>0, <1>2 DEF Holding, HeldPerRun
  <2>2. d # c /\ held'[d] = held[d]
    BY <1>0, <1>2, <2>1 DEF TypeOK
  <2>3. AtWork(Home[q])' = AtWork(Home[q])
    BY <1>0, SameAtWork
  <2> QED
    BY <2>1, <2>2, <2>3
<1>3. HeldPerRun'
  BY <1>2 DEF HeldPerRun
<1> QED
  BY <1>1, <1>3 DEF Holding

LEMMA CrashHolding ==
  ASSUME TypeOK, Holding, NEW p \in Process, Crash(p)
  PROVE  Holding'
<1>0. /\ held' = [d \in Conn |-> IF d[1] = p THEN 0 ELSE held[d]]
      /\ lapsed' = lapsed
      /\ \A q \in Run : Works(q)' = (Works(q) /\ Home[q] # p)
  BY DEF Crash, Works, TypeOK, InWork, InTry
<1>1. OneHolder'
  BY <1>0 DEF TypeOK, Holding, OneHolder
<1>2. ASSUME ~lapsed, NEW q \in Run, Works(q)'
      PROVE \E d \in Conn : d[1] = Home[q] /\ held'[d] >= Cardinality(AtWork(Home[q])')
  <2>1. PICK d \in Conn : d[1] = Home[q] /\ held[d] >= Cardinality(AtWork(Home[q]))
    BY <1>0, <1>2 DEF Holding, HeldPerRun
  <2>2. held'[d] = held[d]
    BY <1>0, <1>2, <2>1
  <2>3. AtWork(Home[q])' = AtWork(Home[q])
    BY <1>0, <1>2 DEF AtWork
  <2> QED
    BY <2>1, <2>2, <2>3
<1>3. HeldPerRun'
  BY <1>2, <1>0 DEF HeldPerRun
<1> QED
  BY <1>1, <1>3 DEF Holding

LEMMA NextHolding == TypeOK /\ Holding /\ [Next]_vars => Holding'
<1> SUFFICES ASSUME TypeOK, Holding, [Next]_vars PROVE Holding'
  OBVIOUS
<1>1. ASSUME NEW r \in Run, Locking(r) PROVE Holding'
  <2>1. ASSUME NEW c \in Conn, Busy(r, c) PROVE Holding'
    BY <2>1, QuietHolding DEF Busy, lockVars, Goes, Works, InWork, InTry, TypeOK
  <2> QED
    BY <1>1, <2>1, AcquireHolding, UnlockHolding DEF Locking
<1>2. ASSUME NEW r \in Run, Loading(r) \/ Swapping(r) \/ StatementFails(r) PROVE Holding'
  <2>1. UNCHANGED <<held, lapsed>> /\ Works(r) /\ \A q \in Run \ {r} : pc'[q] = pc[q]
    BY <1>2 DEF Loading, Fetch, DropTmp, Create, Insert, Count, Swapping, DropOld,
      SeeTarget, RenameAway, RenameIn, RenameBack, DropAway, Cleanup, StatementFails,
      Goes, lockVars, Works, InWork, InTry, TypeOK
  <2> QED
    BY <2>1, QuietHolding DEF Works
<1>3. ASSUME NEW c \in Conn, CloseIdle(c) PROVE Holding'
  BY <1>3, CloseHolding
<1>4. ASSUME NEW p \in Process, Crash(p) PROVE Holding'
  BY <1>4, CrashHolding
<1>5. CASE UNCHANGED vars
  BY <1>5, QuietHolding DEF vars, Works
<1> QED
  BY <1>1, <1>2, <1>3, <1>4, <1>5 DEF Next

\* Runs of two processes are never at work at once while no connection that
\* had the lock was closed under one.
THEOREM ProcessesAreExclusive == Spec => []ProcessesExclude
<1>1. Init => Holding
  BY DEF Init, Holding, OneHolder, HeldPerRun, Works, InWork, InTry
<1>2. TypeOK /\ Holding => ProcessesExclude
  <2> SUFFICES ASSUME TypeOK, Holding, ~lapsed, NEW r \in Run, NEW q \in Run,
                      Works(r), Works(q)
               PROVE Home[r] = Home[q]
    BY DEF ProcessesExclude
  <2>1. PICK c \in Conn : c[1] = Home[r] /\ held[c] >= Cardinality(AtWork(Home[r]))
    BY DEF Holding, HeldPerRun
  <2>2. PICK d \in Conn : d[1] = Home[q] /\ held[d] >= Cardinality(AtWork(Home[q]))
    BY DEF Holding, HeldPerRun
  <2>3. held[c] > 0 /\ held[d] > 0
    BY <2>1, <2>2, SomeAtWork, AtWorkFinite DEF TypeOK
  <2> QED
    BY <2>1, <2>2, <2>3 DEF Holding, OneHolder
<1> QED
  BY <1>1, <1>2, NextHolding, TypeCorrect, PTL DEF Spec

-----------------------------------------------------------------------------
(* The tables *)

\* What stays a whole download while a download that has begun is the same.
LEMMA WholeStays ==
  ASSUME NEW table, Whole(table), \A s \in Source : got[s] # {} => got'[s] = got[s]
  PROVE  Whole(table)'
BY DEF Whole, Rows

LEMMA InitSwap == Init => Swap
<1> SUFFICES ASSUME Init PROVE Swap
  OBVIOUS
<1>1. Whole(target)
  <2>1. Before \in Source /\ got[Before] = Batch /\ Batch # {}
    BY DEF Init, Source, Batch
  <2> QED
    BY <2>1 DEF Init, Whole, Rows
<1>2. target \in Content
  BY DEF Init, Content, Source
<1>3. target # NoTable
  BY <1>2, TableAssumption
<1>4. \A r \in Run : got[r] = {}
  BY KrasSyncAssumption DEF Init, Source
<1> QED
  BY <1>1, <1>3, <1>4 DEF Init, Swap, Solo, Downloaded, Loaded, Swapped, WholeNames,
    NoFaultNoGap, OneFaultOneGap, Works, InWork, InTry

\* A run that begins is alone, or the runs overlap from now on.
LEMMA AcquireSwap ==
  ASSUME TypeOK, Swap, NEW r \in Run, NEW c \in Conn, Acquire(r, c)
  PROVE  Swap'
<1>0. /\ pc' = [pc EXCEPT ![r] = "fetch"] /\ pc[r] = "new"
      /\ overlapped' = (overlapped \/ \E q \in Run : Works(q))
      /\ UNCHANGED <<got, tableVars, faults>>
  BY DEF Acquire, Goes
<1> USE DEF TypeOK, Swap, Works, InWork, InTry, tableVars
<1>1. Solo'
  BY <1>0 DEF Solo
<1>2. Downloaded'
  BY <1>0 DEF Downloaded
<1>3. Loaded' /\ Swapped'
  BY <1>0 DEF Loaded, Swapped, Rows
<1>4. WholeNames'
  BY <1>0, WholeStays DEF WholeNames
<1>5. NoFaultNoGap' /\ OneFaultOneGap'
  BY <1>0 DEF NoFaultNoGap, OneFaultOneGap
<1> QED
  BY <1>1, <1>2, <1>3, <1>4, <1>5

\* A run that ends, or is refused, leaves the tables as they are.
LEMMA EndSwap ==
  ASSUME TypeOK, Swap, NEW r \in Run,
         pc[r] \in {"new", "unlock"}, pc' = [pc EXCEPT ![r] = "end"],
         UNCHANGED <<overlapped, got, tableVars>>,
         faults' \in {faults, faults + 1}
  PROVE  Swap'
<1> USE DEF TypeOK, Swap, Works, InWork, InTry, tableVars
<1>1. Solo' /\ Downloaded'
  BY DEF Solo, Downloaded
<1>2. Loaded' /\ Swapped'
  BY DEF Loaded, Swapped, Rows
<1>3. WholeNames'
  BY WholeStays DEF WholeNames
<1>4. NoFaultNoGap' /\ OneFaultOneGap'
  <2>1. faults \in Nat
    BY KrasSyncAssumption
  <2>2. NoFaultNoGap'
    BY <2>1 DEF NoFaultNoGap
  <2>3. OneFaultOneGap'
    BY <2>1, <2>2 DEF OneFaultOneGap, NoFaultNoGap, Swapped
  <2> QED
    BY <2>2, <2>3
<1> QED
  BY <1>1, <1>2, <1>3, <1>4

\* The new table is built apart from the others.
LEMMA LoadingSwap ==
  ASSUME TypeOK, Swap, NEW r \in Run, Loading(r)
  PROVE  Swap'
<1> USE DEF TypeOK, Swap, Goes, lockVars, tableVars, Works, InWork, InTry
<1>1. Works(r)
  BY DEF Loading, Fetch, DropTmp, Create, Insert, Count
<1>2. Solo'
  BY <1>1 DEF Solo, Loading, Fetch, DropTmp, Create, Insert, Count
<1>3. Downloaded'
  BY DEF Downloaded, Loading, Fetch, DropTmp, Create, Insert, Count, Batch, Source
<1>4. Loaded'
  <2>1. CASE Fetch(r)
    BY <2>1 DEF Solo, Loaded, Fetch, Rows, Source
  <2>2. CASE DropTmp(r)
    BY <2>2 DEF Solo, Loaded, DropTmp, Rows
  <2>3. CASE Create(r)
    BY <2>3 DEF Solo, Loaded, Create, Rows
  <2>4. CASE Insert(r)
    <3>1. pc[r] = "insert2" /\ ~overlapped => tmp \cup ({r} \X (got[r] \cap {2})) = Rows(r)
      <4>1. got[r] \subseteq {1, 2}
        BY DEF Source, Batch
      <4> QED
        BY <4>1 DEF Loaded, Rows
    <3> QED
      BY <2>4, <3>1 DEF Solo, Loaded, Insert, Rows
  <2>5. CASE Count(r)
    <3>1. ~overlapped => tmp = Rows(r)
      BY <2>5 DEF Loaded, Count
    <3> QED
      BY <2>5, <3>1 DEF Solo, Loaded, Count, Rows
  <2> QED
    BY <2>1, <2>2, <2>3, <2>4, <2>5 DEF Loading
<1>5. Swapped'
  BY DEF Solo, Swapped, Loading, Fetch, DropTmp, Create, Insert, Count
<1>6. WholeNames'
  <2>1. \A s \in Source : got[s] # {} => got'[s] = got[s]
    BY DEF Downloaded, Loading, Fetch, DropTmp, Create, Insert, Count, Source
  <2>2. UNCHANGED <<target, old, overlapped>>
    BY DEF Loading, Fetch, DropTmp, Create, Insert, Count
  <2> QED
    BY <2>1, <2>2, WholeStays DEF WholeNames
<1>7. NoFaultNoGap' /\ OneFaultOneGap'
  BY DEF NoFaultNoGap, OneFaultOneGap, Loading, Fetch, DropTmp, Create, Insert, Count
<1> QED
  BY <1>2, <1>3, <1>4, <1>5, <1>6, <1>7

\* The rename back and forth has a copy under one of the names throughout.
LEMMA SwappingSwap ==
  ASSUME TypeOK, Swap, NEW r \in Run, Swapping(r)
  PROVE  Swap'
<1> USE DEF TypeOK, Swap, Goes, lockVars, tableVars, Works, InWork, InTry
<1>0. UNCHANGED <<got, overlapped, faults>> /\ Works(r)
  BY DEF Swapping, DropOld, SeeTarget, RenameAway, RenameIn, RenameBack, DropAway, Cleanup
<1>1. Solo'
  BY <1>0 DEF Solo, Swapping, DropOld, SeeTarget, RenameAway, RenameIn, RenameBack,
    DropAway, Cleanup
<1>2. Downloaded'
  BY <1>0 DEF Downloaded, Swapping, DropOld, SeeTarget, RenameAway, RenameIn,
    RenameBack, DropAway, Cleanup
<1>3. Loaded'
  BY <1>0 DEF Solo, Loaded, Rows, Swapping, DropOld, SeeTarget, RenameAway, RenameIn,
    RenameBack, DropAway, Cleanup
<1>4. ASSUME ~overlapped, pc[r] \in {"in", "inFor"} PROVE Whole(tmp)
  <2>1. r \in Source
    BY DEF Source
  <2>2. tmp = Rows(r) /\ got[r] # {}
    BY <1>4 DEF Loaded, Downloaded
  <2> QED
    BY <2>1, <2>2 DEF Whole
<1>5. tmp # NoTable \/ overlapped
        \/ pc[r] \notin {"dropOld", "exists", "away", "in", "inFor"}
  <2>1. Rows(r) \in Content
    BY DEF Rows, Content, Source
  <2> QED
    BY <2>1, TableAssumption DEF Loaded
<1>6. Swapped'
  BY <1>0, <1>5 DEF Solo, Swapped, Swapping, DropOld, SeeTarget, RenameAway, RenameIn,
    RenameBack, DropAway, Cleanup
<1>7. WholeNames'
  <2>1. \A t : Whole(t) => Whole(t)'
    BY <1>0 DEF Whole, Rows
  <2>2. ~overlapped /\ target' # NoTable => Whole(target')
    BY <1>4 DEF WholeNames, Swapping, DropOld, SeeTarget, RenameAway, RenameIn,
      RenameBack, DropAway, Cleanup
  <2>3. ~overlapped /\ old' # NoTable => Whole(old')
    BY DEF WholeNames, Swapping, DropOld, SeeTarget, RenameAway, RenameIn,
      RenameBack, DropAway, Cleanup
  <2> QED
    BY <1>0, <2>1, <2>2, <2>3 DEF WholeNames, Whole, Rows
<1>8. NoFaultNoGap'
  BY <1>0, <1>5 DEF Solo, NoFaultNoGap, Swapped, Swapping, DropOld, SeeTarget, RenameAway,
    RenameIn, RenameBack, DropAway, Cleanup
<1>9. OneFaultOneGap'
  <2>1. faults \in Nat
    BY KrasSyncAssumption
  <2> QED
    BY <1>0, <1>5, <2>1 DEF Solo, OneFaultOneGap, NoFaultNoGap, Swapped, Swapping,
      DropOld, SeeTarget, RenameAway, RenameIn, RenameBack, DropAway, Cleanup
<1> QED
  BY <1>1, <1>2, <1>3, <1>6, <1>7, <1>8, <1>9

\* A failed statement sends its run to the handler of its try block.
LEMMA FailSwap ==
  ASSUME TypeOK, Swap, NEW r \in Run, StatementFails(r), pc[r] # "unlock"
  PROVE  Swap'
<1> USE DEF TypeOK, Swap, tableVars, lockVars
<1>0. /\ UNCHANGED <<got, overlapped, target, old, tmp>> /\ faults' = faults + 1
      /\ pc[r] \in InWork
      /\ \/ pc[r] = "inFor" /\ pc' = [pc EXCEPT ![r] = "back"]
         \/ pc[r] # "inFor" /\ pc' = [pc EXCEPT ![r] = "cleanup"]
         \/ pc[r] # "inFor" /\ pc' = [pc EXCEPT ![r] = "unlock"]
  BY DEF StatementFails, Goes, Works, InWork, InTry
<1>1. Solo' /\ Downloaded'
  BY <1>0 DEF Solo, Downloaded, Works, InWork, InTry
<1>2. Loaded' /\ Swapped'
  BY <1>0 DEF Loaded, Swapped, Rows
<1>3. WholeNames'
  BY <1>0, WholeStays DEF WholeNames
<1>4. faults \in Nat
  BY KrasSyncAssumption
<1>5. NoFaultNoGap'
  BY <1>0, <1>4 DEF NoFaultNoGap
<1>6. OneFaultOneGap'
  BY <1>0, <1>4 DEF OneFaultOneGap, NoFaultNoGap, Swapped
<1> QED
  BY <1>1, <1>2, <1>3, <1>5, <1>6

\* A process that ends leaves the tables as they are.
LEMMA CrashSwap ==
  ASSUME TypeOK, Swap, NEW p \in Process, Crash(p)
  PROVE  Swap'
<1> USE DEF TypeOK, Swap, tableVars
<1>0. /\ UNCHANGED <<got, overlapped, target, old, tmp>> /\ faults' = faults + 1
      /\ \A r \in Run : pc'[r] = pc[r] \/ pc'[r] = "end"
  BY DEF Crash
<1>1. Solo' /\ Downloaded'
  BY <1>0 DEF Solo, Downloaded, Works, InWork, InTry
<1>2. Loaded' /\ Swapped'
  BY <1>0 DEF Loaded, Swapped, Rows
<1>3. WholeNames'
  BY <1>0, WholeStays DEF WholeNames
<1>4. faults \in Nat
  BY KrasSyncAssumption
<1>5. NoFaultNoGap'
  BY <1>0, <1>4 DEF NoFaultNoGap
<1>6. OneFaultOneGap'
  BY <1>0, <1>4 DEF OneFaultOneGap, NoFaultNoGap, Swapped
<1> QED
  BY <1>1, <1>2, <1>3, <1>5, <1>6

LEMMA NextSwap == TypeOK /\ Swap /\ [Next]_vars => Swap'
<1> SUFFICES ASSUME TypeOK, Swap, [Next]_vars PROVE Swap'
  OBVIOUS
<1>0. faults \in Nat
  BY KrasSyncAssumption DEF TypeOK
<1>1. ASSUME NEW r \in Run, Locking(r) PROVE Swap'
  <2>1. ASSUME NEW c \in Conn, Busy(r, c) \/ Unlock(r, c) PROVE Swap'
    BY <2>1, EndSwap DEF Busy, Unlock, Goes, lockVars, tableVars
  <2> QED
    BY <1>1, <2>1, AcquireSwap DEF Locking
<1>2. ASSUME NEW r \in Run, Loading(r) \/ Swapping(r) PROVE Swap'
  BY <1>2, LoadingSwap, SwappingSwap
<1>3. ASSUME NEW r \in Run, StatementFails(r) PROVE Swap'
  <2>1. CASE pc[r] = "unlock"
    BY <1>3, <2>1, EndSwap DEF StatementFails, Goes, lockVars, tableVars, InTry
  <2> QED
    BY <1>3, <2>1, FailSwap
<1>4. CASE (\E c \in Conn : CloseIdle(c)) \/ UNCHANGED vars
  <2>1. UNCHANGED <<pc, got, target, old, tmp, faults, overlapped>>
    BY <1>4 DEF CloseIdle, vars, tableVars
  <2> QED
    BY <2>1 DEF Swap, Solo, Downloaded, Loaded, Swapped, WholeNames, NoFaultNoGap,
      OneFaultOneGap, Works, Whole, Rows
<1>5. ASSUME NEW p \in Process, Crash(p) PROVE Swap'
  BY <1>5, CrashSwap
<1> QED
  BY <1>1, <1>2, <1>3, <1>4, <1>5 DEF Next

\* The published table is one whole download whatever fails, while the runs
\* do not overlap.
THEOREM PublishedWhole == Spec => []TableWhole
<1>1. Swap => TableWhole
  BY DEF Swap, WholeNames, TableWhole
<1> QED
  BY <1>1, InitSwap, NextSwap, TypeCorrect, PTL DEF Spec

\* One fault does not cost the last whole copy of the table.
THEOREM CopySurvives == Spec => []CopyKept
<1>1. TypeOK /\ Swap => CopyKept
  <2> SUFFICES ASSUME TypeOK, Swap, ~overlapped, faults <= 1
               PROVE Whole(target) \/ Whole(old) \/ Whole(tmp)
    BY DEF CopyKept
  <2>1. CASE target # NoTable \/ old # NoTable
    BY <2>1 DEF Swap, WholeNames
  <2>2. CASE target = NoTable /\ old = NoTable
    <3>1. PICK r \in Run : pc[r] \in {"exists", "in"}
      BY <2>2 DEF Swap, OneFaultOneGap
    <3>2. tmp = Rows(r) /\ got[r] # {}
      BY <3>1 DEF Swap, Loaded, Downloaded, InTry
    <3> QED
      BY <3>2 DEF Whole, Source
  <2> QED
    BY <2>1, <2>2
<1> QED
  BY <1>1, InitSwap, NextSwap, TypeCorrect, PTL DEF Spec

-----------------------------------------------------------------------------
(* The replacement of the table *)

(***************************************************************************)
(* What the swap needs beside Swap: the download that is on its way to the *)
(* table's name was compared with the table that is renamed away for it.   *)
(***************************************************************************)
Guarded ==
  ~overlapped => \A r \in Run :
    /\ pc[r] \in {"dropOld", "exists", "away"} => Replacement!Fits(tmp, target)
    /\ pc[r] = "inFor" => Replacement!Fits(tmp, old)
    /\ pc[r] = "in" => old = NoTable

\* A whole table is one of the downloads.
LEMMA WholeIsDownload ==
  ASSUME TypeOK, NEW t, Whole(t)
  PROVE  t \in Download
<1>1. PICK s \in Source : got[s] # {} /\ t = {s} \X got[s]
  BY DEF Whole, Rows
<1>2. got[s] \in (SUBSET Batch) \ {{}}
  BY <1>1 DEF TypeOK
<1> QED
  BY <1>1, <1>2 DEF Download

\* A download has a number of rows.
LEMMA RowsCounted ==
  ASSUME NEW t \in Download
  PROVE  Cardinality(t) \in Nat
<1>1. PICK s \in Source, b \in SUBSET Batch : t = {s} \X b
  BY DEF Download
<1>2. IsFiniteSet({1}) /\ IsFiniteSet({s})
  BY FS_Singleton
<1>3. IsFiniteSet(b)
  <2>1. b \subseteq {1} \cup {2}
    BY DEF Batch
  <2>2. IsFiniteSet({1} \cup {2})
    BY <1>2, FS_AddElement
  <2> QED
    BY <2>1, <2>2, FS_Subset
<1>4. IsFiniteSet(t)
  BY <1>1, <1>2, <1>3, FS_Product
<1> QED
  BY <1>4, FS_CardinalityType

\* The guard refuses every download that does not fit the table.
LEMMA GuardFits ==
  ASSUME tmp \in Download, target # NoTable => target \in Download, ~Suspicious(tmp)
  PROVE  Replacement!Fits(tmp, target)
<1>1. Cardinality(tmp) \in Nat /\ (target # NoTable => Cardinality(target) \in Nat)
  BY RowsCounted
<1> QED
  BY <1>1 DEF Suspicious, Replacement!Fits

\* Guarded speaks of the tables and of runs at work only: it stays when no
\* table changes and no run gets any further than it was.
LEMMA QuietGuarded ==
  ASSUME Guarded, UNCHANGED tableVars, overlapped => overlapped',
         \A r \in Run : pc'[r] = pc[r] \/ ~Staging(r)'
  PROVE  Guarded'
BY DEF Guarded, tableVars, Staging, Replacement!Fits

LEMMA LoadingGuarded ==
  ASSUME TypeOK, Swap, Guarded, NEW r \in Run, Loading(r)
  PROVE  Guarded'
<1> USE DEF TypeOK, Goes, lockVars, tableVars
<1>1. CASE Fetch(r)
  BY <1>1, QuietGuarded DEF Fetch, Staging
<1>2. CASE DropTmp(r) \/ Create(r) \/ Insert(r)
  <2>1. ~overlapped => \A q \in Run : ~Staging(q)'
    BY <1>2 DEF DropTmp, Create, Insert, Swap, Solo, Works, InWork, InTry, Staging
  <2> QED
    BY <1>2, <2>1 DEF Guarded, Staging, DropTmp, Create, Insert
<1>3. CASE Count(r)
  <2>1. CASE pc' = [pc EXCEPT ![r] = "cleanup"]
    BY <1>3, <2>1, QuietGuarded DEF Count, Staging
  <2>2. CASE pc' = [pc EXCEPT ![r] = "dropOld"] /\ tmp # NoTable /\ ~Suspicious(tmp)
    <3>1. CASE overlapped
      BY <1>3, <3>1 DEF Guarded, Count
    <3>2. CASE ~overlapped
      <4>1. target # NoTable => target \in Download
        BY <3>2, WholeIsDownload DEF Swap, WholeNames
      <4>2. tmp \in Download
        <5>1. tmp = Rows(r) /\ got[r] # {} /\ r \in Source
          BY <1>3, <3>2 DEF Count, Swap, Loaded, Downloaded, InTry, Source
        <5> QED
          BY <5>1, WholeIsDownload DEF Whole
      <4>3. Replacement!Fits(tmp, target)
        BY <2>2, <4>1, <4>2, GuardFits
      <4> QED
        BY <1>3, <2>2, <4>3 DEF Guarded, Count, Replacement!Fits
    <3> QED
      BY <3>1, <3>2
  <2> QED
    BY <1>3, <2>1, <2>2 DEF Count
<1> QED
  BY <1>1, <1>2, <1>3 DEF Loading

LEMMA SwappingGuarded ==
  ASSUME TypeOK, Swap, Guarded, NEW r \in Run, Swapping(r)
  PROVE  Guarded'
<1> USE DEF TypeOK, Goes, lockVars, tableVars, Works, InWork, InTry
<1>1. ~overlapped => \A q \in Run \ {r} : ~Works(q)
  BY DEF Swap, Solo, Swapping, DropOld, SeeTarget, RenameAway, RenameIn, RenameBack,
    DropAway, Cleanup
<1>2. CASE DropOld(r)
  BY <1>1, <1>2 DEF Guarded, DropOld, Replacement!Fits
<1>3. CASE SeeTarget(r)
  BY <1>1, <1>3 DEF Guarded, Swap, Swapped, SeeTarget, Replacement!Fits
<1>4. CASE RenameAway(r)
  BY <1>1, <1>4 DEF Guarded, RenameAway, Replacement!Fits
<1>5. CASE RenameIn(r) \/ RenameBack(r) \/ DropAway(r) \/ Cleanup(r)
  BY <1>1, <1>5 DEF Guarded, RenameIn, RenameBack, DropAway, Cleanup
<1> QED
  BY <1>2, <1>3, <1>4, <1>5 DEF Swapping

LEMMA NextGuarded == TypeOK /\ Swap /\ Guarded /\ [Next]_vars => Guarded'
<1> SUFFICES ASSUME TypeOK, Swap, Guarded, [Next]_vars PROVE Guarded'
  OBVIOUS
<1> USE DEF TypeOK, Goes, lockVars
<1>1. ASSUME NEW r \in Run, Locking(r) PROVE Guarded'
  <2>1. UNCHANGED tableVars /\ (overlapped => overlapped')
        /\ \A q \in Run : pc'[q] = pc[q] \/ ~Staging(q)'
    BY <1>1 DEF Locking, Acquire, Busy, Unlock, Staging
  <2> QED
    BY <2>1, QuietGuarded
<1>2. ASSUME NEW r \in Run, Loading(r) \/ Swapping(r) PROVE Guarded'
  BY <1>2, LoadingGuarded, SwappingGuarded
<1>3. ASSUME NEW r \in Run, StatementFails(r) PROVE Guarded'
  BY <1>3, QuietGuarded DEF StatementFails, Staging
<1>4. ASSUME NEW p \in Process, Crash(p) PROVE Guarded'
  BY <1>4, QuietGuarded DEF Crash, Staging
<1>5. ASSUME NEW c \in Conn, CloseIdle(c) PROVE Guarded'
  BY <1>5, QuietGuarded DEF CloseIdle
<1>6. CASE UNCHANGED vars
  BY <1>6, QuietGuarded DEF vars, tableVars
<1> QED
  BY <1>1, <1>2, <1>3, <1>4, <1>5, <1>6 DEF Next

\* The only run at work is the one that stages a download.
LEMMA OneStages ==
  ASSUME TypeOK, Swap, ~overlapped, NEW r \in Run, Works(r),
         NEW step, pc' = [pc EXCEPT ![r] = step]
  PROVE  /\ Staged = IF pc[r] \in {"dropOld", "exists", "away", "in", "inFor"}
                     THEN tmp ELSE NoTable
         /\ Staged' = IF step \in {"dropOld", "exists", "away", "in", "inFor"}
                      THEN tmp' ELSE NoTable
<1>1. \A q \in Run \ {r} : ~Works(q) /\ pc'[q] = pc[q]
  BY DEF Swap, Solo, TypeOK
<1>2. \A q \in Run \ {r} : ~Staging(q) /\ ~Staging(q)'
  BY <1>1 DEF Works, InWork, InTry, Staging
<1> QED
  BY <1>2 DEF Staged, Staging, TypeOK

LEMMA NoneStages ==
  ASSUME TypeOK, Swap, ~overlapped, NEW r \in Run, Works(r),
         pc[r] \notin {"dropOld", "exists", "away", "in", "inFor"},
         pc' = [pc EXCEPT ![r] = "cleanup"] \/ pc' = [pc EXCEPT ![r] = "unlock"]
  PROVE  Staged = NoTable /\ Staged' = NoTable
<1>1. CASE pc' = [pc EXCEPT ![r] = "cleanup"]
  BY <1>1, OneStages
<1>2. CASE pc' = [pc EXCEPT ![r] = "unlock"]
  BY <1>2, OneStages
<1> QED
  BY <1>1, <1>2

LEMMA LoadingReplaces ==
  ASSUME TypeOK, Swap, ~overlapped, NEW r \in Run, Loading(r), Guarded'
  PROVE  Replacement!Stage \/ UNCHANGED Replacement!vars
<1> USE DEF Goes, lockVars, tableVars
<1>0. Works(r) /\ UNCHANGED <<target, old, faults, overlapped>>
  BY DEF Loading, Fetch, DropTmp, Create, Insert, Count, Works, InWork, InTry
<1>1. CASE Fetch(r) \/ DropTmp(r) \/ Create(r) \/ Insert(r)
  <2>1. Staged = NoTable /\ Staged' = NoTable
    BY <1>0, <1>1, OneStages DEF Fetch, DropTmp, Create, Insert
  <2> QED
    BY <1>0, <2>1 DEF Replacement!vars
<1>2. CASE Count(r)
  <2>1. CASE pc' = [pc EXCEPT ![r] = "cleanup"]
    <3>1. Staged = NoTable /\ Staged' = NoTable
      BY <1>0, <1>2, <2>1, OneStages DEF Count
    <3> QED
      BY <1>0, <3>1 DEF Replacement!vars
  <2>2. CASE pc' = [pc EXCEPT ![r] = "dropOld"]
    <3>1. Staged = NoTable /\ Staged' = tmp /\ tmp' = tmp
      BY <1>0, <1>2, <2>2, OneStages DEF Count
    <3>2. tmp \in Download
      <4>1. tmp = Rows(r) /\ got[r] # {} /\ r \in Source
        BY <1>2 DEF Count, Swap, Loaded, Downloaded, InTry, Source
      <4> QED
        BY <4>1, WholeIsDownload DEF Whole
    <3>3. Replacement!Fits(tmp, target)
      BY <1>0, <1>2, <2>2, <3>1 DEF Count, Guarded, TypeOK, Replacement!Fits
    <3> QED
      BY <1>0, <3>1, <3>2, <3>3 DEF Replacement!Stage, Replacement!Fits
  <2> QED
    BY <1>2, <2>1, <2>2 DEF Count
<1> QED
  BY <1>1, <1>2 DEF Loading

LEMMA SwappingReplaces ==
  ASSUME TypeOK, Swap, Guarded, ~overlapped, NEW r \in Run, Swapping(r)
  PROVE  \/ Replacement!Forget \/ Replacement!TakeAway \/ Replacement!Publish
         \/ Replacement!PutBack \/ UNCHANGED Replacement!vars
<1> USE DEF Goes, lockVars
<1>0. Works(r) /\ UNCHANGED <<faults, overlapped>>
  BY DEF Swapping, DropOld, SeeTarget, RenameAway, RenameIn, RenameBack, DropAway,
    Cleanup, Works, InWork, InTry
<1>1. pc[r] \in {"dropOld", "exists", "away", "in", "inFor"} => tmp # NoTable
  <2>1. Rows(r) \in Content
    BY DEF Rows, Content, Source, TypeOK
  <2> QED
    BY <2>1, TableAssumption DEF Swap, Loaded
<1>2. CASE DropOld(r)
  <2>1. Staged = tmp /\ Staged' = tmp
    BY <1>0, <1>2, OneStages DEF DropOld
  <2>2. target # NoTable \/ faults > 0
    BY <1>0, <1>2, KrasSyncAssumption DEF DropOld, Swap, NoFaultNoGap, Solo, Works, InWork,
      InTry, TypeOK
  <2> QED
    BY <1>0, <1>1, <1>2, <2>1, <2>2 DEF DropOld, Replacement!Forget
<1>3. CASE SeeTarget(r)
  <2>1. Staged = tmp /\ Staged' = tmp
    BY <1>0, <1>3, OneStages DEF SeeTarget, tableVars
  <2> QED
    BY <1>0, <1>3, <2>1 DEF SeeTarget, tableVars, Replacement!vars
<1>4. CASE RenameAway(r)
  <2>1. target # NoTable /\ old = NoTable
    BY <1>4 DEF RenameAway, Swap, Swapped
  <2>2. Staged = tmp /\ Staged' = tmp
    BY <1>0, <1>4, <2>1, OneStages DEF RenameAway
  <2> QED
    BY <1>0, <1>1, <1>4, <2>1, <2>2 DEF RenameAway, Replacement!TakeAway
<1>5. CASE RenameIn(r)
  <2>1. target = NoTable /\ tmp # NoTable
    BY <1>1, <1>5 DEF RenameIn, Swap, Swapped
  <2>2. Staged = tmp /\ Staged' = NoTable
    BY <1>0, <1>5, <2>1, OneStages DEF RenameIn
  <2>3. Replacement!Fits(tmp, old)
    BY <1>5 DEF RenameIn, Guarded, Replacement!Fits
  <2> QED
    BY <1>0, <1>5, <2>1, <2>2, <2>3 DEF RenameIn, Replacement!Publish, Replacement!Fits
<1>6. CASE RenameBack(r)
  <2>1. target = NoTable /\ old # NoTable
    BY <1>6 DEF RenameBack, Swap, Swapped
  <2>2. Staged = NoTable /\ Staged' = NoTable
    <3>1. pc[r] = "back" /\ pc' = [pc EXCEPT ![r] = "cleanup"]
      BY <1>6 DEF RenameBack
    <3> QED
      BY <1>0, <3>1, NoneStages
  <2> QED
    BY <1>0, <1>6, <2>1, <2>2 DEF RenameBack, Replacement!PutBack
<1>7. CASE DropAway(r)
  <2>1. pc[r] = "dropAway" /\ pc' = [pc EXCEPT ![r] = "unlock"]
    BY <1>7 DEF DropAway
  <2>2. target # NoTable
    BY <2>1 DEF Swap, Swapped
  <2>3. Staged = NoTable /\ Staged' = NoTable
    BY <1>0, <2>1, NoneStages
  <2> QED
    BY <1>0, <1>7, <2>2, <2>3 DEF DropAway, Replacement!Forget
<1>8. CASE Cleanup(r)
  <2>1. Staged = NoTable /\ Staged' = NoTable
    BY <1>0, <1>8, OneStages DEF Cleanup
  <2> QED
    BY <1>0, <1>8, <2>1 DEF Cleanup, Replacement!vars
<1> QED
  BY <1>2, <1>3, <1>4, <1>5, <1>6, <1>7, <1>8 DEF Swapping

LEMMA FaultReplaces ==
  ASSUME TypeOK, Swap, ~overlapped,
         (\E r \in Run : StatementFails(r)) \/ (\E p \in Process : Crash(p))
  PROVE  Replacement!Fail
<1> USE DEF tableVars, lockVars
<1>1. faults' = faults + 1 /\ UNCHANGED <<target, old, tmp, overlapped>>
  BY DEF StatementFails, Crash
<1>2. Staged' \in {Staged, NoTable}
  <2>1. \A r \in Run : Staging(r)' => Staging(r)
    BY DEF StatementFails, Crash, Goes, Staging, TypeOK
  <2> QED
    BY <1>1, <2>1 DEF Staged
<1> QED
  BY <1>1, <1>2 DEF Replacement!Fail

\* A run that begins or ends shows only when it is the second to begin.
LEMMA LockingReplaces ==
  ASSUME TypeOK, ~overlapped, NEW r \in Run, Locking(r)
  PROVE  Replacement!Disturb \/ UNCHANGED Replacement!vars
<1>1. UNCHANGED <<target, old, tmp, faults>> /\ overlapped' \in {overlapped, TRUE}
  BY DEF Locking, Acquire, Busy, Unlock, tableVars, lockVars, TypeOK
<1>2. \A q \in Run : Staging(q)' = Staging(q)
  BY DEF Locking, Acquire, Busy, Unlock, Goes, Staging, TypeOK
<1>3. Staged' = Staged
  BY <1>1, <1>2 DEF Staged
<1> QED
  BY <1>1, <1>3 DEF Replacement!Disturb, Replacement!vars

LEMMA NextReplaces ==
  TypeOK /\ Swap /\ Guarded /\ Guarded' /\ [Next]_vars
    => [Replacement!Next]_Replacement!vars
<1> SUFFICES ASSUME TypeOK, Swap, Guarded, Guarded', [Next]_vars
             PROVE  Replacement!Next \/ UNCHANGED Replacement!vars
  OBVIOUS
<1> USE DEF Replacement!Next
<1>1. CASE overlapped
  <2>1. overlapped'
    BY <1>1 DEF Next, Locking, Acquire, Busy, Unlock, Loading, Fetch, DropTmp, Create,
      Insert, Count, Swapping, DropOld, SeeTarget, RenameAway, RenameIn, RenameBack,
      DropAway, Cleanup, StatementFails, CloseIdle, Crash, lockVars, vars
  <2> QED
    BY <2>1 DEF Replacement!Disturb
<1>2. ASSUME ~overlapped, NEW r \in Run, Locking(r) PROVE Replacement!Next \/ UNCHANGED Replacement!vars
  BY <1>2, LockingReplaces
<1>3. ASSUME ~overlapped, NEW r \in Run, Loading(r) PROVE Replacement!Next \/ UNCHANGED Replacement!vars
  BY <1>3, LoadingReplaces
<1>4. ASSUME ~overlapped, NEW r \in Run, Swapping(r) PROVE Replacement!Next \/ UNCHANGED Replacement!vars
  BY <1>4, SwappingReplaces
<1>5. ASSUME ~overlapped, (\E r \in Run : StatementFails(r)) \/ (\E p \in Process : Crash(p))
      PROVE  Replacement!Next
  BY <1>5, FaultReplaces
<1>6. CASE (\E c \in Conn : CloseIdle(c)) \/ UNCHANGED vars
  <2>1. UNCHANGED <<pc, target, old, tmp, faults, overlapped>>
    BY <1>6 DEF CloseIdle, vars, tableVars
  <2> QED
    BY <2>1 DEF Replacement!vars, Staged, Staging
<1> QED
  BY <1>1, <1>2, <1>3, <1>4, <1>5, <1>6 DEF Next

\* KrasSync implements TableReplacement: whatever statement fails and wherever
\* a process ends, the three tables change only as a replacement may.
THEOREM ImplementsReplacement == Spec => ReplacesWhole
<1>1. Init => Replacement!Init /\ Guarded
  <2> SUFFICES ASSUME Init PROVE Replacement!Init /\ Guarded
    OBVIOUS
  <2>1. Staged = NoTable
    BY DEF Init, Staged, Staging
  <2> QED
    BY <2>1 DEF Init, Replacement!Init, Guarded
<1>2. TypeOK /\ Swap /\ Guarded /\ Guarded' /\ [Next]_vars
        => [Replacement!Next]_Replacement!vars
  BY NextReplaces
<1> QED
  BY <1>1, <1>2, InitSwap, NextSwap, NextGuarded, TypeCorrect, PTL
    DEF Spec, ReplacesWhole, Replacement!Spec

-----------------------------------------------------------------------------
(* What the promise of TableReplacement is worth *)

(***************************************************************************)
(* The inductive strengthening of OneCopy: before the first fault the copy *)
(* is the table or the one kept for it, so that the fault which costs the  *)
(* staged download leaves one.                                             *)
(***************************************************************************)
CopyAside ==
  ~overlapped =>
    /\ {target, Staged, old} \subseteq Download \cup {NoTable}
    /\ faults \in Nat
    /\ faults = 0 => target # NoTable \/ old # NoTable
    /\ faults = 1 => target # NoTable \/ old # NoTable \/ Staged # NoTable

\* Whatever implements TableReplacement has a whole download under one of
\* the three names after a single fault.
THEOREM ReplacementKeepsCopy == Replacement!Spec => []Replacement!OneCopy
<1>1. Replacement!Init => CopyAside
  <2>1. {Before} \X Batch \in Download
    BY DEF Download, Source, Batch
  <2>2. {Before} \X Batch # NoTable
    BY TableAssumption DEF Content, Source
  <2> QED
    BY <2>1, <2>2 DEF Replacement!Init, CopyAside
<1>2. CopyAside /\ [Replacement!Next]_Replacement!vars => CopyAside'
  <2> SUFFICES ASSUME CopyAside, [Replacement!Next]_Replacement!vars, ~overlapped'
               PROVE  CopyAside'
    BY DEF CopyAside
  <2>1. CASE Replacement!Stage \/ Replacement!TakeAway \/ Replacement!Publish
               \/ Replacement!PutBack
    BY <2>1 DEF CopyAside, Replacement!Stage, Replacement!TakeAway, Replacement!Publish,
      Replacement!PutBack
  <2>2. CASE Replacement!Forget
    BY <2>2 DEF CopyAside, Replacement!Forget
  <2>3. CASE Replacement!Fail
    BY <2>3 DEF CopyAside, Replacement!Fail
  <2>4. CASE Replacement!Disturb \/ UNCHANGED Replacement!vars
    BY <2>4 DEF CopyAside, Replacement!Disturb, Replacement!vars
  <2> QED
    BY <2>1, <2>2, <2>3, <2>4 DEF Replacement!Next
<1>3. CopyAside => Replacement!OneCopy
  BY DEF CopyAside, Replacement!OneCopy
<1> QED
  BY <1>1, <1>2, <1>3, PTL DEF Replacement!Spec
=============================================================================

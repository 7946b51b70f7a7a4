------------------------- MODULE SourceApplyProofs -------------------------
(***************************************************************************)
(* What SourceApply guarantees for every number of sessions, requests,     *)
(* files and stops of the server: its type invariant, and that sessions    *)
(* which never had to be read back from disk commit under the apply lock   *)
(* and therefore one at a time.                                            *)
(***************************************************************************)
EXTENDS SourceApply, TLAPS

(***************************************************************************)
(* A task past idle knows the session it works on.                         *)
(***************************************************************************)
HasJob == {"confirmRead", "abortRead", "orphans", "finish"} \cup Working

JobOK == \A t \in Task : pc[t] \in HasJob => job[t] \in Session

(***************************************************************************)
(* The inductive strengthening of CommitUnderLock.  Until it is revived, a *)
(* session has one bearer: its prepare, then its entry in the Map, then    *)
(* the one task that took it out of the Map; and the bearer's session is   *)
(* the owner of the lock.                                                  *)
(***************************************************************************)
Bears(t, s) == pc[t] \in Working /\ job[t] = s

MapBearer ==
  \A s \in Session \ revived : s \in mem => lock = s /\ Registered(s)

PrepareBearer ==
  \A s \in Session \ revived : pc[s] \in Preparing => lock = s /\ s \notin mem

TaskBearer ==
  \A s \in Session \ revived, t \in Task :
    Bears(t, s) => lock = s /\ s \notin mem /\ Registered(s)

OneBearer ==
  \A s \in Session \ revived, t, u \in Task :
    Bears(t, s) /\ Bears(u, s) => t = u

Bearing == MapBearer /\ PrepareBearer /\ TaskBearer /\ OneBearer

IInv == TypeOK /\ JobOK /\ Bearing

(***************************************************************************)
(* The strengthening of PackageKept: the package is on disk from the       *)
(* moment it is being unpacked.                                            *)
(***************************************************************************)
PackageWaits ==
  \A s \in Session \ revived :
    s \in mem \/ pc[s] \in {"unpack", "register"} => s \in tmp

Packages == PackageWaits /\ PackageKept

-----------------------------------------------------------------------------
(* Lemmas about the workspace operators *)

\* A snapshot of a tree is a snapshot record.
LEMMA TakeSnapshotType ==
  ASSUME NEW tree \in Tree, NEW list \in SUBSET File
  PROVE  TakeSnapshot(tree, list) \in Snapshot
BY DEF TakeSnapshot, Snapshot

\* Restoring a snapshot yields a tree, whichever files fail.
LEMMA RestoreType ==
  ASSUME NEW tree \in Tree, NEW s \in Snapshot, NEW failed
  PROVE  Restore(tree, s, failed) \in Tree
BY DEF Restore, Snapshot, Tree, Content

-----------------------------------------------------------------------------
USE DEF Task, Preparing, Committing, Working, PC, HasJob

USE DEF procVars, sessVars, taskVars, treeVars, geoVars

\* The initial states satisfy the inductive invariant.
LEMMA InitIInv == Init => IInv
<1> SUFFICES ASSUME Init PROVE IInv
  OBVIOUS
<1>1. pc \in [Task -> PC] /\ \A t \in Task : pc[t] \in {"new", "idle"}
  BY DEF Init
<1>2. live \in Tree /\ built \in Version /\ current \in Version
  BY DEF Init, Tree, Content, Version
<1>3. TypeOK
  <2>1. lock \in Session \cup {NoOne} /\ stops \in 0..MaxStops
    BY SourceApplyAssumption DEF Init
  <2>2. /\ job \in [Task -> Session \cup {NoOne}]
        /\ left \in [Task -> SUBSET File]
        /\ snap \in [Task -> Snapshot \cup {NoOne}]
    BY DEF Init
  <2> QED
    BY <1>1, <1>2, <2>1, <2>2 DEF Init, TypeOK
<1>4. JobOK
  BY <1>1 DEF JobOK
<1>5. MapBearer
  BY DEF Init, MapBearer
<1>6. PrepareBearer /\ TaskBearer /\ OneBearer
  BY <1>1 DEF PrepareBearer, TaskBearer, OneBearer, Bears
<1> QED
  BY <1>3, <1>4, <1>5, <1>6 DEF IInv, Bearing

\* Every step keeps the variables in their types, and a task that works on a
\* session has one.
LEMMA TypeNext ==
  ASSUME TypeOK, JobOK, Next
  PROVE  TypeOK' /\ JobOK'
<1> USE DEF TypeOK, JobOK
<1>1. ASSUME NEW s \in Session, Acquire(s) PROVE TypeOK' /\ JobOK'
  BY <1>1 DEF Acquire, Goto
<1>2. ASSUME NEW s \in Session, EnterPrepare(s) PROVE TypeOK' /\ JobOK'
  BY <1>2 DEF EnterPrepare, Goto
<1>3. ASSUME NEW s \in Session, FailBeforeTry(s) PROVE TypeOK' /\ JobOK'
  BY <1>3 DEF FailBeforeTry, Goto
<1>4. ASSUME NEW s \in Session, WritePending(s) PROVE TypeOK' /\ JobOK'
  BY <1>4 DEF WritePending, Goto
<1>5. ASSUME NEW s \in Session, RegisterPending(s) PROVE TypeOK' /\ JobOK'
  BY <1>5 DEF RegisterPending, Goto
<1>6. ASSUME NEW s \in Session, FailPrepare(s) PROVE TypeOK' /\ JobOK'
  BY <1>6 DEF FailPrepare, Goto, Released, GeoRecovered, Removed
<1>7. ASSUME NEW s \in Session, Expire(s) PROVE TypeOK' /\ JobOK'
  BY <1>7 DEF Expire
<1>8. ASSUME NEW s \in Session, Timeout(s) PROVE TypeOK' /\ JobOK'
  BY <1>8 DEF Timeout, Goto, TakeOver
<1>9. ASSUME NEW r \in Request, NEW s \in Session, AnswerFromMap(r, s) PROVE TypeOK' /\ JobOK'
  BY <1>9 DEF AnswerFromMap, Goto, TakeOver
<1>10. ASSUME NEW r \in Request, NEW s \in Session, AnswerFromFile(r, s) PROVE TypeOK' /\ JobOK'
  BY <1>10 DEF AnswerFromFile, Goto
<1>11. ASSUME NEW t \in Task, DeletePendingFile(t) PROVE TypeOK' /\ JobOK'
  BY <1>11 DEF DeletePendingFile, Goto, Removed
<1>12. ASSUME NEW t \in Task, Discard(t) PROVE TypeOK' /\ JobOK'
  BY <1>12 DEF Discard, Goto, Released, Removed, Logged
<1>13. ASSUME NEW r \in Request, Revive(r) PROVE TypeOK' /\ JobOK'
  BY <1>13 DEF Revive, Goto, TakeOver
<1>14. ASSUME NEW r \in Request, StopGeoServer(r) PROVE TypeOK' /\ JobOK'
  BY <1>14 DEF StopGeoServer, Goto
<1>15. ASSUME NEW r \in Request, BackUp(r) PROVE TypeOK' /\ JobOK'
  BY <1>15, TakeSnapshotType, SourceApplyAssumption DEF BackUp, Goto
<1>16. ASSUME NEW r \in Request, CopyFile(r) PROVE TypeOK' /\ JobOK'
  BY <1>16 DEF CopyFile, Tree, Content, Version
<1>17. ASSUME NEW r \in Request, CopyDone(r) PROVE TypeOK' /\ JobOK'
  BY <1>17 DEF CopyDone, Goto, GeoRecovered
<1>18. ASSUME NEW r \in Request, Build(r) PROVE TypeOK' /\ JobOK'
  BY <1>18 DEF Build, Goto, Version
<1>19. ASSUME NEW r \in Request, CommitThrows(r) PROVE TypeOK' /\ JobOK'
  BY <1>19 DEF CommitThrows, Goto
<1>20. ASSUME NEW r \in Request, RollBack(r) PROVE TypeOK' /\ JobOK'
  <2>1. live' \in Tree /\ mishap' \subseteq {"stop", "restore", "orphans", "boot"}
    <3>1. CASE snap[r] = NoOne
      BY <1>20, <3>1 DEF RollBack
    <3>2. CASE snap[r] # NoOne
      <4>1. snap[r] \in Snapshot
        BY <3>2
      <4>2. PICK failed \in SkippedOf("restore", snap[r].backedUp \cup snap[r].created) :
              /\ live' = Restore(live, snap[r], failed)
              /\ mishap' = IF failed = {} THEN mishap ELSE mishap \cup {"restore"}
        BY <1>20, <3>2 DEF RollBack
      <4> QED
        BY <4>1, <4>2, RestoreType
    <3> QED
      BY <3>1, <3>2
  <2> QED
    BY <1>20, <2>1 DEF RollBack, Goto, GeoRecovered
<1>21. ASSUME NEW r \in Request, CommitFailed(r) PROVE TypeOK' /\ JobOK'
  BY <1>21 DEF CommitFailed, Goto, Released, Removed
<1>22. ASSUME NEW r \in Request, CommitDone(r) PROVE TypeOK' /\ JobOK'
  <2>1. Orphans(Pkg[job[r]]) \in SUBSET File
    BY TreeAssumption DEF Orphans
  <2> QED
    BY <1>22, <2>1 DEF CommitDone, Goto, Released, Removed, Version
<1>23. ASSUME NEW r \in Request, CleanOrphan(r) PROVE TypeOK' /\ JobOK'
  <2>1. PICK f \in left[r] :
          /\ left' = [left EXCEPT ![r] = @ \ {f}]
          /\ live' \in {live, [live EXCEPT ![f] = Absent]}
          /\ mishap' \in {mishap, mishap \cup {"orphans"}}
    BY <1>23 DEF CleanOrphan
  <2>2. live' \in Tree
    BY <2>1 DEF Tree, Content
  <2> QED
    BY <1>23, <2>1, <2>2 DEF CleanOrphan
<1>24. ASSUME NEW r \in Request, Finish(r) PROVE TypeOK' /\ JobOK'
  <2>1. log' \subseteq Session \X {"success", "cancel"} /\ due' \in BOOLEAN
    <3>1. job[r] \in Session
      BY <1>24 DEF Finish
    <3>2. CASE job[r] \in Restarting
      BY <1>24, <3>2 DEF Finish
    <3>3. CASE job[r] \notin Restarting
      BY <1>24, <3>1, <3>3 DEF Finish, Logged
    <3> QED
      BY <3>2, <3>3
  <2> QED
    BY <1>24, <2>1 DEF Finish, Goto
<1>25. ASSUME NEW r \in Request, FinishFails(r) PROVE TypeOK' /\ JobOK'
  BY <1>25 DEF FinishFails, Goto
<1>26. ASSUME Stop PROVE TypeOK' /\ JobOK'
  <2>1. stops' \in 0..MaxStops
    BY <1>26, SourceApplyAssumption DEF Stop
  <2>2. pc' \in [Task -> PC] /\ \A t \in Task : pc'[t] \in {"new", "idle", "lost"}
    BY <1>26 DEF Stop
  <2>3. mishap' \subseteq {"stop", "restore", "orphans", "boot"}
    BY <1>26 DEF Stop
  <2> QED
    BY <1>26, <2>1, <2>2, <2>3 DEF Stop
<1>27. ASSUME Boot PROVE TypeOK' /\ JobOK'
  BY <1>27 DEF Boot
<1>28. ASSUME GeoServerAtBoot PROVE TypeOK' /\ JobOK'
  BY <1>28 DEF GeoServerAtBoot, GeoRecovered
<1>29. ASSUME NEW r \in Request, OrphansDone(r) PROVE TypeOK' /\ JobOK'
  BY <1>29 DEF OrphansDone, Goto
<1> QED
  BY <1>1, <1>2, <1>3, <1>4, <1>5, <1>6, <1>7, <1>8, <1>9, <1>10, <1>11, <1>12, <1>13, <1>14, <1>15, <1>16, <1>17, <1>18, <1>19, <1>20, <1>21, <1>22, <1>23, <1>24, <1>25, <1>26, <1>27, <1>28, <1>29
     DEF Next, Prepare, Answer, Continue, Commit, Tail

\* A step that leaves the lock, the Map and the jobs alone, and neither begins
\* a task nor a prepare, changes no bearer.
LEMMA BearersKept ==
  ASSUME IInv, UNCHANGED <<lock, mem, job, revived>>,
         \A t \in Task : pc'[t] \in Working => pc[t] \in Working,
         \A s \in Session : pc'[s] \in Preparing => pc[s] \in Preparing,
         \A s \in Session : Registered(s) => Registered(s)'
  PROVE  Bearing'
BY DEF IInv, Bearing, MapBearer, PrepareBearer, TaskBearer, OneBearer, Bears

\* Every step keeps the bearers unique and in possession of the lock.
LEMMA BearersNext ==
  ASSUME IInv, Next
  PROVE  Bearing'
<1> USE DEF IInv
<1>1. ASSUME NEW s \in Session, Acquire(s) PROVE Bearing'
  BY <1>1, SourceApplyAssumption DEF Acquire, Goto, TypeOK, JobOK, Registered, Bearing, MapBearer, PrepareBearer, TaskBearer, OneBearer, Bears
<1>2. ASSUME NEW s \in Session, EnterPrepare(s) PROVE Bearing'
  BY <1>2, BearersKept DEF EnterPrepare, Goto, TypeOK, Registered
<1>3. ASSUME NEW s \in Session, FailBeforeTry(s) PROVE Bearing'
  BY <1>3, BearersKept DEF FailBeforeTry, Goto, TypeOK, Registered
<1>4. ASSUME NEW s \in Session, WritePending(s) PROVE Bearing'
  BY <1>4, BearersKept DEF WritePending, Goto, TypeOK, Registered
<1>5. ASSUME NEW s \in Session, RegisterPending(s) PROVE Bearing'
  BY <1>5, SourceApplyAssumption DEF RegisterPending, Goto, TypeOK, JobOK, Registered, Bearing, MapBearer, PrepareBearer, TaskBearer, OneBearer, Bears
<1>6. ASSUME NEW s \in Session, FailPrepare(s) PROVE Bearing'
  BY <1>6, SourceApplyAssumption DEF FailPrepare, Goto, Released, TypeOK, JobOK, Registered, Bearing, MapBearer, PrepareBearer, TaskBearer, OneBearer, Bears
<1>7. ASSUME NEW s \in Session, Expire(s) PROVE Bearing'
  BY <1>7, BearersKept DEF Expire, TypeOK, Registered
<1>8. ASSUME NEW s \in Session, Timeout(s) PROVE Bearing'
  BY <1>8, SourceApplyAssumption DEF Timeout, Goto, TakeOver, TypeOK, JobOK, Registered, Bearing, MapBearer, PrepareBearer, TaskBearer, OneBearer, Bears
<1>9. ASSUME NEW r \in Request, NEW s \in Session, AnswerFromMap(r, s) PROVE Bearing'
  BY <1>9, SourceApplyAssumption DEF AnswerFromMap, Goto, TakeOver, TypeOK, JobOK, Registered, Bearing, MapBearer, PrepareBearer, TaskBearer, OneBearer, Bears
<1>10. ASSUME NEW r \in Request, NEW s \in Session, AnswerFromFile(r, s) PROVE Bearing'
  BY <1>10, SourceApplyAssumption DEF AnswerFromFile, Goto, TypeOK, JobOK, Registered, Bearing, MapBearer, PrepareBearer, TaskBearer, OneBearer, Bears
<1>11. ASSUME NEW t \in Task, DeletePendingFile(t) PROVE Bearing'
  BY <1>11, BearersKept DEF DeletePendingFile, Goto, TypeOK, Registered
<1>12. ASSUME NEW t \in Task, Discard(t) PROVE Bearing'
  BY <1>12, SourceApplyAssumption DEF Discard, Goto, Released, TypeOK, JobOK, Registered, Bearing, MapBearer, PrepareBearer, TaskBearer, OneBearer, Bears
<1>13. ASSUME NEW r \in Request, Revive(r) PROVE Bearing'
  BY <1>13, SourceApplyAssumption DEF Revive, Goto, TakeOver, TypeOK, JobOK, Registered, Bearing, MapBearer, PrepareBearer, TaskBearer, OneBearer, Bears
<1>14. ASSUME NEW r \in Request, StopGeoServer(r) PROVE Bearing'
  BY <1>14, BearersKept DEF StopGeoServer, Goto, TypeOK, Registered
<1>15. ASSUME NEW r \in Request, BackUp(r) PROVE Bearing'
  BY <1>15, BearersKept DEF BackUp, Goto, TypeOK, Registered
<1>16. ASSUME NEW r \in Request, CopyFile(r) PROVE Bearing'
  BY <1>16, BearersKept DEF CopyFile, TypeOK, Registered
<1>17. ASSUME NEW r \in Request, CopyDone(r) PROVE Bearing'
  BY <1>17, BearersKept DEF CopyDone, Goto, TypeOK, Registered
<1>18. ASSUME NEW r \in Request, Build(r) PROVE Bearing'
  BY <1>18, BearersKept DEF Build, Goto, TypeOK, Registered
<1>19. ASSUME NEW r \in Request, CommitThrows(r) PROVE Bearing'
  BY <1>19, BearersKept DEF CommitThrows, Goto, TypeOK, Registered
<1>20. ASSUME NEW r \in Request, RollBack(r) PROVE Bearing'
  BY <1>20, BearersKept DEF RollBack, Goto, TypeOK, Registered
<1>21. ASSUME NEW r \in Request, CommitFailed(r) PROVE Bearing'
  BY <1>21, SourceApplyAssumption DEF CommitFailed, Goto, Released, TypeOK, JobOK, Registered, Bearing, MapBearer, PrepareBearer, TaskBearer, OneBearer, Bears
<1>22. ASSUME NEW r \in Request, CommitDone(r) PROVE Bearing'
  BY <1>22, SourceApplyAssumption DEF CommitDone, Goto, Released, TypeOK, JobOK, Registered, Bearing, MapBearer, PrepareBearer, TaskBearer, OneBearer, Bears
<1>23. ASSUME NEW r \in Request, CleanOrphan(r) PROVE Bearing'
  BY <1>23, BearersKept DEF CleanOrphan, TypeOK, Registered
<1>24. ASSUME NEW r \in Request, Finish(r) PROVE Bearing'
  BY <1>24, SourceApplyAssumption DEF Finish, Goto, TypeOK, JobOK, Registered, Bearing, MapBearer, PrepareBearer, TaskBearer, OneBearer, Bears
<1>25. ASSUME NEW r \in Request, FinishFails(r) PROVE Bearing'
  BY <1>25, SourceApplyAssumption DEF FinishFails, Goto, TypeOK, JobOK, Registered, Bearing, MapBearer, PrepareBearer, TaskBearer, OneBearer, Bears
<1>26. ASSUME Stop PROVE Bearing'
  BY <1>26, SourceApplyAssumption DEF Stop, TypeOK, JobOK, Registered, Bearing, MapBearer, PrepareBearer, TaskBearer, OneBearer, Bears
<1>27. ASSUME Boot PROVE Bearing'
  BY <1>27, BearersKept DEF Boot, TypeOK, Registered
<1>28. ASSUME GeoServerAtBoot PROVE Bearing'
  BY <1>28, BearersKept DEF GeoServerAtBoot, TypeOK, Registered
<1>29. ASSUME NEW r \in Request, OrphansDone(r) PROVE Bearing'
  BY <1>29, BearersKept DEF OrphansDone, Goto, TypeOK, Registered
<1> QED
  BY <1>1, <1>2, <1>3, <1>4, <1>5, <1>6, <1>7, <1>8, <1>9, <1>10, <1>11, <1>12, <1>13, <1>14, <1>15, <1>16, <1>17, <1>18, <1>19, <1>20, <1>21, <1>22, <1>23, <1>24, <1>25, <1>26, <1>27, <1>28, <1>29
     DEF Next, Prepare, Answer, Continue, Commit, Tail

\* Every step accounts for the owner of the lock.
LEMMA LockAccountedNext ==
  ASSUME TypeOK, JobOK, LockAccounted, Next
  PROVE  LockAccounted'
<1> USE DEF TypeOK, JobOK, LockAccounted
<1>1. ASSUME NEW s \in Session, Acquire(s) PROVE LockAccounted'
  BY <1>1, SourceApplyAssumption DEF Acquire, Goto
<1>2. ASSUME NEW s \in Session, EnterPrepare(s) PROVE LockAccounted'
  BY <1>2, SourceApplyAssumption DEF EnterPrepare, Goto
<1>3. ASSUME NEW s \in Session, FailBeforeTry(s) PROVE LockAccounted'
  BY <1>3, SourceApplyAssumption DEF FailBeforeTry, Goto
<1>4. ASSUME NEW s \in Session, WritePending(s) PROVE LockAccounted'
  BY <1>4, SourceApplyAssumption DEF WritePending, Goto
<1>5. ASSUME NEW s \in Session, RegisterPending(s) PROVE LockAccounted'
  BY <1>5, SourceApplyAssumption DEF RegisterPending, Goto
<1>6. ASSUME NEW s \in Session, FailPrepare(s) PROVE LockAccounted'
  BY <1>6, SourceApplyAssumption DEF FailPrepare, Goto, Released, Removed
<1>7. ASSUME NEW s \in Session, Expire(s) PROVE LockAccounted'
  BY <1>7, SourceApplyAssumption DEF Expire
<1>8. ASSUME NEW s \in Session, Timeout(s) PROVE LockAccounted'
  BY <1>8, SourceApplyAssumption DEF Timeout, Goto, TakeOver
<1>9. ASSUME NEW r \in Request, NEW s \in Session, AnswerFromMap(r, s) PROVE LockAccounted'
  BY <1>9, SourceApplyAssumption DEF AnswerFromMap, Goto, TakeOver
<1>10. ASSUME NEW r \in Request, NEW s \in Session, AnswerFromFile(r, s) PROVE LockAccounted'
  BY <1>10, SourceApplyAssumption DEF AnswerFromFile, Goto
<1>11. ASSUME NEW t \in Task, DeletePendingFile(t) PROVE LockAccounted'
  BY <1>11, SourceApplyAssumption DEF DeletePendingFile, Goto
<1>12. ASSUME NEW t \in Task, Discard(t) PROVE LockAccounted'
  BY <1>12, SourceApplyAssumption DEF Discard, Goto, Released, Removed
<1>13. ASSUME NEW r \in Request, Revive(r) PROVE LockAccounted'
  BY <1>13, SourceApplyAssumption DEF Revive, Goto, TakeOver
<1>14. ASSUME NEW r \in Request, StopGeoServer(r) PROVE LockAccounted'
  BY <1>14, SourceApplyAssumption DEF StopGeoServer, Goto
<1>15. ASSUME NEW r \in Request, BackUp(r) PROVE LockAccounted'
  BY <1>15, SourceApplyAssumption DEF BackUp, Goto
<1>16. ASSUME NEW r \in Request, CopyFile(r) PROVE LockAccounted'
  BY <1>16, SourceApplyAssumption DEF CopyFile
<1>17. ASSUME NEW r \in Request, CopyDone(r) PROVE LockAccounted'
  BY <1>17, SourceApplyAssumption DEF CopyDone, Goto
<1>18. ASSUME NEW r \in Request, Build(r) PROVE LockAccounted'
  BY <1>18, SourceApplyAssumption DEF Build, Goto
<1>19. ASSUME NEW r \in Request, CommitThrows(r) PROVE LockAccounted'
  BY <1>19, SourceApplyAssumption DEF CommitThrows, Goto
<1>20. ASSUME NEW r \in Request, RollBack(r) PROVE LockAccounted'
  BY <1>20, SourceApplyAssumption DEF RollBack, Goto
<1>21. ASSUME NEW r \in Request, CommitFailed(r) PROVE LockAccounted'
  BY <1>21, SourceApplyAssumption DEF CommitFailed, Goto, Released, Removed
<1>22. ASSUME NEW r \in Request, CommitDone(r) PROVE LockAccounted'
  BY <1>22, SourceApplyAssumption DEF CommitDone, Goto, Released, Removed
<1>23. ASSUME NEW r \in Request, CleanOrphan(r) PROVE LockAccounted'
  BY <1>23, SourceApplyAssumption DEF CleanOrphan
<1>24. ASSUME NEW r \in Request, Finish(r) PROVE LockAccounted'
  BY <1>24, SourceApplyAssumption DEF Finish, Goto
<1>25. ASSUME NEW r \in Request, FinishFails(r) PROVE LockAccounted'
  BY <1>25, SourceApplyAssumption DEF FinishFails, Goto
<1>26. ASSUME Stop PROVE LockAccounted'
  BY <1>26, SourceApplyAssumption DEF Stop, Registered
<1>27. ASSUME Boot PROVE LockAccounted'
  BY <1>27, SourceApplyAssumption DEF Boot
<1>28. ASSUME GeoServerAtBoot PROVE LockAccounted'
  BY <1>28, SourceApplyAssumption DEF GeoServerAtBoot
<1>29. ASSUME NEW r \in Request, OrphansDone(r) PROVE LockAccounted'
  BY <1>29, SourceApplyAssumption DEF OrphansDone, Goto
<1> QED
  BY <1>1, <1>2, <1>3, <1>4, <1>5, <1>6, <1>7, <1>8, <1>9, <1>10, <1>11, <1>12, <1>13, <1>14, <1>15, <1>16, <1>17, <1>18, <1>19, <1>20, <1>21, <1>22, <1>23, <1>24, <1>25, <1>26, <1>27, <1>28, <1>29
     DEF Next, Prepare, Answer, Continue, Commit, Tail

\* No step deletes the package of a bearer.
LEMMA PackagesNext ==
  ASSUME IInv, Packages, Next
  PROVE  Packages'
<1> USE DEF IInv, TypeOK, JobOK, Bearing, MapBearer, PrepareBearer, TaskBearer, OneBearer, Bears, Registered, Packages, PackageWaits, PackageKept
<1>1. ASSUME NEW s \in Session, Acquire(s) PROVE Packages'
  BY <1>1 DEF Acquire, Goto
<1>2. ASSUME NEW s \in Session, EnterPrepare(s) PROVE Packages'
  BY <1>2 DEF EnterPrepare, Goto
<1>3. ASSUME NEW s \in Session, FailBeforeTry(s) PROVE Packages'
  BY <1>3 DEF FailBeforeTry, Goto
<1>4. ASSUME NEW s \in Session, WritePending(s) PROVE Packages'
  BY <1>4 DEF WritePending, Goto
<1>5. ASSUME NEW s \in Session, RegisterPending(s) PROVE Packages'
  BY <1>5 DEF RegisterPending, Goto
<1>6. ASSUME NEW s \in Session, FailPrepare(s) PROVE Packages'
  BY <1>6 DEF FailPrepare, Goto, Released, Removed
<1>7. ASSUME NEW s \in Session, Expire(s) PROVE Packages'
  BY <1>7 DEF Expire
<1>8. ASSUME NEW s \in Session, Timeout(s) PROVE Packages'
  BY <1>8 DEF Timeout, Goto, TakeOver
<1>9. ASSUME NEW r \in Request, NEW s \in Session, AnswerFromMap(r, s) PROVE Packages'
  BY <1>9 DEF AnswerFromMap, Goto, TakeOver
<1>10. ASSUME NEW r \in Request, NEW s \in Session, AnswerFromFile(r, s) PROVE Packages'
  BY <1>10 DEF AnswerFromFile, Goto
<1>11. ASSUME NEW t \in Task, DeletePendingFile(t) PROVE Packages'
  BY <1>11 DEF DeletePendingFile, Goto
<1>12. ASSUME NEW t \in Task, Discard(t) PROVE Packages'
  BY <1>12 DEF Discard, Goto, Released, Removed
<1>13. ASSUME NEW r \in Request, Revive(r) PROVE Packages'
  BY <1>13 DEF Revive, Goto, TakeOver
<1>14. ASSUME NEW r \in Request, StopGeoServer(r) PROVE Packages'
  BY <1>14 DEF StopGeoServer, Goto
<1>15. ASSUME NEW r \in Request, BackUp(r) PROVE Packages'
  BY <1>15 DEF BackUp, Goto
<1>16. ASSUME NEW r \in Request, CopyFile(r) PROVE Packages'
  BY <1>16 DEF CopyFile
<1>17. ASSUME NEW r \in Request, CopyDone(r) PROVE Packages'
  BY <1>17 DEF CopyDone, Goto
<1>18. ASSUME NEW r \in Request, Build(r) PROVE Packages'
  BY <1>18 DEF Build, Goto
<1>19. ASSUME NEW r \in Request, CommitThrows(r) PROVE Packages'
  BY <1>19 DEF CommitThrows, Goto
<1>20. ASSUME NEW r \in Request, RollBack(r) PROVE Packages'
  BY <1>20 DEF RollBack, Goto
<1>21. ASSUME NEW r \in Request, CommitFailed(r) PROVE Packages'
  BY <1>21 DEF CommitFailed, Goto, Released, Removed
<1>22. ASSUME NEW r \in Request, CommitDone(r) PROVE Packages'
  BY <1>22 DEF CommitDone, Goto, Released, Removed
<1>23. ASSUME NEW r \in Request, CleanOrphan(r) PROVE Packages'
  BY <1>23 DEF CleanOrphan
<1>24. ASSUME NEW r \in Request, Finish(r) PROVE Packages'
  BY <1>24 DEF Finish, Goto
<1>25. ASSUME NEW r \in Request, FinishFails(r) PROVE Packages'
  BY <1>25 DEF FinishFails, Goto
<1>26. ASSUME Stop PROVE Packages'
  BY <1>26 DEF Stop, Registered
<1>27. ASSUME Boot PROVE Packages'
  BY <1>27 DEF Boot
<1>28. ASSUME GeoServerAtBoot PROVE Packages'
  BY <1>28 DEF GeoServerAtBoot
<1>29. ASSUME NEW r \in Request, OrphansDone(r) PROVE Packages'
  BY <1>29 DEF OrphansDone, Goto
<1> QED
  BY <1>1, <1>2, <1>3, <1>4, <1>5, <1>6, <1>7, <1>8, <1>9, <1>10, <1>11, <1>12, <1>13, <1>14, <1>15, <1>16, <1>17, <1>18, <1>19, <1>20, <1>21, <1>22, <1>23, <1>24, <1>25, <1>26, <1>27, <1>28, <1>29
     DEF Next, Prepare, Answer, Continue, Commit, Tail

-----------------------------------------------------------------------------
(* Theorems.  Stuttering steps first: no invariant mentions more than vars. *)

\* A step that changes no variable keeps every invariant.
LEMMA Stutter ==
  ASSUME UNCHANGED vars
  PROVE  /\ IInv => IInv'
         /\ LockAccounted => LockAccounted'
         /\ Packages => Packages'
BY DEF vars, IInv, TypeOK, JobOK, Bearing, MapBearer, PrepareBearer, TaskBearer,
       OneBearer, Bears, Registered, LockAccounted, Packages, PackageWaits, PackageKept

\* The inductive invariant holds in every reachable state.
THEOREM BearersCorrect == Spec => []IInv
<1>1. IInv /\ [Next]_vars => IInv'
  BY TypeNext, BearersNext, Stutter DEF IInv
<1> QED
  BY InitIInv, <1>1, PTL DEF Spec

\* In every reachable state of the apply pipeline the lock, the Map, the
\* pending files, the snapshots and the workspace have their types.
THEOREM TypeCorrect == Spec => []TypeOK
<1>1. IInv => TypeOK
  BY DEF IInv
<1> QED
  BY BearersCorrect, <1>1, PTL

\* Whatever requests, timers, failures and stops come in between, a commit of
\* a session that was never read back from its file holds the apply lock.
THEOREM CommitHoldsLock == Spec => []CommitUnderLock
<1>1. IInv => CommitUnderLock
  <2> SUFFICES ASSUME IInv, NEW t \in Task, pc[t] \in Committing, job[t] \notin revived
               PROVE  lock = job[t]
    BY DEF CommitUnderLock
  <2>1. job[t] \in Session \ revived
    BY DEF IInv, JobOK
  <2> QED
    BY <2>1 DEF IInv, Bearing, TaskBearer, Bears
<1> QED
  BY BearersCorrect, <1>1, PTL

\* Two overlapping commits involve a session that was read back from its file.
THEOREM CommitsAreExclusive == Spec => []CommitsExclude
<1>1. IInv => CommitsExclude
  <2> SUFFICES ASSUME IInv, NEW t \in Task, NEW u \in Task, t # u,
                      pc[t] \in Committing, pc[u] \in Committing,
                      job[t] \notin revived, job[u] \notin revived
               PROVE  FALSE
    BY DEF CommitsExclude
  <2>1. job[t] \in Session \ revived /\ job[u] \in Session \ revived
    BY DEF IInv, JobOK
  <2>2. lock = job[t] /\ lock = job[u]
    BY <2>1 DEF IInv, Bearing, TaskBearer, Bears
  <2> QED
    BY <2>1, <2>2 DEF IInv, Bearing, OneBearer, Bears
<1> QED
  BY BearersCorrect, <1>1, PTL

\* The apply lock is never left behind, but by a prepare that failed before
\* its try block.
THEOREM LockIsAccounted == Spec => []LockAccounted
<1>1. Init => LockAccounted
  <2> SUFFICES ASSUME Init, NEW s \in Session, lock = s PROVE FALSE
    BY DEF LockAccounted
  <2> QED
    BY SourceApplyAssumption DEF Init
<1>2. IInv /\ LockAccounted /\ [Next]_vars => LockAccounted'
  BY LockAccountedNext, Stutter DEF IInv
<1> QED
  BY BearersCorrect, <1>1, <1>2, PTL DEF Spec

\* No timer, abort or other apply deletes the package under a commit of a
\* session that was never read back from its file.
THEOREM PackageIsKept == Spec => []PackageKept
<1>1. Init => Packages
  <2> SUFFICES ASSUME Init PROVE Packages
    OBVIOUS
  <2>1. mem = {} /\ \A t \in Task : pc[t] \in {"new", "idle"}
    BY DEF Init
  <2> QED
    BY <2>1 DEF Packages, PackageWaits, PackageKept
<1>2. IInv /\ Packages /\ [Next]_vars => Packages'
  BY PackagesNext, Stutter
<1>3. Packages => PackageKept
  BY DEF Packages
<1> QED
  BY BearersCorrect, <1>1, <1>2, <1>3, PTL DEF Spec
=============================================================================

------------------------- MODULE SourceUpdateProofs -------------------------
(***************************************************************************)
(* The apply pipeline implements AtomicUpdate, for every number of         *)
(* sessions, requests, files and stops, and what a user is told about the  *)
(* workspace follows: a package is there whole, a cancelled one not at     *)
(* all.                                                                    *)
(***************************************************************************)
EXTENDS SourceApplyProofs

(***************************************************************************)
(* What a commit knows about its own snapshot and its own list of files.   *)
(***************************************************************************)
Bookkeeping ==
  \A t \in Task :
    /\ snap[t] # NoOne
         => pc[t] \in {"copy", "build", "fail", "doneTmp", "orphans", "finish"}
    /\ pc[t] \in {"copy", "build", "doneTmp"} => snap[t] # NoOne
    /\ Merging(t)
         => snap[t].backedUp \cup snap[t].created = Pkg[job[t]] \ Protected
    /\ pc[t] = "copy" => left[t] \subseteq Pkg[job[t]]
    /\ pc[t] = "orphans" => left[t] \subseteq Orphans(Pkg[job[t]])

(***************************************************************************)
(* Until a disturbance, what a commit has copied stays copied.             *)
(***************************************************************************)
CopiesThere ==
  \A t \in Task :
    /\ pc[t] = "copy" => \A f \in Pkg[job[t]] \ left[t] : live[f] = job[t]
    /\ pc[t] \in {"build", "doneTmp"} => \A f \in Pkg[job[t]] : live[f] = job[t]

Copied == Undisturbed => CopiesThere

(***************************************************************************)
(* A session that was installed or cancelled has no bearer any more and    *)
(* never gets one again, unless it is read back from its file.             *)
(***************************************************************************)
Decided(s) == s \in applied \/ <<s, "cancel">> \in log

DecidedOnce ==
  \A s \in Session \ revived :
    Decided(s) => Registered(s) /\ s \notin mem /\ \A t \in Task : ~Bears(t, s)

MInv == IInv /\ Bookkeeping /\ Copied /\ DecidedOnce

-----------------------------------------------------------------------------
USE DEF Task, Preparing, Committing, Working, PC, HasJob

USE DEF procVars, sessVars, taskVars, treeVars, geoVars

\* The initial states satisfy the strengthened invariant.
LEMMA InitMInv == Init => MInv
<1> SUFFICES ASSUME Init PROVE MInv
  OBVIOUS
<1>1. /\ \A t \in Task : pc[t] \in {"new", "idle"} /\ snap[t] = NoOne
      /\ applied = {Base} /\ log = {}
  BY DEF Init
<1>2. Bookkeeping
  BY <1>1 DEF Bookkeeping, Merging
<1>3. Copied
  BY <1>1 DEF Copied, CopiesThere
<1>4. DecidedOnce
  BY <1>1, TreeAssumption DEF DecidedOnce, Decided
<1> QED
  BY <1>2, <1>3, <1>4, InitIInv DEF MInv

\* A disturbance is never taken back.
LEMMA DisturbedStays ==
  ASSUME TypeOK, Next, Undisturbed'
  PROVE  Undisturbed
<1>1. revived \subseteq revived' /\ mishap \subseteq mishap'
  BY DEF TypeOK, Next, Prepare, Answer, Continue, Commit, Tail, Acquire,
         EnterPrepare, FailBeforeTry, WritePending, RegisterPending, FailPrepare,
         Expire, Timeout, AnswerFromMap, AnswerFromFile, DeletePendingFile, Discard,
         Revive, StopGeoServer, BackUp, CopyFile, CopyDone, Build, CommitThrows,
         RollBack, CommitFailed, CommitDone, CleanOrphan, OrphansDone, Finish,
         FinishFails, Stop, Boot, GeoServerAtBoot
<1> QED
  BY <1>1 DEF Undisturbed

\* Until then commits exclude each other.
LEMMA OneCommit ==
  ASSUME IInv, Undisturbed, NEW t \in Task, NEW u \in Task,
         pc[t] \in Committing, pc[u] \in Committing
  PROVE  t = u
<1>1. job[t] \in Session \ revived /\ job[u] \in Session \ revived
  BY DEF IInv, JobOK, Undisturbed
<1>2. lock = job[t] /\ lock = job[u]
  BY <1>1 DEF IInv, Bearing, TaskBearer, Bears
<1> QED
  BY <1>1, <1>2 DEF IInv, Bearing, OneBearer, Bears

-----------------------------------------------------------------------------
(* Steps *)

\* Every commit keeps its own books.
LEMMA BookkeepingNext ==
  ASSUME TypeOK, JobOK, Bookkeeping, Next
  PROVE  Bookkeeping'
<1> USE SourceApplyAssumption DEF TypeOK, JobOK, Bookkeeping, Merging
<1>1. ASSUME NEW s \in Session, Acquire(s) PROVE Bookkeeping'
  BY <1>1 DEF Acquire, Goto
<1>2. ASSUME NEW s \in Session, EnterPrepare(s) PROVE Bookkeeping'
  BY <1>2 DEF EnterPrepare, Goto
<1>3. ASSUME NEW s \in Session, FailBeforeTry(s) PROVE Bookkeeping'
  BY <1>3 DEF FailBeforeTry, Goto
<1>4. ASSUME NEW s \in Session, WritePending(s) PROVE Bookkeeping'
  BY <1>4 DEF WritePending, Goto
<1>5. ASSUME NEW s \in Session, RegisterPending(s) PROVE Bookkeeping'
  BY <1>5 DEF RegisterPending, Goto
<1>6. ASSUME NEW s \in Session, FailPrepare(s) PROVE Bookkeeping'
  BY <1>6 DEF FailPrepare, Goto, Released
<1>7. ASSUME NEW s \in Session, Expire(s) PROVE Bookkeeping'
  BY <1>7 DEF Expire
<1>8. ASSUME NEW s \in Session, Timeout(s) PROVE Bookkeeping'
  BY <1>8 DEF Timeout, Goto, TakeOver
<1>9. ASSUME NEW r \in Request, NEW s \in Session, AnswerFromMap(r, s) PROVE Bookkeeping'
  BY <1>9 DEF AnswerFromMap, Goto, TakeOver
<1>10. ASSUME NEW r \in Request, NEW s \in Session, AnswerFromFile(r, s) PROVE Bookkeeping'
  BY <1>10 DEF AnswerFromFile, Goto
<1>11. ASSUME NEW t \in Task, DeletePendingFile(t) PROVE Bookkeeping'
  BY <1>11 DEF DeletePendingFile, Goto
<1>12. ASSUME NEW t \in Task, Discard(t) PROVE Bookkeeping'
  BY <1>12 DEF Discard, Goto, Released, Logged
<1>13. ASSUME NEW r \in Request, Revive(r) PROVE Bookkeeping'
  BY <1>13 DEF Revive, Goto, TakeOver
<1>14. ASSUME NEW r \in Request, StopGeoServer(r) PROVE Bookkeeping'
  BY <1>14 DEF StopGeoServer, Goto
<1>15. ASSUME NEW r \in Request, BackUp(r) PROVE Bookkeeping'
  <2>1. TakeSnapshot(live, Pkg[job[r]]) \in Snapshot
    BY <1>15, TakeSnapshotType DEF BackUp
  <2>2. LET new == TakeSnapshot(live, Pkg[job[r]])
        IN  new.backedUp \cup new.created = Pkg[job[r]] \ Protected
    BY <1>15 DEF BackUp, TakeSnapshot
  <2> QED
    BY <1>15, <2>1, <2>2 DEF BackUp, Goto
<1>16. ASSUME NEW r \in Request, CopyFile(r) PROVE Bookkeeping'
  BY <1>16 DEF CopyFile
<1>17. ASSUME NEW r \in Request, CopyDone(r) PROVE Bookkeeping'
  BY <1>17 DEF CopyDone, Goto
<1>18. ASSUME NEW r \in Request, Build(r) PROVE Bookkeeping'
  BY <1>18 DEF Build, Goto
<1>19. ASSUME NEW r \in Request, CommitThrows(r) PROVE Bookkeeping'
  BY <1>19 DEF CommitThrows, Goto
<1>20. ASSUME NEW r \in Request, RollBack(r) PROVE Bookkeeping'
  BY <1>20 DEF RollBack, Goto
<1>21. ASSUME NEW r \in Request, CommitFailed(r) PROVE Bookkeeping'
  BY <1>21 DEF CommitFailed, Goto, Released
<1>22. ASSUME NEW r \in Request, CommitDone(r) PROVE Bookkeeping'
  BY <1>22 DEF CommitDone, Goto, Released
<1>23. ASSUME NEW r \in Request, CleanOrphan(r) PROVE Bookkeeping'
  BY <1>23 DEF CleanOrphan
<1>24. ASSUME NEW r \in Request, Finish(r) PROVE Bookkeeping'
  BY <1>24 DEF Finish, Goto, Logged
<1>25. ASSUME NEW r \in Request, FinishFails(r) PROVE Bookkeeping'
  BY <1>25 DEF FinishFails, Goto
<1>26. ASSUME Stop PROVE Bookkeeping'
  BY <1>26 DEF Stop
<1>27. ASSUME Boot PROVE Bookkeeping'
  BY <1>27 DEF Boot
<1>28. ASSUME GeoServerAtBoot PROVE Bookkeeping'
  BY <1>28 DEF GeoServerAtBoot
<1>29. ASSUME NEW r \in Request, OrphansDone(r) PROVE Bookkeeping'
  BY <1>29 DEF OrphansDone, Goto
<1> QED
  BY <1>1, <1>2, <1>3, <1>4, <1>5, <1>6, <1>7, <1>8, <1>9, <1>10, <1>11, <1>12, <1>13, <1>14, <1>15, <1>16, <1>17, <1>18, <1>19, <1>20, <1>21, <1>22, <1>23, <1>24, <1>25, <1>26, <1>27, <1>28, <1>29
     DEF Next, Prepare, Answer, Continue, Commit, Tail

\* Until a disturbance no step undoes what a commit has copied.
LEMMA CopiedNext ==
  ASSUME IInv, Bookkeeping, Copied, Next
  PROVE  Copied'
<1> SUFFICES ASSUME Undisturbed' PROVE CopiesThere'
  BY DEF Copied
<1>0. Undisturbed /\ CopiesThere
  BY DisturbedStays DEF IInv, Copied
<1> USE <1>0, SourceApplyAssumption DEF IInv, TypeOK, JobOK, CopiesThere
<1>1. ASSUME NEW s \in Session, Acquire(s) PROVE CopiesThere'
  BY <1>1 DEF Acquire, Goto
<1>2. ASSUME NEW s \in Session, EnterPrepare(s) PROVE CopiesThere'
  BY <1>2 DEF EnterPrepare, Goto
<1>3. ASSUME NEW s \in Session, FailBeforeTry(s) PROVE CopiesThere'
  BY <1>3 DEF FailBeforeTry, Goto
<1>4. ASSUME NEW s \in Session, WritePending(s) PROVE CopiesThere'
  BY <1>4 DEF WritePending, Goto
<1>5. ASSUME NEW s \in Session, RegisterPending(s) PROVE CopiesThere'
  BY <1>5 DEF RegisterPending, Goto
<1>6. ASSUME NEW s \in Session, FailPrepare(s) PROVE CopiesThere'
  BY <1>6 DEF FailPrepare, Goto, Released
<1>7. ASSUME NEW s \in Session, Expire(s) PROVE CopiesThere'
  BY <1>7 DEF Expire
<1>8. ASSUME NEW s \in Session, Timeout(s) PROVE CopiesThere'
  BY <1>8 DEF Timeout, Goto, TakeOver
<1>9. ASSUME NEW r \in Request, NEW s \in Session, AnswerFromMap(r, s) PROVE CopiesThere'
  BY <1>9 DEF AnswerFromMap, Goto, TakeOver
<1>10. ASSUME NEW r \in Request, NEW s \in Session, AnswerFromFile(r, s) PROVE CopiesThere'
  BY <1>10 DEF AnswerFromFile, Goto
<1>11. ASSUME NEW t \in Task, DeletePendingFile(t) PROVE CopiesThere'
  BY <1>11 DEF DeletePendingFile, Goto
<1>12. ASSUME NEW t \in Task, Discard(t) PROVE CopiesThere'
  BY <1>12 DEF Discard, Goto, Released, Logged
<1>13. ASSUME NEW r \in Request, Revive(r) PROVE CopiesThere'
  BY <1>13 DEF Revive, Goto, TakeOver
<1>14. ASSUME NEW r \in Request, StopGeoServer(r) PROVE CopiesThere'
  BY <1>14 DEF StopGeoServer, Goto
<1>15. ASSUME NEW r \in Request, BackUp(r) PROVE CopiesThere'
  BY <1>15 DEF BackUp, Goto
<1>16. ASSUME NEW r \in Request, CopyFile(r) PROVE CopiesThere'
  <2>1. \A t \in Task : pc[t] \in Committing => t = r
    BY <1>16, OneCommit DEF CopyFile
  <2>2. PICK f \in left[r] :
          live' = [live EXCEPT ![f] = job[r]] /\ left' = [left EXCEPT ![r] = left[r] \ {f}]
    BY <1>16 DEF CopyFile
  <2>3. left[r] \subseteq Pkg[job[r]] /\ Pkg[job[r]] \subseteq File
    BY <1>16 DEF CopyFile, Bookkeeping
  <2> QED
    BY <1>16, <2>1, <2>2, <2>3 DEF CopyFile, Tree
<1>17. ASSUME NEW r \in Request, CopyDone(r) PROVE CopiesThere'
  BY <1>17 DEF CopyDone, Goto
<1>18. ASSUME NEW r \in Request, Build(r) PROVE CopiesThere'
  BY <1>18 DEF Build, Goto
<1>19. ASSUME NEW r \in Request, CommitThrows(r) PROVE CopiesThere'
  BY <1>19 DEF CommitThrows, Goto
<1>20. ASSUME NEW r \in Request, RollBack(r) PROVE CopiesThere'
  <2>1. \A t \in Task : pc[t] \in Committing => t = r
    BY <1>20, OneCommit DEF RollBack
  <2> QED
    BY <1>20, <2>1 DEF RollBack, Goto
<1>21. ASSUME NEW r \in Request, CommitFailed(r) PROVE CopiesThere'
  BY <1>21 DEF CommitFailed, Goto, Released
<1>22. ASSUME NEW r \in Request, CommitDone(r) PROVE CopiesThere'
  BY <1>22 DEF CommitDone, Goto, Released
<1>23. ASSUME NEW r \in Request, CleanOrphan(r) PROVE CopiesThere'
  <2>1. PICK f \in left[r] :
          \/ live' = live
          \/ /\ live' = [live EXCEPT ![f] = Absent]
             /\ mishap' = IF /\ live[f] # Absent
                             /\ \/ current # job[r]
                                \/ \E t \in Task \ {r} : pc[t] \in Committing
                          THEN mishap \cup {"orphans"} ELSE mishap
    BY <1>23 DEF CleanOrphan
  <2>2. "orphans" \notin mishap'
    BY DEF Undisturbed
  <2>3. live' = live \/ live[f] = Absent \/ \A t \in Task \ {r} : pc[t] \notin Committing
    BY <2>1, <2>2
  <2>4. pc[r] = "orphans" /\ pc' = pc /\ job' = job /\ \A t \in Task \ {r} : left'[t] = left[t]
    BY <1>23 DEF CleanOrphan
  <2> QED
    BY <2>1, <2>3, <2>4 DEF Tree
<1>24. ASSUME NEW r \in Request, Finish(r) PROVE CopiesThere'
  BY <1>24 DEF Finish, Goto, Logged
<1>25. ASSUME NEW r \in Request, FinishFails(r) PROVE CopiesThere'
  BY <1>25 DEF FinishFails, Goto
<1>26. ASSUME Stop PROVE CopiesThere'
  <2>1. \A t \in Task : pc'[t] \in {"new", "idle", "lost"}
    BY <1>26 DEF Stop
  <2> QED
    BY <2>1
<1>27. ASSUME Boot PROVE CopiesThere'
  BY <1>27 DEF Boot
<1>28. ASSUME GeoServerAtBoot PROVE CopiesThere'
  BY <1>28 DEF GeoServerAtBoot
<1>29. ASSUME NEW r \in Request, OrphansDone(r) PROVE CopiesThere'
  BY <1>29 DEF OrphansDone, Goto
<1> QED
  BY <1>1, <1>2, <1>3, <1>4, <1>5, <1>6, <1>7, <1>8, <1>9, <1>10, <1>11, <1>12, <1>13, <1>14, <1>15, <1>16, <1>17, <1>18, <1>19, <1>20, <1>21, <1>22, <1>23, <1>24, <1>25, <1>26, <1>27, <1>28, <1>29
     DEF Next, Prepare, Answer, Continue, Commit, Tail

\* A decided session gets no bearer any more.
LEMMA DecidedNext ==
  ASSUME IInv, DecidedOnce, Next
  PROVE  DecidedOnce'
<1> USE SourceApplyAssumption DEF IInv, TypeOK, JobOK, Bearing, MapBearer, PrepareBearer, TaskBearer, OneBearer, Bears, Registered, DecidedOnce, Decided
<1>1. ASSUME NEW s \in Session, Acquire(s) PROVE DecidedOnce'
  BY <1>1 DEF Acquire, Goto
<1>2. ASSUME NEW s \in Session, EnterPrepare(s) PROVE DecidedOnce'
  BY <1>2 DEF EnterPrepare, Goto
<1>3. ASSUME NEW s \in Session, FailBeforeTry(s) PROVE DecidedOnce'
  BY <1>3 DEF FailBeforeTry, Goto
<1>4. ASSUME NEW s \in Session, WritePending(s) PROVE DecidedOnce'
  BY <1>4 DEF WritePending, Goto
<1>5. ASSUME NEW s \in Session, RegisterPending(s) PROVE DecidedOnce'
  BY <1>5 DEF RegisterPending, Goto
<1>6. ASSUME NEW s \in Session, FailPrepare(s) PROVE DecidedOnce'
  BY <1>6 DEF FailPrepare, Goto, Released
<1>7. ASSUME NEW s \in Session, Expire(s) PROVE DecidedOnce'
  BY <1>7 DEF Expire
<1>8. ASSUME NEW s \in Session, Timeout(s) PROVE DecidedOnce'
  BY <1>8 DEF Timeout, Goto, TakeOver
<1>9. ASSUME NEW r \in Request, NEW s \in Session, AnswerFromMap(r, s) PROVE DecidedOnce'
  BY <1>9 DEF AnswerFromMap, Goto, TakeOver
<1>10. ASSUME NEW r \in Request, NEW s \in Session, AnswerFromFile(r, s) PROVE DecidedOnce'
  BY <1>10 DEF AnswerFromFile, Goto
<1>11. ASSUME NEW t \in Task, DeletePendingFile(t) PROVE DecidedOnce'
  BY <1>11 DEF DeletePendingFile, Goto
<1>12. ASSUME NEW t \in Task, Discard(t) PROVE DecidedOnce'
  BY <1>12 DEF Discard, Goto, Released, Logged
<1>13. ASSUME NEW r \in Request, Revive(r) PROVE DecidedOnce'
  BY <1>13 DEF Revive, Goto, TakeOver
<1>14. ASSUME NEW r \in Request, StopGeoServer(r) PROVE DecidedOnce'
  BY <1>14 DEF StopGeoServer, Goto
<1>15. ASSUME NEW r \in Request, BackUp(r) PROVE DecidedOnce'
  BY <1>15 DEF BackUp, Goto
<1>16. ASSUME NEW r \in Request, CopyFile(r) PROVE DecidedOnce'
  BY <1>16 DEF CopyFile
<1>17. ASSUME NEW r \in Request, CopyDone(r) PROVE DecidedOnce'
  BY <1>17 DEF CopyDone, Goto
<1>18. ASSUME NEW r \in Request, Build(r) PROVE DecidedOnce'
  BY <1>18 DEF Build, Goto
<1>19. ASSUME NEW r \in Request, CommitThrows(r) PROVE DecidedOnce'
  BY <1>19 DEF CommitThrows, Goto
<1>20. ASSUME NEW r \in Request, RollBack(r) PROVE DecidedOnce'
  BY <1>20 DEF RollBack, Goto
<1>21. ASSUME NEW r \in Request, CommitFailed(r) PROVE DecidedOnce'
  BY <1>21 DEF CommitFailed, Goto, Released
<1>22. ASSUME NEW r \in Request, CommitDone(r) PROVE DecidedOnce'
  BY <1>22 DEF CommitDone, Goto, Released
<1>23. ASSUME NEW r \in Request, CleanOrphan(r) PROVE DecidedOnce'
  BY <1>23 DEF CleanOrphan
<1>24. ASSUME NEW r \in Request, Finish(r) PROVE DecidedOnce'
  BY <1>24 DEF Finish, Goto, Logged
<1>25. ASSUME NEW r \in Request, FinishFails(r) PROVE DecidedOnce'
  BY <1>25 DEF FinishFails, Goto
<1>26. ASSUME Stop PROVE DecidedOnce'
  BY <1>26 DEF Stop
<1>27. ASSUME Boot PROVE DecidedOnce'
  BY <1>27 DEF Boot
<1>28. ASSUME GeoServerAtBoot PROVE DecidedOnce'
  BY <1>28 DEF GeoServerAtBoot
<1>29. ASSUME NEW r \in Request, OrphansDone(r) PROVE DecidedOnce'
  BY <1>29 DEF OrphansDone, Goto
<1> QED
  BY <1>1, <1>2, <1>3, <1>4, <1>5, <1>6, <1>7, <1>8, <1>9, <1>10, <1>11, <1>12, <1>13, <1>14, <1>15, <1>16, <1>17, <1>18, <1>19, <1>20, <1>21, <1>22, <1>23, <1>24, <1>25, <1>26, <1>27, <1>28, <1>29
     DEF Next, Prepare, Answer, Continue, Commit, Tail

\* Every step keeps the strengthened invariant.
LEMMA MInvNext == MInv /\ [Next]_vars => MInv'
<1> SUFFICES ASSUME MInv, [Next]_vars PROVE MInv'
  OBVIOUS
<1>1. CASE Next
  <2>1. IInv'
    BY <1>1, TypeNext, BearersNext DEF MInv, IInv
  <2> QED
    BY <1>1, <2>1, BookkeepingNext, CopiedNext, DecidedNext DEF MInv, IInv
<1>2. CASE UNCHANGED vars
  <2>1. IInv' /\ Bookkeeping'
    BY <1>2, Stutter DEF MInv, Bookkeeping, Merging, vars
  <2>2. Copied' /\ DecidedOnce'
    BY <1>2 DEF MInv, Copied, CopiesThere, Undisturbed, DecidedOnce, Decided, Registered, Bears, vars
  <2> QED
    BY <2>1, <2>2 DEF MInv
<1> QED
  BY <1>1, <1>2

-----------------------------------------------------------------------------
(* The refinement *)

\* The settled workspace, with the one merging commit named.
LEMMA SettledIs ==
  ASSUME IInv, Undisturbed, NEW t \in Task, Merging(t)
  PROVE  Settled = Restore(live, snap[t], {})
<1>1. \A u \in Task : Merging(u) => u = t
  BY OneCommit DEF Merging
<1> QED
  BY <1>1 DEF Settled

\* Without a merging commit it is the workspace itself.
LEMMA SettledIsLive ==
  ASSUME \A t \in Task : ~Merging(t)
  PROVE  Settled = live
BY DEF Settled

\* A step that leaves the files and every merging commit alone leaves the
\* settled workspace alone.
LEMMA SettledSame ==
  ASSUME IInv, IInv', Undisturbed, Undisturbed', live' = live,
         \A t \in Task : Merging(t)' <=> Merging(t),
         \A t \in Task : Merging(t) => snap'[t] = snap[t]
  PROVE  Settled' = Settled
<1>1. CASE \E t \in Task : Merging(t)
  <2>1. PICK t \in Task : Merging(t)
    BY <1>1
  <2>2. Settled = Restore(live, snap[t], {})
    BY <2>1, SettledIs
  <2>3. \A u \in Task : Merging(u)' => u = t
    BY <2>1, OneCommit DEF Merging
  <2>4. Settled' = Restore(live', snap'[t], {})
    BY <2>1, <2>3 DEF Settled
  <2> QED
    BY <2>1, <2>2, <2>4
<1>2. CASE \A t \in Task : ~Merging(t)
  BY <1>2 DEF Settled
<1> QED
  BY <1>1, <1>2

\* The cancelled sessions of the abstract view.
Cancelled == {s \in Session : <<s, "cancel">> \in log}

\* Such a step shows nothing to the abstract view, when it leaves the rest
\* of that view alone as well.
LEMMA NothingSeen ==
  ASSUME Undisturbed, Undisturbed', Settled' = Settled,
         UNCHANGED <<lock, current, applied, Cancelled>>
  PROVE  UNCHANGED Update!vars
BY DEF Update!vars, Cancelled

\* The same for a step that only changes what the snapshot will put back.
LEMMA NothingSeenHere ==
  ASSUME Undisturbed, Undisturbed', \A f \in File \ Protected : Settled'[f] = Settled[f],
         UNCHANGED <<lock, current, applied, Cancelled>>
  PROVE  UNCHANGED Update!vars
BY DEF Update!vars, Cancelled

\* A step that begins or ends no merge and touches no file shows nothing.
LEMMA Hidden ==
  ASSUME IInv, IInv', Undisturbed, Undisturbed', UNCHANGED <<live, lock, current, applied>>,
         \A s \in Session : <<s, "cancel">> \in log' <=> <<s, "cancel">> \in log,
         \A t \in Task : Merging(t)' <=> Merging(t),
         \A t \in Task : Merging(t) => snap'[t] = snap[t]
  PROVE  UNCHANGED Update!vars
<1>1. Settled' = Settled
  BY SettledSame
<1>2. Cancelled' = Cancelled
  BY DEF Cancelled
<1> QED
  BY <1>1, <1>2, NothingSeen

\* Every step of the pipeline is a step of AtomicUpdate or shows nothing.
LEMMA StepRefines ==
  ASSUME MInv, MInv', Next
  PROVE  [Update!Next]_(Update!vars)
<1>0. CASE ~Undisturbed'
  BY <1>0 DEF Update!Next, Update!Disturb
<1> SUFFICES ASSUME Undisturbed' PROVE [Update!Next]_(Update!vars)
  BY <1>0
<1>a. Undisturbed
  BY DisturbedStays DEF MInv, IInv
<1> USE <1>a, SourceApplyAssumption DEF MInv, IInv, TypeOK, JobOK
<1>1. ASSUME NEW s \in Session, Acquire(s) PROVE [Update!Next]_(Update!vars)
  <2>1. Settled' = Settled
    BY <1>1, SettledSame DEF Acquire, Goto, Merging, Bookkeeping
  <2>2. s \notin applied \cup Cancelled
    BY <1>1 DEF Acquire, DecidedOnce, Decided, Registered, Undisturbed, Cancelled
  <2>3. Update!Begin(s)
    BY <1>1, <2>1, <2>2 DEF Acquire, Update!Begin, Cancelled
  <2> QED
    BY <2>3 DEF Update!Next
<1>2. ASSUME NEW s \in Session, EnterPrepare(s) PROVE [Update!Next]_(Update!vars)
  BY <1>2, Hidden DEF EnterPrepare, Goto, Merging, Bookkeeping
<1>3. ASSUME NEW s \in Session, FailBeforeTry(s) PROVE [Update!Next]_(Update!vars)
  BY <1>3, Hidden DEF FailBeforeTry, Goto, Merging, Bookkeeping
<1>4. ASSUME NEW s \in Session, WritePending(s) PROVE [Update!Next]_(Update!vars)
  BY <1>4, Hidden DEF WritePending, Goto, Merging, Bookkeeping
<1>5. ASSUME NEW s \in Session, RegisterPending(s) PROVE [Update!Next]_(Update!vars)
  BY <1>5, Hidden DEF RegisterPending, Goto, Merging, Bookkeeping
<1>6. ASSUME NEW s \in Session, FailPrepare(s) PROVE [Update!Next]_(Update!vars)
  <2>1. Settled' = Settled
    BY <1>6, SettledSame DEF FailPrepare, Goto, Released, Merging, Bookkeeping
  <2>2. lock = s
    BY <1>6 DEF FailPrepare, Bearing, PrepareBearer, Undisturbed
  <2>3. Update!GiveUp(s)
    BY <1>6, <2>1, <2>2 DEF FailPrepare, Released, Update!GiveUp
  <2> QED
    BY <2>3 DEF Update!Next
<1>7. ASSUME NEW s \in Session, Expire(s) PROVE [Update!Next]_(Update!vars)
  BY <1>7, Hidden DEF Expire, Merging, Bookkeeping
<1>8. ASSUME NEW s \in Session, Timeout(s) PROVE [Update!Next]_(Update!vars)
  BY <1>8, Hidden DEF Timeout, Goto, TakeOver, Merging, Bookkeeping
<1>9. ASSUME NEW r \in Request, NEW s \in Session, AnswerFromMap(r, s) PROVE [Update!Next]_(Update!vars)
  BY <1>9, Hidden DEF AnswerFromMap, Goto, TakeOver, Merging, Bookkeeping
<1>10. ASSUME NEW r \in Request, NEW s \in Session, AnswerFromFile(r, s) PROVE [Update!Next]_(Update!vars)
  BY <1>10, Hidden DEF AnswerFromFile, Goto, Merging, Bookkeeping
<1>11. ASSUME NEW t \in Task, DeletePendingFile(t) PROVE [Update!Next]_(Update!vars)
  BY <1>11, Hidden DEF DeletePendingFile, Goto, Merging, Bookkeeping
<1>12. ASSUME NEW t \in Task, Discard(t) PROVE [Update!Next]_(Update!vars)
  <2>1. Settled' = Settled
    BY <1>12, SettledSame DEF Discard, Goto, Released, Logged, Merging, Bookkeeping
  <2>2. job[t] \in Session /\ Bears(t, job[t])
    BY <1>12 DEF Discard, Bears
  <2>3. lock = job[t] /\ job[t] \notin applied
    BY <2>2 DEF Bearing, TaskBearer, Undisturbed, DecidedOnce, Decided
  <2>4. CASE log' = log
    <3>1. Update!GiveUp(job[t])
      BY <1>12, <2>1, <2>3, <2>4 DEF Discard, Released, Update!GiveUp
    <3> QED
      BY <2>2, <3>1 DEF Update!Next
  <2>5. CASE log' = log \cup {<<job[t], "cancel">>}
    <3>1. Cancelled' = Cancelled \cup {job[t]}
      BY <2>2, <2>5 DEF Cancelled
    <3>2. PICK s \in Session : s = job[t]
      BY <2>2
    <3>3. Update!Cancel(s)
      BY <1>12, <2>1, <2>3, <3>1, <3>2 DEF Discard, Released, Update!Cancel, Cancelled
    <3> QED
      BY <3>3 DEF Update!Next
  <2> QED
    BY <1>12, <2>4, <2>5 DEF Discard, Logged
<1>13. ASSUME NEW r \in Request, Revive(r) PROVE [Update!Next]_(Update!vars)
  <2>1. \A s \in Session : Merging(s)' <=> Merging(s)
    BY <1>13 DEF Revive, Goto, TakeOver, Merging, Bookkeeping
  <2> QED
    BY <1>13, Hidden DEF Revive, Goto, TakeOver, Undisturbed, Merging, Bookkeeping
<1>14. ASSUME NEW r \in Request, StopGeoServer(r) PROVE [Update!Next]_(Update!vars)
  BY <1>14, Hidden DEF StopGeoServer, Goto, Merging, Bookkeeping
<1>15. ASSUME NEW r \in Request, BackUp(r) PROVE [Update!Next]_(Update!vars)
  <2>1. \A t \in Task : ~Merging(t)
    BY <1>15, OneCommit DEF BackUp, Merging
  <2>2. Settled = live
    BY <2>1, SettledIsLive
  <2>3. Merging(r)' /\ snap'[r] = TakeSnapshot(live, Pkg[job[r]]) /\ live' = live
    BY <1>15, TakeSnapshotType DEF BackUp, Goto, Merging
  <2>4. Settled' = Restore(live', snap'[r], {})
    <3>1. \A u \in Task : Merging(u)' => u = r
      BY <1>15, OneCommit DEF BackUp, Goto, Merging
    <3> QED
      BY <2>3, <3>1 DEF Settled
  <2>5. Settled' = live
    BY <2>3, <2>4 DEF Restore, TakeSnapshot, Tree
  <2> QED
    BY <1>15, <2>2, <2>5, NothingSeen DEF BackUp, Cancelled
<1>16. ASSUME NEW r \in Request, CopyFile(r) PROVE [Update!Next]_(Update!vars)
  <2>1. Merging(r) /\ Merging(r)' /\ snap' = snap
    BY <1>16 DEF CopyFile, Merging, Bookkeeping
  <2>2. Settled = Restore(live, snap[r], {}) /\ Settled' = Restore(live', snap[r], {})
    <3>1. \A u \in Task : Merging(u)' => u = r
      BY <1>16, OneCommit DEF CopyFile, Merging
    <3> QED
      BY <2>1, <3>1, SettledIs DEF Settled
  <2>3. PICK f \in left[r] : live' = [live EXCEPT ![f] = job[r]]
    BY <1>16 DEF CopyFile
  <2>4. /\ \A g \in File \ {f} : live'[g] = live[g]
        /\ f \in Protected \/ f \in snap[r].backedUp \cup snap[r].created
    BY <1>16, <2>1, <2>3 DEF CopyFile, Bookkeeping, Tree
  <2>5. \A g \in File \ Protected : Settled'[g] = Settled[g]
    BY <2>2, <2>4 DEF Restore
  <2> QED
    BY <1>16, <2>5, NothingSeenHere DEF CopyFile, Cancelled
<1>17. ASSUME NEW r \in Request, CopyDone(r) PROVE [Update!Next]_(Update!vars)
  BY <1>17, Hidden DEF CopyDone, Goto, Merging, Bookkeeping
<1>18. ASSUME NEW r \in Request, Build(r) PROVE [Update!Next]_(Update!vars)
  BY <1>18, Hidden DEF Build, Goto, Merging, Bookkeeping
<1>19. ASSUME NEW r \in Request, CommitThrows(r) PROVE [Update!Next]_(Update!vars)
  BY <1>19, Hidden DEF CommitThrows, Goto, Merging, Bookkeeping
<1>20. ASSUME NEW r \in Request, RollBack(r) PROVE [Update!Next]_(Update!vars)
  <2>1. \A t \in Task \ {r} : ~Merging(t)
    BY <1>20, OneCommit DEF RollBack, Merging
  <2>2. Settled' = live'
    <3>1. \A t \in Task : ~Merging(t)'
      BY <1>20, <2>1 DEF RollBack, Goto, Merging
    <3> QED
      BY <3>1 DEF Settled
  <2>3. CASE snap[r] = NoOne
    <3>1. Settled = live
      BY <2>1, <2>3, SettledIsLive DEF Merging
    <3> QED
      BY <1>20, <2>2, <2>3, <3>1, NothingSeen DEF RollBack, Cancelled
  <2>4. CASE snap[r] # NoOne
    <3>1. Merging(r)
      BY <1>20, <2>4 DEF RollBack, Merging
    <3>2. PICK failed \in SkippedOf("restore", snap[r].backedUp \cup snap[r].created) :
            /\ live' = Restore(live, snap[r], failed)
            /\ mishap' = IF failed = {} THEN mishap ELSE mishap \cup {"restore"}
      BY <1>20, <2>4 DEF RollBack
    <3>3. failed = {}
      BY <3>2 DEF Undisturbed
    <3>4. Settled' = Settled
      BY <2>2, <3>1, <3>2, <3>3, SettledIs
    <3> QED
      BY <1>20, <3>4, NothingSeen DEF RollBack, Cancelled
  <2> QED
    BY <2>3, <2>4
<1>21. ASSUME NEW r \in Request, CommitFailed(r) PROVE [Update!Next]_(Update!vars)
  <2>1. Settled' = Settled
    BY <1>21, SettledSame DEF CommitFailed, Goto, Released, Merging, Bookkeeping
  <2>2. lock = job[r] /\ job[r] \in Session
    BY <1>21 DEF CommitFailed, Bearing, TaskBearer, Bears, Undisturbed
  <2>3. Update!GiveUp(job[r])
    BY <1>21, <2>1, <2>2 DEF CommitFailed, Released, Update!GiveUp
  <2> QED
    BY <2>2, <2>3 DEF Update!Next
<1>22. ASSUME NEW r \in Request, CommitDone(r) PROVE [Update!Next]_(Update!vars)
  <2>1. \A t \in Task \ {r} : ~Merging(t)
    BY <1>22, OneCommit DEF CommitDone, Merging
  <2>2. Settled = Restore(live, snap[r], {})
    <3>1. Merging(r)
      BY <1>22 DEF CommitDone, Merging, Bookkeeping
    <3> QED
      BY <3>1, SettledIs
  <2>3. Settled' = live
    <3>1. \A t \in Task : ~Merging(t)'
      BY <1>22, <2>1 DEF CommitDone, Goto, Merging
    <3> QED
      BY <1>22, <3>1 DEF Settled, CommitDone
  <2>4. job[r] \in Session /\ Bears(r, job[r])
    BY <1>22 DEF CommitDone, Bears
  <2>5. lock = job[r] /\ job[r] \notin Cancelled
    BY <2>4 DEF Bearing, TaskBearer, Undisturbed, DecidedOnce, Decided, Cancelled
  <2>6. snap[r].backedUp \cup snap[r].created = Pkg[job[r]] \ Protected
    BY <1>22 DEF CommitDone, Merging, Bookkeeping
  <2>7. \A f \in File \ Protected :
          Settled'[f] = IF f \in Pkg[job[r]] \ Protected THEN job[r] ELSE Settled[f]
    BY <1>22, <2>2, <2>3, <2>6 DEF CommitDone, Restore, Copied, CopiesThere, Tree
  <2>8. PICK s \in Session : s = job[r]
    BY <2>4
  <2>9. Update!Install(s)
    BY <1>22, <2>5, <2>7, <2>8 DEF CommitDone, Released, Update!Install, Cancelled
  <2> QED
    BY <2>9 DEF Update!Next
<1>23. ASSUME NEW r \in Request, CleanOrphan(r) PROVE [Update!Next]_(Update!vars)
  <2>1. CASE live' = live
    <3>1. Settled' = Settled
      BY <1>23, <2>1, SettledSame DEF CleanOrphan, Merging
    <3> QED
      BY <1>23, <3>1, NothingSeen DEF CleanOrphan, Cancelled
  <2>2. CASE live' # live
    <3>1. PICK f \in left[r] :
            /\ live' = [live EXCEPT ![f] = Absent]
            /\ mishap' = IF /\ live[f] # Absent
                            /\ \/ current # job[r]
                               \/ \E t \in Task \ {r} : pc[t] \in Committing
                         THEN mishap \cup {"orphans"} ELSE mishap
      BY <1>23, <2>2 DEF CleanOrphan
    <3>2. live[f] # Absent
      BY <2>2, <3>1 DEF Tree
    <3>3. current = job[r] /\ \A t \in Task : ~Merging(t)
      BY <1>23, <3>1, <3>2 DEF CleanOrphan, Undisturbed, Merging
    <3>4. Settled = live /\ Settled' = live'
      BY <1>23, <3>3, SettledIsLive DEF CleanOrphan, Merging, Settled
    <3>5. f \in Managed \ Protected /\ f \notin Pkg[current]
      BY <1>23, <3>1, <3>3 DEF CleanOrphan, Bookkeeping, Orphans
    <3>6. current \in Session
      BY <1>23, <3>3 DEF CleanOrphan
    <3>7. [g \in File \ Protected |-> Settled'[g]]
            = [[g \in File \ Protected |-> Settled[g]] EXCEPT ![f] = Absent]
      BY <3>1, <3>4 DEF Tree
    <3>8. UNCHANGED <<current, applied, Cancelled, lock>>
      BY <1>23 DEF CleanOrphan, Cancelled
    <3>9. current # Base /\ f \notin [s \in Session |-> Pkg[s] \ Protected][current]
      BY <3>5, <3>6, TreeAssumption
    <3>10. Update!Trim(f)
      BY <3>7, <3>8, <3>9 DEF Update!Trim, Cancelled
    <3> QED
      BY <3>5, <3>10 DEF Update!Next
  <2> QED
    BY <2>1, <2>2
<1>24. ASSUME NEW r \in Request, Finish(r) PROVE [Update!Next]_(Update!vars)
  BY <1>24, Hidden DEF Finish, Goto, Logged, Merging, Bookkeeping
<1>25. ASSUME NEW r \in Request, FinishFails(r) PROVE [Update!Next]_(Update!vars)
  BY <1>25, Hidden DEF FinishFails, Goto, Merging, Bookkeeping
<1>26. ASSUME Stop PROVE [Update!Next]_(Update!vars)
  <2>1. \A t \in Task : ~Merging(t)
    BY <1>26 DEF Stop, Merging, Undisturbed
  <2>2. \A t \in Task : ~Merging(t)'
    BY <1>26 DEF Stop, Merging
  <2>3. Settled' = Settled
    BY <1>26, <2>1, <2>2, SettledSame DEF Stop
  <2>4. CASE lock = NoOne
    BY <1>26, <2>3, <2>4, NothingSeen DEF Stop, Cancelled
  <2>5. CASE lock \in Session
    <3>1. Update!GiveUp(lock)
      BY <1>26, <2>3 DEF Stop, Update!GiveUp
    <3> QED
      BY <2>5, <3>1 DEF Update!Next
  <2> QED
    BY <2>4, <2>5
<1>27. ASSUME Boot PROVE [Update!Next]_(Update!vars)
  BY <1>27, Hidden DEF Boot, Merging, Bookkeeping
<1>28. ASSUME GeoServerAtBoot PROVE [Update!Next]_(Update!vars)
  BY <1>28, Hidden DEF GeoServerAtBoot, Merging, Bookkeeping
<1>29. ASSUME NEW r \in Request, OrphansDone(r) PROVE [Update!Next]_(Update!vars)
  BY <1>29, Hidden DEF OrphansDone, Goto, Merging, Bookkeeping
<1> QED
  BY <1>1, <1>2, <1>3, <1>4, <1>5, <1>6, <1>7, <1>8, <1>9, <1>10, <1>11, <1>12, <1>13, <1>14, <1>15, <1>16, <1>17, <1>18, <1>19, <1>20, <1>21, <1>22, <1>23, <1>24, <1>25, <1>26, <1>27, <1>28, <1>29
     DEF Next, Prepare, Answer, Continue, Commit, Tail

-----------------------------------------------------------------------------
(* Further strengthenings *)

(***************************************************************************)
(* A package leaves a trace in the workspace, or in a snapshot of it, only *)
(* once its session is committing.                                         *)
(***************************************************************************)
Traced(s) ==
  \/ \E f \in File : live[f] = s
  \/ \E t \in Task, f \in File : snap[t] # NoOne /\ snap[t].image[f] = s

Unseen ==
  \A s \in Session \ revived :
    Traced(s) => /\ Registered(s) /\ s \notin mem
                 /\ <<s, "cancel">> \notin log
                 /\ \A t \in Task : Bears(t, s) => pc[t] \in Committing

\* A rollback puts back only what a snapshot holds.
LEMMA RestoreTraces ==
  ASSUME NEW tree \in Tree, NEW sn \in Snapshot, NEW failed, NEW s \in Session,
         NEW f \in File, Restore(tree, sn, failed)[f] = s
  PROVE  tree[f] = s \/ sn.image[f] = s
BY TreeAssumption DEF Restore, Version

\* No step but the copying of a file brings a new package's content in.
LEMMA UnseenNext ==
  ASSUME IInv, DecidedOnce, Unseen, Next
  PROVE  Unseen'
<1> USE SourceApplyAssumption, TreeAssumption DEF IInv, TypeOK, JobOK, Bearing, MapBearer, PrepareBearer, TaskBearer, OneBearer, Bears, Registered, Unseen, Traced
<1>1. ASSUME NEW s \in Session, Acquire(s) PROVE Unseen'
  BY <1>1 DEF Acquire, Goto
<1>2. ASSUME NEW s \in Session, EnterPrepare(s) PROVE Unseen'
  BY <1>2 DEF EnterPrepare, Goto
<1>3. ASSUME NEW s \in Session, FailBeforeTry(s) PROVE Unseen'
  BY <1>3 DEF FailBeforeTry, Goto
<1>4. ASSUME NEW s \in Session, WritePending(s) PROVE Unseen'
  BY <1>4 DEF WritePending, Goto
<1>5. ASSUME NEW s \in Session, RegisterPending(s) PROVE Unseen'
  BY <1>5 DEF RegisterPending, Goto
<1>6. ASSUME NEW s \in Session, FailPrepare(s) PROVE Unseen'
  BY <1>6 DEF FailPrepare, Goto, Released
<1>7. ASSUME NEW s \in Session, Expire(s) PROVE Unseen'
  BY <1>7 DEF Expire
<1>8. ASSUME NEW s \in Session, Timeout(s) PROVE Unseen'
  BY <1>8 DEF Timeout, Goto, TakeOver
<1>9. ASSUME NEW r \in Request, NEW s \in Session, AnswerFromMap(r, s) PROVE Unseen'
  BY <1>9 DEF AnswerFromMap, Goto, TakeOver
<1>10. ASSUME NEW r \in Request, NEW s \in Session, AnswerFromFile(r, s) PROVE Unseen'
  BY <1>10 DEF AnswerFromFile, Goto
<1>11. ASSUME NEW t \in Task, DeletePendingFile(t) PROVE Unseen'
  BY <1>11 DEF DeletePendingFile, Goto
<1>12. ASSUME NEW t \in Task, Discard(t) PROVE Unseen'
  BY <1>12 DEF Discard, Goto, Released, Logged
<1>13. ASSUME NEW r \in Request, Revive(r) PROVE Unseen'
  BY <1>13 DEF Revive, Goto, TakeOver
<1>14. ASSUME NEW r \in Request, StopGeoServer(r) PROVE Unseen'
  BY <1>14 DEF StopGeoServer, Goto
<1>15. ASSUME NEW r \in Request, BackUp(r) PROVE Unseen'
  <2>1. \A f \in File : TakeSnapshot(live, Pkg[job[r]]).image[f] = live[f]
    BY DEF TakeSnapshot
  <2> QED
    BY <1>15, <2>1 DEF BackUp, Goto
<1>16. ASSUME NEW r \in Request, CopyFile(r) PROVE Unseen'
  <2>1. job[r] \in Session \ revived => <<job[r], "cancel">> \notin log
    BY <1>16 DEF CopyFile, DecidedOnce, Decided
  <2> QED
    BY <1>16, <2>1 DEF CopyFile, Tree
<1>17. ASSUME NEW r \in Request, CopyDone(r) PROVE Unseen'
  BY <1>17 DEF CopyDone, Goto
<1>18. ASSUME NEW r \in Request, Build(r) PROVE Unseen'
  BY <1>18 DEF Build, Goto
<1>19. ASSUME NEW r \in Request, CommitThrows(r) PROVE Unseen'
  BY <1>19 DEF CommitThrows, Goto
<1>20. ASSUME NEW r \in Request, RollBack(r) PROVE Unseen'
  <2>1. \A s \in Session : Traced(s)' => Traced(s)
    <3> SUFFICES ASSUME NEW s \in Session, NEW f \in File, live'[f] = s PROVE Traced(s)
      BY <1>20 DEF RollBack
    <3>1. CASE snap[r] = NoOne
      BY <1>20, <3>1 DEF RollBack
    <3>2. CASE snap[r] # NoOne
      BY <1>20, <3>2, RestoreTraces DEF RollBack
    <3> QED
      BY <3>1, <3>2
  <2> QED
    BY <1>20, <2>1 DEF RollBack, Goto
<1>21. ASSUME NEW r \in Request, CommitFailed(r) PROVE Unseen'
  BY <1>21 DEF CommitFailed, Goto, Released
<1>22. ASSUME NEW r \in Request, CommitDone(r) PROVE Unseen'
  BY <1>22 DEF CommitDone, Goto, Released
<1>23. ASSUME NEW r \in Request, CleanOrphan(r) PROVE Unseen'
  <2>1. \A s \in Session : Traced(s)' => Traced(s)
    BY <1>23 DEF CleanOrphan, Tree, Version
  <2> QED
    BY <1>23, <2>1 DEF CleanOrphan
<1>24. ASSUME NEW r \in Request, Finish(r) PROVE Unseen'
  BY <1>24 DEF Finish, Goto, Logged
<1>25. ASSUME NEW r \in Request, FinishFails(r) PROVE Unseen'
  BY <1>25 DEF FinishFails, Goto
<1>26. ASSUME Stop PROVE Unseen'
  BY <1>26 DEF Stop
<1>27. ASSUME Boot PROVE Unseen'
  BY <1>27 DEF Boot
<1>28. ASSUME GeoServerAtBoot PROVE Unseen'
  BY <1>28 DEF GeoServerAtBoot
<1>29. ASSUME NEW r \in Request, OrphansDone(r) PROVE Unseen'
  BY <1>29 DEF OrphansDone, Goto
<1> QED
  BY <1>1, <1>2, <1>3, <1>4, <1>5, <1>6, <1>7, <1>8, <1>9, <1>10, <1>11, <1>12, <1>13, <1>14, <1>15, <1>16, <1>17, <1>18, <1>19, <1>20, <1>21, <1>22, <1>23, <1>24, <1>25, <1>26, <1>27, <1>28, <1>29
     DEF Next, Prepare, Answer, Continue, Commit, Tail

\* Nothing brings GeoServer up under a commit that saves or overwrites files.
LEMMA GeoStoppedNext ==
  ASSUME IInv, GeoStoppedWhileMerging, Next
  PROVE  GeoStoppedWhileMerging'
<1> SUFFICES ASSUME revived' = {}, "boot" \notin mishap' PROVE GeoStoppedWhileMerging'
  BY DEF GeoStoppedWhileMerging
<1> USE SourceApplyAssumption DEF IInv, TypeOK, JobOK, GeoStoppedWhileMerging
<1>1. ASSUME NEW s \in Session, Acquire(s) PROVE GeoStoppedWhileMerging'
  BY <1>1 DEF Acquire, Goto
<1>2. ASSUME NEW s \in Session, EnterPrepare(s) PROVE GeoStoppedWhileMerging'
  BY <1>2 DEF EnterPrepare, Goto
<1>3. ASSUME NEW s \in Session, FailBeforeTry(s) PROVE GeoStoppedWhileMerging'
  BY <1>3 DEF FailBeforeTry, Goto
<1>4. ASSUME NEW s \in Session, WritePending(s) PROVE GeoStoppedWhileMerging'
  BY <1>4 DEF WritePending, Goto
<1>5. ASSUME NEW s \in Session, RegisterPending(s) PROVE GeoStoppedWhileMerging'
  BY <1>5 DEF RegisterPending, Goto
<1>6. ASSUME NEW s \in Session, FailPrepare(s) PROVE GeoStoppedWhileMerging'
  <2>1. revived = {}
    BY <1>6 DEF FailPrepare
  <2>2. \A t \in Task : pc[t] \notin Committing
    BY <1>6, <2>1 DEF FailPrepare, Bearing, PrepareBearer, TaskBearer, Bears, Registered
  <2> QED
    BY <1>6, <2>2 DEF FailPrepare, Goto
<1>7. ASSUME NEW s \in Session, Expire(s) PROVE GeoStoppedWhileMerging'
  BY <1>7 DEF Expire
<1>8. ASSUME NEW s \in Session, Timeout(s) PROVE GeoStoppedWhileMerging'
  BY <1>8 DEF Timeout, Goto, TakeOver
<1>9. ASSUME NEW r \in Request, NEW s \in Session, AnswerFromMap(r, s) PROVE GeoStoppedWhileMerging'
  BY <1>9 DEF AnswerFromMap, Goto, TakeOver
<1>10. ASSUME NEW r \in Request, NEW s \in Session, AnswerFromFile(r, s) PROVE GeoStoppedWhileMerging'
  BY <1>10 DEF AnswerFromFile, Goto
<1>11. ASSUME NEW t \in Task, DeletePendingFile(t) PROVE GeoStoppedWhileMerging'
  BY <1>11 DEF DeletePendingFile, Goto
<1>12. ASSUME NEW t \in Task, Discard(t) PROVE GeoStoppedWhileMerging'
  BY <1>12 DEF Discard, Goto, Released, Logged
<1>13. ASSUME NEW r \in Request, Revive(r) PROVE GeoStoppedWhileMerging'
  BY <1>13 DEF Revive, Goto, TakeOver
<1>14. ASSUME NEW r \in Request, StopGeoServer(r) PROVE GeoStoppedWhileMerging'
  BY <1>14 DEF StopGeoServer, Goto
<1>15. ASSUME NEW r \in Request, BackUp(r) PROVE GeoStoppedWhileMerging'
  BY <1>15 DEF BackUp, Goto
<1>16. ASSUME NEW r \in Request, CopyFile(r) PROVE GeoStoppedWhileMerging'
  BY <1>16 DEF CopyFile
<1>17. ASSUME NEW r \in Request, CopyDone(r) PROVE GeoStoppedWhileMerging'
  <2>1. revived = {}
    BY <1>17 DEF CopyDone
  <2>2. \A t \in Task : pc[t] \in Committing => t = r
    BY <1>17, <2>1 DEF CopyDone, Bearing, TaskBearer, OneBearer, Bears
  <2> QED
    BY <1>17, <2>1, <2>2 DEF CopyDone, Goto
<1>18. ASSUME NEW r \in Request, Build(r) PROVE GeoStoppedWhileMerging'
  BY <1>18 DEF Build, Goto
<1>19. ASSUME NEW r \in Request, CommitThrows(r) PROVE GeoStoppedWhileMerging'
  BY <1>19 DEF CommitThrows, Goto
<1>20. ASSUME NEW r \in Request, RollBack(r) PROVE GeoStoppedWhileMerging'
  <2>1. revived = {}
    BY <1>20 DEF RollBack
  <2>2. \A t \in Task : pc[t] \in Committing => t = r
    BY <1>20, <2>1 DEF RollBack, Bearing, TaskBearer, OneBearer, Bears
  <2> QED
    BY <1>20, <2>1, <2>2 DEF RollBack, Goto
<1>21. ASSUME NEW r \in Request, CommitFailed(r) PROVE GeoStoppedWhileMerging'
  BY <1>21 DEF CommitFailed, Goto, Released
<1>22. ASSUME NEW r \in Request, CommitDone(r) PROVE GeoStoppedWhileMerging'
  BY <1>22 DEF CommitDone, Goto, Released
<1>23. ASSUME NEW r \in Request, CleanOrphan(r) PROVE GeoStoppedWhileMerging'
  BY <1>23 DEF CleanOrphan
<1>24. ASSUME NEW r \in Request, Finish(r) PROVE GeoStoppedWhileMerging'
  BY <1>24 DEF Finish, Goto, Logged
<1>25. ASSUME NEW r \in Request, FinishFails(r) PROVE GeoStoppedWhileMerging'
  BY <1>25 DEF FinishFails, Goto
<1>26. ASSUME Stop PROVE GeoStoppedWhileMerging'
  BY <1>26 DEF Stop
<1>27. ASSUME Boot PROVE GeoStoppedWhileMerging'
  BY <1>27 DEF Boot
<1>28. ASSUME GeoServerAtBoot PROVE GeoStoppedWhileMerging'
  BY <1>28 DEF GeoServerAtBoot
<1>29. ASSUME NEW r \in Request, OrphansDone(r) PROVE GeoStoppedWhileMerging'
  BY <1>29 DEF OrphansDone, Goto
<1> QED
  BY <1>1, <1>2, <1>3, <1>4, <1>5, <1>6, <1>7, <1>8, <1>9, <1>10, <1>11, <1>12, <1>13, <1>14, <1>15, <1>16, <1>17, <1>18, <1>19, <1>20, <1>21, <1>22, <1>23, <1>24, <1>25, <1>26, <1>27, <1>28, <1>29
     DEF Next, Prepare, Answer, Continue, Commit, Tail

(***************************************************************************)
(* Which build is on disk, until a disturbance.                            *)
(***************************************************************************)
Built(t) == pc[t] = "doneTmp" /\ job[t] \in Restarting

BuildFollows ==
  /\ \A t \in Task : pc[t] = "build" => job[t] \in Restarting
  /\ Undisturbed =>
       /\ \A t \in Task : Built(t) => built = job[t]
       /\ current \in Restarting /\ (\A t \in Task : ~Built(t))
            => built \in {current, Broken}

\* Every step keeps the build in line with the package applied last.
LEMMA BuildNext ==
  ASSUME IInv, BuildFollows, Next
  PROVE  BuildFollows'
<1> USE SourceApplyAssumption DEF IInv, TypeOK, JobOK, BuildFollows, Built
<1>1. ASSUME NEW s \in Session, Acquire(s) PROVE BuildFollows'
  BY <1>1, DisturbedStays DEF Acquire, Goto
<1>2. ASSUME NEW s \in Session, EnterPrepare(s) PROVE BuildFollows'
  BY <1>2, DisturbedStays DEF EnterPrepare, Goto
<1>3. ASSUME NEW s \in Session, FailBeforeTry(s) PROVE BuildFollows'
  BY <1>3, DisturbedStays DEF FailBeforeTry, Goto
<1>4. ASSUME NEW s \in Session, WritePending(s) PROVE BuildFollows'
  BY <1>4, DisturbedStays DEF WritePending, Goto
<1>5. ASSUME NEW s \in Session, RegisterPending(s) PROVE BuildFollows'
  BY <1>5, DisturbedStays DEF RegisterPending, Goto
<1>6. ASSUME NEW s \in Session, FailPrepare(s) PROVE BuildFollows'
  BY <1>6, DisturbedStays DEF FailPrepare, Goto, Released
<1>7. ASSUME NEW s \in Session, Expire(s) PROVE BuildFollows'
  BY <1>7, DisturbedStays DEF Expire
<1>8. ASSUME NEW s \in Session, Timeout(s) PROVE BuildFollows'
  BY <1>8, DisturbedStays DEF Timeout, Goto, TakeOver
<1>9. ASSUME NEW r \in Request, NEW s \in Session, AnswerFromMap(r, s) PROVE BuildFollows'
  BY <1>9, DisturbedStays DEF AnswerFromMap, Goto, TakeOver
<1>10. ASSUME NEW r \in Request, NEW s \in Session, AnswerFromFile(r, s) PROVE BuildFollows'
  BY <1>10, DisturbedStays DEF AnswerFromFile, Goto
<1>11. ASSUME NEW t \in Task, DeletePendingFile(t) PROVE BuildFollows'
  BY <1>11, DisturbedStays DEF DeletePendingFile, Goto
<1>12. ASSUME NEW t \in Task, Discard(t) PROVE BuildFollows'
  BY <1>12, DisturbedStays DEF Discard, Goto, Released, Logged
<1>13. ASSUME NEW r \in Request, Revive(r) PROVE BuildFollows'
  BY <1>13, DisturbedStays DEF Revive, Goto, TakeOver
<1>14. ASSUME NEW r \in Request, StopGeoServer(r) PROVE BuildFollows'
  BY <1>14, DisturbedStays DEF StopGeoServer, Goto
<1>15. ASSUME NEW r \in Request, BackUp(r) PROVE BuildFollows'
  BY <1>15, DisturbedStays DEF BackUp, Goto
<1>16. ASSUME NEW r \in Request, CopyFile(r) PROVE BuildFollows'
  BY <1>16, DisturbedStays DEF CopyFile
<1>17. ASSUME NEW r \in Request, CopyDone(r) PROVE BuildFollows'
  <2>1. \A t \in Task : Undisturbed' /\ pc[t] \in Committing => t = r
    BY <1>17, OneCommit, DisturbedStays DEF CopyDone
  <2> QED
    BY <1>17, <2>1, DisturbedStays DEF CopyDone, Goto
<1>18. ASSUME NEW r \in Request, Build(r) PROVE BuildFollows'
  <2>1. \A t \in Task : Undisturbed' /\ pc[t] \in Committing => t = r
    BY <1>18, OneCommit, DisturbedStays DEF Build
  <2> QED
    BY <1>18, <2>1, DisturbedStays DEF Build, Goto
<1>19. ASSUME NEW r \in Request, CommitThrows(r) PROVE BuildFollows'
  <2>1. \A t \in Task : Undisturbed' /\ pc[t] \in Committing => t = r
    BY <1>19, OneCommit, DisturbedStays DEF CommitThrows
  <2> QED
    BY <1>19, <2>1, DisturbedStays DEF CommitThrows, Goto
<1>20. ASSUME NEW r \in Request, RollBack(r) PROVE BuildFollows'
  BY <1>20, DisturbedStays DEF RollBack, Goto
<1>21. ASSUME NEW r \in Request, CommitFailed(r) PROVE BuildFollows'
  BY <1>21, DisturbedStays DEF CommitFailed, Goto, Released
<1>22. ASSUME NEW r \in Request, CommitDone(r) PROVE BuildFollows'
  <2>1. \A t \in Task : Undisturbed' /\ pc[t] \in Committing => t = r
    BY <1>22, OneCommit, DisturbedStays DEF CommitDone
  <2> QED
    BY <1>22, <2>1, DisturbedStays DEF CommitDone, Goto, Released
<1>23. ASSUME NEW r \in Request, CleanOrphan(r) PROVE BuildFollows'
  BY <1>23, DisturbedStays DEF CleanOrphan
<1>24. ASSUME NEW r \in Request, Finish(r) PROVE BuildFollows'
  BY <1>24, DisturbedStays DEF Finish, Goto, Logged
<1>25. ASSUME NEW r \in Request, FinishFails(r) PROVE BuildFollows'
  BY <1>25, DisturbedStays DEF FinishFails, Goto
<1>26. ASSUME Stop PROVE BuildFollows'
  <2>1. \A t \in Task : pc'[t] \in {"new", "idle", "lost"}
    BY <1>26 DEF Stop
  <2>2. Undisturbed' => \A t \in Task : ~Built(t)
    BY <1>26 DEF Stop, Undisturbed
  <2> QED
    BY <1>26, <2>1, <2>2, DisturbedStays DEF Stop
<1>27. ASSUME Boot PROVE BuildFollows'
  BY <1>27, DisturbedStays DEF Boot
<1>28. ASSUME GeoServerAtBoot PROVE BuildFollows'
  BY <1>28, DisturbedStays DEF GeoServerAtBoot
<1>29. ASSUME NEW r \in Request, OrphansDone(r) PROVE BuildFollows'
  BY <1>29, DisturbedStays DEF OrphansDone, Goto
<1> QED
  BY <1>1, <1>2, <1>3, <1>4, <1>5, <1>6, <1>7, <1>8, <1>9, <1>10, <1>11, <1>12, <1>13, <1>14, <1>15, <1>16, <1>17, <1>18, <1>19, <1>20, <1>21, <1>22, <1>23, <1>24, <1>25, <1>26, <1>27, <1>28, <1>29
     DEF Next, Prepare, Answer, Continue, Commit, Tail

-----------------------------------------------------------------------------
(* Theorems *)

\* The strengthened invariant holds in every reachable state.
THEOREM MInvCorrect == Spec => []MInv
BY InitMInv, MInvNext, PTL DEF Spec

\* The whole pipeline implements the abstract update: until a disturbance,
\* packages are installed one at a time and each in a single step, and every
\* other end of an apply leaves the files alone.
THEOREM Implements == Spec => AppliesAtomically
<1>1. Init => Update!Init
  <2> SUFFICES ASSUME Init PROVE Update!Init
    OBVIOUS
  <2>1. Settled = live
    BY SettledIsLive DEF Init, Merging
  <2> QED
    BY <2>1 DEF Init, Update!Init, Undisturbed
<1>2. MInv /\ MInv' /\ [Next]_vars => [Update!Next]_(Update!vars)
  <2> SUFFICES ASSUME MInv, MInv', [Next]_vars PROVE [Update!Next]_(Update!vars)
    OBVIOUS
  <2>1. CASE UNCHANGED vars
    <3>1. Settled' = Settled
      BY <2>1 DEF vars, Settled, Merging
    <3> QED
      BY <2>1, <3>1 DEF vars, Update!vars, Undisturbed
  <2> QED
    BY <2>1, StepRefines
<1> QED
  BY MInvCorrect, <1>1, <1>2, PTL DEF Spec, AppliesAtomically, Update!Spec

\* What the abstract update guarantees about the files holds of it for ever.
LEMMA WholeNext ==
  ASSUME Update!Whole, [Update!Next]_(Update!vars)
  PROVE  Update!Whole'
<1> USE TreeAssumption, SourceApplyAssumption DEF Version, Update!Whole, Update!PackageOf
<1>1. ASSUME NEW s \in Session, Update!Begin(s) PROVE Update!Whole'
  BY <1>1 DEF Update!Begin
<1>2. ASSUME NEW s \in Session, Update!GiveUp(s) PROVE Update!Whole'
  BY <1>2 DEF Update!GiveUp
<1>3. ASSUME NEW s \in Session, Update!Cancel(s) PROVE Update!Whole'
  BY <1>3 DEF Update!Cancel
<1>4. ASSUME NEW s \in Session, Update!Install(s) PROVE Update!Whole'
  <2>1. /\ \A f \in File \ Protected : Settled'[f] = IF f \in Pkg[s] THEN s ELSE Settled[f]
        /\ current' = s /\ applied' = applied \cup {s} /\ Undisturbed' = Undisturbed
    BY <1>4 DEF Update!Install
  <2>2. Undisturbed => \A f \in File \ Protected : Settled[f] \in applied \cup {Absent}
    OBVIOUS
  <2> QED
    BY <2>1, <2>2
<1>5. ASSUME NEW f \in Managed \ Protected, Update!Trim(f) PROVE Update!Whole'
  <2>1. /\ \A g \in File \ Protected : Settled'[g] = IF g = f THEN Absent ELSE Settled[g]
        /\ current' = current /\ applied' = applied /\ Undisturbed' = Undisturbed
    BY <1>5 DEF Update!Trim
  <2>2. f \notin Update!PackageOf(current)
    BY <1>5 DEF Update!Trim
  <2> QED
    BY <2>1, <2>2
<1>6. CASE Update!Disturb
  BY <1>6 DEF Update!Disturb
<1>7. CASE UNCHANGED Update!vars
  BY <1>7 DEF Update!vars
<1> QED
  BY <1>1, <1>2, <1>3, <1>4, <1>5, <1>6, <1>7 DEF Update!Next

\* Whatever implements AtomicUpdate has, until it is disturbed, the package
\* installed last there whole, and everything else is older.
THEOREM UpdateIsWhole == Update!Spec => []Update!Whole
<1>1. Update!Init => Update!Whole
  BY DEF Update!Init, Update!Whole, Update!PackageOf
<1>2. Update!Whole /\ [Update!Next]_(Update!vars) => Update!Whole'
  BY WholeNext
<1> QED
  BY <1>1, <1>2, PTL DEF Update!Spec

\* However many commits fail half way, when none is changing files the
\* package applied last is there whole and everything else is older.
THEOREM PackageIsWhole == Spec => []PackageWhole
<1>1. TypeOK /\ Update!Whole => PackageWhole
  <2> SUFFICES ASSUME TypeOK, Update!Whole, Undisturbed,
                      \A t \in Task : pc[t] \notin {"copy", "build", "fail", "doneTmp"},
                      NEW f \in File \ Protected
               PROVE  IF f \in PackageOf(current) THEN live[f] = current
                      ELSE live[f] \in applied \cup {Absent}
    BY DEF PackageWhole, Undisturbed
  <2>1. Settled = live
    BY SettledIsLive DEF Merging
  <2> QED
    BY <2>1, TreeAssumption, SourceApplyAssumption DEF TypeOK, Version, Update!Whole, Update!PackageOf, PackageOf
<1> QED
  BY Implements, UpdateIsWhole, TypeCorrect, <1>1, PTL DEF AppliesAtomically

\* No file of a package whose session was recorded as cancelled is in the
\* workspace, not even after restarts, failed rollbacks or other applies.
THEOREM CancelIsTraceless == Spec => []CancelLeavesNoTrace
<1>1. Init => Unseen
  BY TreeAssumption DEF Init, Unseen, Traced
<1>2. MInv /\ Unseen /\ [Next]_vars => Unseen'
  <2>1. MInv /\ Unseen /\ UNCHANGED vars => Unseen'
    BY DEF vars, Unseen, Traced, Registered, Bears
  <2> QED
    BY <2>1, UnseenNext DEF MInv
<1>3. Unseen => CancelLeavesNoTrace
  BY DEF Unseen, Traced, CancelLeavesNoTrace
<1> QED
  BY MInvCorrect, <1>1, <1>2, <1>3, PTL DEF Spec

\* GeoServer, which locks the files, stays down while a commit saves or
\* overwrites them.
THEOREM GeoServerStaysDown == Spec => []GeoStoppedWhileMerging
<1>1. Init => GeoStoppedWhileMerging
  <2> SUFFICES ASSUME Init PROVE GeoStoppedWhileMerging
    OBVIOUS
  <2>1. \A t \in Task : pc[t] \in {"new", "idle"}
    BY DEF Init
  <2> QED
    BY <2>1 DEF GeoStoppedWhileMerging
<1>2. IInv /\ GeoStoppedWhileMerging /\ [Next]_vars => GeoStoppedWhileMerging'
  <2>1. GeoStoppedWhileMerging /\ UNCHANGED vars => GeoStoppedWhileMerging'
    BY DEF vars, GeoStoppedWhileMerging
  <2> QED
    BY <2>1, GeoStoppedNext
<1> QED
  BY BearersCorrect, <1>1, <1>2, PTL DEF Spec

\* The build that a restart will run belongs to the package applied last.
THEOREM BuildIsCurrent == Spec => []BuildMatches
<1>1. Init => BuildFollows
  <2> SUFFICES ASSUME Init PROVE BuildFollows
    OBVIOUS
  <2>1. \A t \in Task : pc[t] \in {"new", "idle"}
    BY DEF Init
  <2> QED
    BY <2>1 DEF Init, BuildFollows, Built
<1>2. IInv /\ BuildFollows /\ [Next]_vars => BuildFollows'
  <2>1. BuildFollows /\ UNCHANGED vars => BuildFollows'
    BY DEF vars, BuildFollows, Built, Undisturbed
  <2> QED
    BY <2>1, BuildNext
<1>3. BuildFollows => BuildMatches
  BY DEF BuildFollows, BuildMatches, Built, Undisturbed
<1> QED
  BY BearersCorrect, <1>1, <1>2, <1>3, PTL DEF Spec
=============================================================================

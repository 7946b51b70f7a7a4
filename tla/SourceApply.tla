---------------------------- MODULE SourceApply ----------------------------
(***************************************************************************)
(* Applying a new source package to a running portal                       *)
(* (src/src/service/sourceVersionService.ts with sourceApplyLock.ts and    *)
(* sourceApplyOrphanCleanup.ts).                                           *)
(*                                                                         *)
(* An apply has two halves.  PREPARE (applySourceZipFile) takes the        *)
(* in-memory apply lock, unpacks the package into a temporary directory,   *)
(* type-checks it and parks a pending session in a Map and in a file on    *)
(* disk; the lock stays held.  Then the user answers a dialog: CONFIRM     *)
(* commits the package to the live workspace, ABORT discards it, and a     *)
(* 30-minute timer discards it when nobody answers.  The server may be     *)
(* stopped between any two steps: the lock and the Map are lost, the files *)
(* are not, and a confirm that misses the Map revives the session from its *)
(* file.                                                                   *)
(*                                                                         *)
(* Requests and timer callbacks interleave where the code awaits, so a     *)
(* step here is the code between two awaits that another task could tell   *)
(* apart.  The merge copies file by file and the orphan clean-up deletes   *)
(* file by file; taking and restoring a snapshot, which nothing but a stop *)
(* of the server can meet half way, are one step each.                     *)
(***************************************************************************)
EXTENDS Naturals, SourceTree

CONSTANTS
  Request,    \* confirm and abort requests the server may serve at once
  Pkg,        \* Pkg[s]: the merge list of the package of s
  Restarting, \* sessions applied with restart mode "exit" or "launcher"
  NoOne,      \* no lock owner, no session, no snapshot
  Broken,     \* a .next directory that a failed build left behind
  Swallowed,  \* the steps whose errors, which the code swallows, occur
  MaxStops    \* bound: how often the server may stop

ASSUME SourceApplyAssumption ==
  /\ Pkg \in [Session -> SUBSET File]
  /\ Restarting \subseteq Session
  /\ Session \cap Request = {}
  /\ NoOne \notin Session \cup Request \cup Snapshot
  /\ Broken \notin Version
  /\ Swallowed \subseteq {"recover", "rm", "history", "restore", "orphans"}
  /\ MaxStops \in Nat

VARIABLES
  up,        \* the Next server process is running
  lock,      \* applyOwner: the session holding the apply lock, or NoOne
  mem,       \* pendingSchemaSessions: sessions in the Map (timer armed)
  file,      \* sessions with a pending-schema-confirm/<id>.json on disk
  tmp,       \* sessions whose unpacked package is still on disk
  expired,   \* sessions created more than PENDING_SCHEMA_TTL_MS ago
  pc,        \* where each prepare, timer callback or request stands
  job,       \* the session a request or timer callback works on
  left,      \* files a commit has still to copy, or to look at as orphans
  snap,      \* the rollback snapshot of a commit
  live,      \* the live workspace
  built,     \* the source .next was built from, or Broken
  geo,       \* GeoServer answers
  geoBoot,   \* run.ts still has GeoServer to bring up in the background
  due,       \* a process exit or a relaunch has been scheduled
  log,       \* the version history rows, as <<session, status>>
  stops,     \* how often the server has stopped (bounded by MaxStops)
  current,   \* history: the session whose commit completed last
  applied,   \* history: the versions whose commit has completed
  revived,   \* history: sessions ever read back from their file
  mishap     \* history: what went wrong that the code does not undo

procVars == <<up, stops, due>>
sessVars == <<mem, file, expired, revived>>
taskVars == <<pc, job, left, snap>>
treeVars == <<live, built, current, applied, mishap>>
geoVars  == <<geo, geoBoot>>
vars == <<procVars, sessVars, taskVars, treeVars, geoVars, log, lock, tmp>>

(***************************************************************************)
(* A session is a thread of its own (its prepare, then its timer); so is   *)
(* every request.                                                          *)
(***************************************************************************)
Task == Session \cup Request

Preparing == {"lobby", "unpack", "register"}

\* A commit, from the call of executePreparedSourceApplyCommit to its return.
Committing == {"stop", "backup", "copy", "build", "fail", "failTmp", "doneTmp"}

\* A task that took the session out of the Map and answers for it.
Working == {"confirmRm", "discardRm", "discardTmp"} \cup Committing

PC == {"new", "leaked", "lost", "idle", "confirmRead", "abortRead",
       "orphans", "finish"} \cup Preparing \cup Working

TypeOK ==
  /\ up \in BOOLEAN
  /\ lock \in Session \cup {NoOne}
  /\ mem \subseteq Session
  /\ file \subseteq Session
  /\ tmp \subseteq Session
  /\ expired \subseteq Session
  /\ pc \in [Task -> PC]
  /\ job \in [Task -> Session \cup {NoOne}]
  /\ left \in [Task -> SUBSET File]
  /\ snap \in [Task -> Snapshot \cup {NoOne}]
  /\ live \in Tree
  /\ built \in Version \cup {Broken}
  /\ geo \in BOOLEAN
  /\ geoBoot \in BOOLEAN
  /\ due \in BOOLEAN
  /\ log \subseteq Session \X {"success", "cancel"}
  /\ stops \in 0..MaxStops
  /\ current \in Version
  /\ applied \subseteq Version
  /\ revived \subseteq Session
  /\ mishap \subseteq {"stop", "restore", "orphans", "boot"}

Init ==
  /\ up = TRUE
  /\ lock = NoOne
  /\ mem = {} /\ file = {} /\ tmp = {} /\ expired = {}
  /\ pc = [t \in Task |-> IF t \in Session THEN "new" ELSE "idle"]
  /\ job = [t \in Task |-> NoOne]
  /\ left = [t \in Task |-> {}]
  /\ snap = [t \in Task |-> NoOne]
  /\ live = [f \in File |-> Base]
  /\ built = Base
  /\ geo = TRUE /\ geoBoot = FALSE
  /\ due = FALSE
  /\ log = {}
  /\ stops = 0
  /\ current = Base /\ applied = {Base}
  /\ revived = {} /\ mishap = {}

-----------------------------------------------------------------------------
(* Helpers *)

\* Mutant: the owner is not compared.
ReleasedByAnyone(s) == NoOne

\* releaseSourceApplyLock(owner): a no-op unless the caller owns the lock.
Released(s) == IF lock = s THEN NoOne ELSE lock

\* ensureGeoServerRecoveredAfterApply: GeoServer comes up, or the attempt
\* fails and everything stays as it was; the callers ignore which.
GeoRecovered(g) == IF "recover" \in Swallowed THEN {TRUE, g} ELSE {TRUE}

\* fs.rm(...).catch(() => {}): the entry goes, or the error is swallowed.
Removed(set, s) == {set \ {s}} \cup (IF "rm" \in Swallowed THEN {set} ELSE {})

\* recordVersionHistory answers { ok: false } when the insert fails.
Logged(s, status) ==
  {log \cup {<<s, status>>}} \cup (IF "history" \in Swallowed THEN {log} ELSE {})

\* The files a loop over paths fails on and goes past.
SkippedOf(loop, paths) == IF loop \in Swallowed THEN SUBSET paths ELSE {{}}

Goto(t, where) == pc' = [pc EXCEPT ![t] = where]

\* The user of the session has been given its pending id.
Registered(s) == pc[s] \notin Preparing \cup {"new", "leaked", "lost"}

-----------------------------------------------------------------------------
(* PREPARE: applySourceZipFile *)

\* tryAcquireSourceApplyLock: refused (an error, no change) while held.
Acquire(s) ==
  /\ up
  /\ pc[s] = "new"
  /\ lock = NoOne
  /\ lock' = s
  /\ Goto(s, "lobby")
  /\ UNCHANGED <<procVars, sessVars, job, left, snap, treeVars, geoVars, log, tmp>>

\* fs.stat and the first progress report, which come before the try block.
EnterPrepare(s) ==
  /\ up
  /\ pc[s] = "lobby"
  /\ tmp' = tmp \cup {s}
  /\ Goto(s, "unpack")
  /\ UNCHANGED <<procVars, sessVars, job, left, snap, treeVars, geoVars, log, lock>>

\* ... and when one of them throws (the uploaded file is gone, the client
\* has closed the progress stream) no handler runs.
FailBeforeTry(s) ==
  /\ up
  /\ pc[s] = "lobby"
  /\ Goto(s, "leaked")
  /\ UNCHANGED <<procVars, sessVars, job, left, snap, treeVars, geoVars, log, lock, tmp>>

\* Unpacking, counting and the type check succeeded: writePendingSchemaFile.
WritePending(s) ==
  /\ up
  /\ pc[s] = "unpack"
  /\ file' = file \cup {s}
  /\ Goto(s, "register")
  /\ UNCHANGED <<procVars, mem, expired, revived, job, left, snap, treeVars, geoVars, log, lock, tmp>>

\* Arm the timer, put the session into the Map, answer the client.
RegisterPending(s) ==
  /\ up
  /\ pc[s] = "register"
  /\ mem' = mem \cup {s}
  /\ Goto(s, "idle")
  /\ UNCHANGED <<procVars, file, expired, revived, job, left, snap, treeVars, geoVars, log, lock, tmp>>

\* Mutant: the catch block forgets the lock.
FailPrepareKeepingLock(s) ==
  /\ up
  /\ pc[s] = "unpack"
  /\ geo' \in GeoRecovered(geo) \cup {geo}
  /\ tmp' \in Removed(tmp, s)
  /\ Goto(s, "lost")
  /\ UNCHANGED <<procVars, sessVars, job, left, snap, treeVars, geoBoot, log, lock>>

\* A failure inside the try block: GeoServer is ensured (unless reporting the
\* failure throws as well), the lock released, the unpacked package deleted.
FailPrepare(s) ==
  /\ up
  /\ pc[s] = "unpack"
  /\ geo' \in GeoRecovered(geo) \cup {geo}
  /\ lock' = Released(s)
  /\ tmp' \in Removed(tmp, s)
  /\ Goto(s, "lost")
  /\ UNCHANGED <<procVars, sessVars, job, left, snap, treeVars, geoBoot, log>>

-----------------------------------------------------------------------------
(* The answer: confirm, abort, timeout *)

\* PENDING_SCHEMA_TTL_MS have passed since the session was created.
Expire(s) ==
  /\ s \notin expired
  /\ s \in file \cup mem
  /\ expired' = expired \cup {s}
  /\ UNCHANGED <<procVars, mem, file, revived, taskVars, treeVars, geoVars, log, lock, tmp>>

\* Mutant: the Map entry stays until the answer has been worked off.
TakeOverKeepingEntry(t, s, where) ==
  /\ UNCHANGED mem
  /\ job' = [job EXCEPT ![t] = s]
  /\ Goto(t, where)

\* Mutant: the session is not handed to the task.
TakeOverWithoutJob(t, s, where) ==
  /\ mem' = mem \ {s}
  /\ UNCHANGED job
  /\ Goto(t, where)

\* A task takes s out of the Map and starts deleting its file.
TakeOver(t, s, where) ==
  /\ mem' = mem \ {s}
  /\ job' = [job EXCEPT ![t] = s]
  /\ Goto(t, where)

\* The user who started the apply answers and the session is in the Map.
\* (Anyone else is refused without an effect.)
AnswerFromMap(r, s) ==
  /\ up
  /\ pc[r] = "idle"
  /\ Registered(s)
  /\ s \in mem
  /\ \E where \in {"confirmRm", "discardRm"} : TakeOver(r, s, where)
  /\ UNCHANGED <<procVars, file, expired, revived, left, snap, treeVars, geoVars, log, lock, tmp>>

\* The session is not in the Map: its file is read.  (With no file either,
\* the answer is "no pending session" and nothing changes.)
AnswerFromFile(r, s) ==
  /\ up
  /\ pc[r] = "idle"
  /\ Registered(s)
  /\ s \notin mem
  /\ s \in file
  /\ job' = [job EXCEPT ![r] = s]
  /\ \E where \in {"confirmRead", "abortRead"} : Goto(r, where)
  /\ UNCHANGED <<procVars, sessVars, left, snap, treeVars, geoVars, log, lock, tmp>>

\* The rest of resolvePendingSession, once the file has been read, and the
\* beginning of the confirm or abort that called it.
Revive(r) ==
  /\ up
  /\ pc[r] \in {"confirmRead", "abortRead"}
  /\ LET s == job[r] IN
       \/ /\ s \in expired
          /\ TakeOver(r, s, "discardRm")
          /\ revived' = revived \cup {s}
       \/ /\ s \notin expired
          /\ TakeOver(r, s, IF pc[r] = "confirmRead" THEN "confirmRm" ELSE "discardRm")
          /\ revived' = revived \cup {s}
       \/ \* another user: refused, after the session went back into the Map
          /\ s \notin expired
          /\ mem' = mem \cup {s}
          /\ revived' = revived \cup {s}
          /\ job' = [job EXCEPT ![r] = NoOne]
          /\ Goto(r, "idle")
  /\ UNCHANGED <<procVars, file, expired, left, snap, treeVars, geoVars, log, lock, tmp>>

\* Mutant: the callback does not look whether the session is still waiting.
TimeoutBlind(s) ==
  /\ up
  /\ pc[s] = "idle"
  /\ s \in expired
  /\ TakeOver(s, s, "discardRm")
  /\ UNCHANGED <<procVars, file, expired, revived, left, snap, treeVars, geoVars, log, lock, tmp>>

\* armPendingSchemaTimer's callback, which does nothing when the Map no
\* longer holds the session.
Timeout(s) ==
  /\ up
  /\ pc[s] = "idle"
  /\ s \in mem \cap expired
  /\ TakeOver(s, s, "discardRm")
  /\ UNCHANGED <<procVars, file, expired, revived, left, snap, treeVars, geoVars, log, lock, tmp>>

\* deletePendingSchemaFile, awaited after the Map entry is gone.
DeletePendingFile(t) ==
  /\ up
  /\ \/ pc[t] = "confirmRm" /\ Goto(t, "stop")
     \/ pc[t] = "discardRm" /\ Goto(t, "discardTmp")
  /\ file' \in Removed(file, job[t])
  /\ UNCHANGED <<procVars, mem, expired, revived, job, left, snap, treeVars, geoVars, log, lock, tmp>>

\* Mutant: a discarded session keeps the lock.
DiscardKeepingLock(t) ==
  /\ up
  /\ pc[t] = "discardTmp"
  /\ tmp' \in Removed(tmp, job[t])
  /\ log' \in Logged(job[t], "cancel")
  /\ job' = [job EXCEPT ![t] = NoOne]
  /\ Goto(t, "idle")
  /\ UNCHANGED <<procVars, sessVars, left, snap, treeVars, geoVars, lock>>

\* The rest of discardPendingSession and the history row of the cancel.
Discard(t) ==
  /\ up
  /\ pc[t] = "discardTmp"
  /\ tmp' \in Removed(tmp, job[t])
  /\ lock' = Released(job[t])
  /\ log' \in Logged(job[t], "cancel")
  /\ job' = [job EXCEPT ![t] = NoOne]
  /\ Goto(t, "idle")
  /\ UNCHANGED <<procVars, sessVars, left, snap, treeVars, geoVars>>

-----------------------------------------------------------------------------
(* COMMIT: executePreparedSourceApplyCommit *)

\* stopGeoServerAndVerify
StopGeoServer(r) ==
  /\ up
  /\ pc[r] = "stop"
  /\ geo' = FALSE
  /\ Goto(r, "backup")
  /\ UNCHANGED <<procVars, sessVars, job, left, snap, treeVars, geoBoot, log, lock, tmp>>

\* listMergeRelFiles and createSourceRollbackSnapshot
BackUp(r) ==
  /\ up
  /\ pc[r] = "backup"
  /\ job[r] \in tmp
  /\ snap' = [snap EXCEPT ![r] = TakeSnapshot(live, Pkg[job[r]])]
  /\ left' = [left EXCEPT ![r] = Pkg[job[r]]]
  /\ Goto(r, "copy")
  /\ UNCHANGED <<procVars, sessVars, job, treeVars, geoVars, log, lock, tmp>>

\* copyRecursive, one file at a time
CopyFile(r) ==
  /\ up
  /\ pc[r] = "copy"
  /\ job[r] \in tmp
  /\ \E f \in left[r] :
       /\ live' = [live EXCEPT ![f] = job[r]]
       /\ left' = [left EXCEPT ![r] = @ \ {f}]
  /\ UNCHANGED <<procVars, sessVars, pc, job, snap, built, current, applied, mishap, geoVars, log, lock, tmp>>

\* Mutant: the snapshot is dropped when the merge is complete, before the build.
CopyDoneDroppingSnapshot(r) ==
  /\ up
  /\ pc[r] = "copy"
  /\ left[r] = {}
  /\ snap' = [snap EXCEPT ![r] = NoOne]
  /\ \/ /\ job[r] \in Restarting
        /\ Goto(r, "build")
        /\ UNCHANGED geo
     \/ /\ job[r] \notin Restarting
        /\ geo' \in GeoRecovered(geo)
        /\ Goto(r, "doneTmp")
  /\ UNCHANGED <<procVars, sessVars, job, left, treeVars, geoBoot, log, lock, tmp>>

\* Without a restart GeoServer is brought back at once; with one that is
\* left to run.ts and the build comes first.
CopyDone(r) ==
  /\ up
  /\ pc[r] = "copy"
  /\ left[r] = {}
  /\ \/ /\ job[r] \in Restarting
        /\ Goto(r, "build")
        /\ UNCHANGED geo
     \/ /\ job[r] \notin Restarting
        /\ geo' \in GeoRecovered(geo)
        /\ Goto(r, "doneTmp")
  /\ UNCHANGED <<procVars, sessVars, job, left, snap, treeVars, geoBoot, log, lock, tmp>>

\* npm install and npm run build
Build(r) ==
  /\ up
  /\ pc[r] = "build"
  /\ built' = job[r]
  /\ Goto(r, "doneTmp")
  /\ UNCHANGED <<procVars, sessVars, job, left, snap, live, current, applied, mishap, geoVars, log, lock, tmp>>

\* Mutant: a step after the build throws as well.
CommitThrowsLate(r) ==
  /\ up
  /\ pc[r] \in {"stop", "backup", "copy", "build", "doneTmp"}
  /\ built' \in IF pc[r] = "build" THEN {built, Broken} ELSE {built}
  /\ Goto(r, "fail")
  /\ UNCHANGED <<procVars, sessVars, job, left, snap, live, current, applied, mishap, geoVars, log, lock, tmp>>

\* A step of the try block throws: GeoServer will not stop, the package
\* cannot be read, a file is locked, the build fails (and may leave .next
\* half written), or the client has closed the progress stream.
CommitThrows(r) ==
  /\ up
  /\ pc[r] \in {"stop", "backup", "copy", "build"}
  /\ built' \in IF pc[r] = "build" THEN {built, Broken} ELSE {built}
  /\ Goto(r, "fail")
  /\ UNCHANGED <<procVars, sessVars, job, left, snap, live, current, applied, mishap, geoVars, log, lock, tmp>>

\* The catch block: restore the snapshot if there is one, drop it, bring
\* GeoServer back.  .next is in no snapshot of a commit that builds.
RollBack(r) ==
  /\ up
  /\ pc[r] = "fail"
  /\ \/ /\ snap[r] = NoOne
        /\ UNCHANGED <<live, mishap>>
     \/ /\ snap[r] # NoOne
        /\ \E failed \in SkippedOf("restore", snap[r].backedUp \cup snap[r].created) :
             /\ live' = Restore(live, snap[r], failed)
             /\ mishap' = IF failed = {} THEN mishap ELSE mishap \cup {"restore"}
  /\ snap' = [snap EXCEPT ![r] = NoOne]
  /\ left' = [left EXCEPT ![r] = {}]
  /\ geo' \in GeoRecovered(geo)
  /\ Goto(r, "failTmp")
  /\ UNCHANGED <<procVars, sessVars, job, built, current, applied, geoBoot, log, lock, tmp>>

\* Its last steps: delete the package, release the lock, throw on.
CommitFailed(r) ==
  /\ up
  /\ pc[r] = "failTmp"
  /\ tmp' \in Removed(tmp, job[r])
  /\ lock' = Released(job[r])
  /\ job' = [job EXCEPT ![r] = NoOne]
  /\ Goto(r, "idle")
  /\ UNCHANGED <<procVars, sessVars, left, snap, treeVars, geoVars, log>>

\* The last steps of the try block: delete the package, release the lock.
CommitDone(r) ==
  /\ up
  /\ pc[r] = "doneTmp"
  /\ tmp' \in Removed(tmp, job[r])
  /\ lock' = Released(job[r])
  /\ current' = job[r] /\ applied' = applied \cup {job[r]}
  /\ left' = [left EXCEPT ![r] = Orphans(Pkg[job[r]])]
  /\ Goto(r, "orphans")
  /\ UNCHANGED <<procVars, sessVars, job, snap, live, built, mishap, geoVars, log>>

-----------------------------------------------------------------------------
(* The tail of confirmPendingSchemaApply, after the lock is released *)

\* cleanupOrphanManagedFiles, one file at a time; an error only skips the file.
CleanOrphan(r) ==
  /\ up
  /\ pc[r] = "orphans"
  /\ \E f \in left[r] :
       /\ left' = [left EXCEPT ![r] = @ \ {f}]
       /\ \/ /\ live' = [live EXCEPT ![f] = Absent]
             /\ mishap' = IF /\ live[f] # Absent
                             /\ \/ current # job[r]
                                \/ \E t \in Task \ {r} : pc[t] \in Committing
                          THEN mishap \cup {"orphans"} ELSE mishap
          \/ "orphans" \in Swallowed /\ UNCHANGED <<live, mishap>>
  /\ UNCHANGED <<procVars, sessVars, pc, job, snap, built, current, applied, geoVars, log, lock, tmp>>

OrphansDone(r) ==
  /\ up
  /\ pc[r] = "orphans"
  /\ left[r] = {}
  /\ Goto(r, "finish")
  /\ UNCHANGED <<procVars, sessVars, job, left, snap, treeVars, geoVars, log, lock, tmp>>

\* writeRestartSignal (the file itself is RestartHandoff's), the success row
\* when no restart follows, removal of the snapshot, scheduleRestart.
Finish(r) ==
  /\ up
  /\ pc[r] = "finish"
  /\ IF job[r] \in Restarting
     THEN due' = TRUE /\ UNCHANGED log
     ELSE log' \in Logged(job[r], "success") /\ UNCHANGED due
  /\ snap' = [snap EXCEPT ![r] = NoOne]
  /\ job' = [job EXCEPT ![r] = NoOne]
  /\ Goto(r, "idle")
  /\ UNCHANGED <<up, stops, sessVars, left, treeVars, geoVars, lock, tmp>>

\* Writing the signal throws: the client is told the confirm failed, and
\* nothing is undone.
FinishFails(r) ==
  /\ up
  /\ pc[r] = "finish"
  /\ snap' = [snap EXCEPT ![r] = NoOne]
  /\ job' = [job EXCEPT ![r] = NoOne]
  /\ Goto(r, "idle")
  /\ UNCHANGED <<procVars, sessVars, left, treeVars, geoVars, log, lock, tmp>>

-----------------------------------------------------------------------------
(* The server process *)

\* The process ends, by itself or because an apply scheduled it: memory is
\* gone, the disk stays as it is.
Stop ==
  /\ up
  /\ due \/ stops < MaxStops
  /\ up' = FALSE
  /\ due' = FALSE
  /\ stops' = IF due THEN stops ELSE stops + 1
  /\ lock' = NoOne
  /\ mem' = {}
  /\ pc' = [t \in Task |->
              IF t \notin Session THEN "idle"
              ELSE IF pc[t] = "new" THEN "new"
              ELSE IF Registered(t) THEN "idle" ELSE "lost"]
  /\ job' = [t \in Task |-> NoOne]
  /\ left' = [t \in Task |-> {}]
  /\ snap' = [t \in Task |-> NoOne]
  /\ mishap' = IF \E t \in Task : pc[t] \in {"copy", "build", "fail", "doneTmp"}
               THEN mishap \cup {"stop"} ELSE mishap
  /\ UNCHANGED <<file, expired, revived, tmp, live, built, current, applied, geoVars, log>>

\* run.ts (or nssm) starts it again; GeoServer follows in the background.
Boot ==
  /\ ~up
  /\ up' = TRUE
  /\ geoBoot' = TRUE
  /\ UNCHANGED <<stops, due, sessVars, taskVars, treeVars, geo, log, lock, tmp>>

GeoServerAtBoot ==
  /\ geoBoot
  /\ geoBoot' = FALSE
  /\ geo' \in GeoRecovered(geo)
  /\ mishap' = IF \E t \in Task : pc[t] \in {"backup", "copy"}
               THEN mishap \cup {"boot"} ELSE mishap
  /\ UNCHANGED <<procVars, sessVars, taskVars, live, built, current, applied, log, lock, tmp>>

-----------------------------------------------------------------------------
Prepare(s) ==
  \/ Acquire(s) \/ EnterPrepare(s) \/ FailBeforeTry(s)
  \/ WritePending(s) \/ RegisterPending(s) \/ FailPrepare(s)

Answer(r, s) == AnswerFromMap(r, s) \/ AnswerFromFile(r, s)

Continue(t) == DeletePendingFile(t) \/ Discard(t)

Commit(r) ==
  \/ StopGeoServer(r) \/ BackUp(r) \/ CopyFile(r) \/ CopyDone(r) \/ Build(r)
  \/ CommitThrows(r) \/ RollBack(r) \/ CommitFailed(r) \/ CommitDone(r)

Tail(r) == CleanOrphan(r) \/ OrphansDone(r) \/ Finish(r) \/ FinishFails(r)

Next ==
  \/ \E s \in Session : Prepare(s) \/ Expire(s) \/ Timeout(s)
  \/ \E r \in Request, s \in Session : Answer(r, s)
  \/ \E t \in Task : Continue(t)
  \/ \E r \in Request : Revive(r) \/ Commit(r) \/ Tail(r)
  \/ Stop \/ Boot \/ GeoServerAtBoot

Spec == Init /\ [][Next]_vars

(***************************************************************************)
(* Fairness.  Every await of a prepare, a timer callback or a request      *)
(* settles, so a task that has begun goes on; the clock advances and a due *)
(* timer fires.  Nothing obliges a user to answer, a server to stop, or a  *)
(* stopped one to have been started again.                                 *)
(***************************************************************************)
Steps(t) ==
  \/ Continue(t)
  \/ t \in Session /\ (EnterPrepare(t) \/ FailBeforeTry(t) \/ WritePending(t)
                        \/ RegisterPending(t) \/ FailPrepare(t))
  \/ t \in Request /\ (Revive(t) \/ Commit(t) \/ Tail(t))

Fairness ==
  /\ \A t \in Task : WF_vars(Steps(t))
  /\ \A s \in Session : WF_vars(Expire(s)) /\ WF_vars(Timeout(s))

FairSpec == Spec /\ Fairness

-----------------------------------------------------------------------------
(* Properties *)

\* A commit of a session that never had to be read back from its file runs
\* under the apply lock from beginning to end: nobody else's failure,
\* discard or release takes the lock away from it.
CommitUnderLock ==
  \A t \in Task :
    pc[t] \in Committing /\ job[t] \notin revived => lock = job[t]

\* Two commits overlap only if one of them is of a revived session: what the
\* in-memory lock and Map do guarantee, whatever requests, timers, failures
\* and restarts come in between.
CommitsExclude ==
  \A t, u \in Task :
    t # u /\ pc[t] \in Committing /\ pc[u] \in Committing
      => {job[t], job[u]} \cap revived # {}

\* The apply lock is never left behind: who holds it is preparing, waits in
\* the Map for an answer or is being answered.  The exception is a prepare
\* that failed between taking the lock and entering the try block.
LockAccounted ==
  \A s \in Session :
    lock = s => \/ pc[s] \in Preparing \cup {"leaked"}
                \/ s \in mem
                \/ \E t \in Task : pc[t] \in Working /\ job[t] = s

\* The unpacked package is there for as long as a commit reads it: no timer,
\* abort or other apply deletes the directory under a running merge.
PackageKept ==
  \A t \in Task :
    pc[t] \in {"confirmRm", "stop", "backup", "copy"} /\ job[t] \notin revived
      => job[t] \in tmp

\* A session recorded as cancelled left nothing in the live workspace, as the
\* abort reports to the user ("prepare cancelled, live unchanged").
CancelLeavesNoTrace ==
  \A s \in Session \ revived :
    <<s, "cancel">> \in log => \A f \in File : live[f] # s

\* Live files are saved and overwritten only while GeoServer, which locks
\* them, is down.  The exceptions are revived sessions and the background
\* start of GeoServer after a boot.
GeoStoppedWhileMerging ==
  \A t \in Task :
    /\ pc[t] \in {"backup", "copy"}
    /\ revived = {}
    /\ "boot" \notin mishap
    => ~geo

PackageOf(v) == IF v = Base THEN File ELSE Pkg[v]

\* A commit is all or nothing: when none is changing files, every file of the
\* package applied last has that package's content, and no other file comes
\* from a package that was not applied, however many later commits have
\* failed half way.  The exceptions are named by mishap: the server stopped
\* inside a commit, a file could not be restored, or the orphan clean-up of
\* one apply ran into the next.
PackageWhole ==
  /\ revived = {}
  /\ mishap \subseteq {"boot"}
  /\ \A t \in Task : pc[t] \notin {"copy", "build", "fail", "doneTmp"}
  => \A f \in File \ Protected :
       IF f \in PackageOf(current) THEN live[f] = current
       ELSE live[f] \in applied \cup {Absent}

\* When the package applied last was applied with a restart, the .next that
\* the restart will run was built from it: a later apply that is rolled back,
\* which no snapshot of .next helps, never leaves its own build under the
\* restored source.  The exception is a build that itself has failed half way
\* and left nothing whole.
BuildMatches ==
  /\ revived = {}
  /\ mishap \subseteq {"boot"}
  /\ current \in Restarting
  /\ \A t \in Task : pc[t] \notin Committing
  => built \in {current, Broken}

(***************************************************************************)
(* The abstract view of an apply.  While a commit is merging, the          *)
(* workspace counts as what putting its snapshot back would give: the      *)
(* package is installed at the moment the commit is complete, when nothing *)
(* will put the snapshot back any more.                                    *)
(***************************************************************************)
Merging(t) ==
  pc[t] \in {"copy", "build", "fail", "doneTmp"} /\ snap[t] # NoOne

Settled ==
  IF \E t \in Task : Merging(t)
  THEN Restore(live, snap[CHOOSE t \in Task : Merging(t)], {})
  ELSE live

Undisturbed == revived = {} /\ mishap \subseteq {"boot"}

Update == INSTANCE AtomicUpdate WITH
  File      <- File \ Protected,
  Managed   <- Managed \ Protected,
  Pkg       <- [s \in Session |-> Pkg[s] \ Protected],
  tree      <- [f \in File \ Protected |-> Settled[f]],
  installed <- current,
  accepted  <- applied,
  cancelled <- {s \in Session : <<s, "cancel">> \in log},
  holder    <- lock,
  sound     <- Undisturbed

\* Until something the code does not undo has happened, the pipeline as a
\* whole (lock, Map, pending file, timers, copying, rollback, clean-up) does
\* no more than install packages, one at a time and each in a single step,
\* or leave every file alone.
AppliesAtomically == Update!Spec

\* Whoever takes the apply lock gives it back, whether the user confirms,
\* aborts or walks away: the timer ends what nobody answers.
LockReleased ==
  \A s \in Session : lock = s ~> (lock # s \/ pc[s] = "leaked")
=============================================================================

----------------------- MODULE RoadVideoTrackProofs -----------------------
(***************************************************************************)
(* What RoadVideoTrack guarantees for every number of videos, users, file  *)
(* versions, requests and faults: its types, that no written request is    *)
(* forgotten, that a result which claims to be of the present file is, and  *)
(* that who was told "queued" gets a result of the file he saw.            *)
(***************************************************************************)
EXTENDS RoadVideoTrack, TLAPS

(***************************************************************************)
(* The inductive strengthening of ResultIsOfFile: versions on disk and in  *)
(* the rows are ones that were made, so an upload makes a new one; a file  *)
(* which is still the one the worker has noted is the one the analyser has *)
(* read; and the row says "failed" before its anchors are deleted.         *)
(***************************************************************************)
VersionsMade == \A v \in Video : file[v] <= newest /\ ver[v] <= newest

StatMade ==
  pc \in {"start", "run", "saveDone", "saveFailed"} => stat \in 1..newest

ReadAsNoted == pc = "saveDone" /\ file[cur] = stat => read = stat

FailedFirst == pc = "wipe" => status[cur] # "done"

Matching ==
  VersionsMade /\ StatMade /\ ReadAsNoted /\ FailedFirst /\ ResultIsOfFile

(***************************************************************************)
(* The inductive strengthening of QueuedIsAnalysed: what a user saw and    *)
(* what was promised is no newer than the file, unless there is none; a    *)
(* listed row and the one in analysis keep their request until they are    *)
(* saved; and all who may still write a request for the video in analysis  *)
(* saw no more than the worker has noted.                                  *)
(***************************************************************************)
SeenMade ==
  /\ \A r \in Opener :
       /\ saw[r] <= newest
       /\ opc[r] # "idle" /\ file[wants[r]] # 0 => saw[r] <= file[wants[r]]
  /\ \A v \in Video : promised[v] <= newest /\ (file[v] # 0 => promised[v] <= file[v])

ListedAsked ==
  /\ pc \in {"scan", "missing"} => \A v \in Video : listed[v] # 0 => asked[v] # 0
  /\ pc = "missing" => asked[cur] # 0

Analysing == pc \in {"start", "run", "saveDone", "saveFailed"}

NotedAll ==
  Analysing =>
    /\ asked[cur] # 0
    /\ promised[cur] <= stat
    /\ \A r \in Opener : opc[r] = "upsert" /\ wants[r] = cur => saw[r] <= stat

Wiped == pc = "wipe" /\ asked[cur] = 0 => promised[cur] <= ver[cur]

AtRest == pc \in {"idle", "find", "scan"} => cur = NoVideo

Promising ==
  SeenMade /\ ListedAsked /\ NotedAll /\ Wiped /\ AtRest /\ QueuedIsAnalysed

USE DEF diskVars, rowVars, openVars, workVars, histVars

-----------------------------------------------------------------------------
(* Types *)

LEMMA InitType == Init => TypeOK
<1> SUFFICES ASSUME Init PROVE TypeOK
  OBVIOUS
<1>1. 1 \in 1..MaxVersion /\ 0 \in 0..MaxVersion /\ 0 \in 0..MaxFaults
  BY RoadVideoAssumption
<1>2. /\ asked \in [Video -> Nat] /\ listed \in [Video -> Nat] /\ unmet \in [Video -> Nat]
      /\ ver \in [Video -> 0..MaxVersion] /\ anchors \in [Video -> 0..MaxVersion]
      /\ promised \in [Video -> 0..MaxVersion] /\ saw \in [Opener -> 0..MaxVersion]
  BY <1>1 DEF Init
<1>3. file \in [Video -> 0..MaxVersion]
  BY RoadVideoAssumption DEF Init
<1> QED
  BY <1>1, <1>2, <1>3 DEF Init, TypeOK, WorkerStep

\* What changes on disk keeps the types.
LEMMA DiskType == ASSUME TypeOK, NEW v \in Video, Disk(v) PROVE TypeOK'
<1>1. CASE Upload(v)
  <2>1. newest + 1 \in 1..MaxVersion /\ newest + 1 \in 0..MaxVersion
    BY <1>1, RoadVideoAssumption DEF TypeOK, Upload
  <2> QED
    BY <1>1, <2>1 DEF TypeOK, Upload, WorkerStep
<1>2. CASE Settle(v)
  BY <1>2 DEF TypeOK, Settle, WorkerStep
<1>3. CASE RemoveFile(v)
  <2>1. newest + 1 \in 1..MaxVersion /\ 0 \in 0..MaxVersion
    BY <1>3, RoadVideoAssumption DEF TypeOK, RemoveFile
  <2> QED
    BY <1>3, <2>1 DEF TypeOK, RemoveFile, WorkerStep
<1> QED
  BY <1>1, <1>2, <1>3 DEF Disk

\* So do the requests of users.
LEMMA OpeningType == ASSUME TypeOK, NEW r \in Opener, Opening(r) PROVE TypeOK'
<1>1. ASSUME NEW v \in Video, Open(r, v) PROVE TypeOK'
  BY <1>1 DEF TypeOK, Open, WorkerStep
<1>2. CASE AlreadyQueued(r)
  <2>1. wants[r] \in Video /\ saw[r] \in 0..MaxVersion /\ 0 \in 0..MaxVersion
    BY <1>2, RoadVideoAssumption DEF TypeOK, AlreadyQueued
  <2> QED
    BY <1>2, <2>1 DEF TypeOK, AlreadyQueued, Leave, WorkerStep
<1>3. CASE UpToDate(r)
  <2>1. 0 \in 0..MaxVersion
    BY RoadVideoAssumption
  <2> QED
    BY <1>3, <2>1 DEF TypeOK, UpToDate, Leave, WorkerStep
<1>4. CASE NeedsRequest(r)
  BY <1>4 DEF TypeOK, NeedsRequest, WorkerStep
<1>5. CASE WriteRequest(r)
  <2>1. wants[r] \in Video /\ saw[r] \in 0..MaxVersion /\ 0 \in 0..MaxVersion
    BY <1>5, RoadVideoAssumption DEF TypeOK, WriteRequest
  <2>2. clock' \in Nat /\ asked' \in [Video -> Nat] /\ unmet' \in [Video -> Nat]
    BY <1>5 DEF TypeOK, WriteRequest
  <2>3. status' \in [Video -> {"none", "queued", "done", "failed"}]
    BY <1>5, <2>1 DEF TypeOK, WriteRequest
  <2>4. promised' \in [Video -> 0..MaxVersion]
    BY <1>5, <2>1 DEF TypeOK, WriteRequest
  <2> QED
    BY <1>5, <2>1, <2>2, <2>3, <2>4 DEF TypeOK, WriteRequest, Leave, WorkerStep
<1> QED
  BY <1>1, <1>2, <1>3, <1>4, <1>5 DEF Opening

\* So does the worker.
LEMMA WorkingType == ASSUME TypeOK, Working PROVE TypeOK'
<1> USE DEF WorkerDone, WorkerStep
<1>0. 0 \in 0..MaxVersion
  BY RoadVideoAssumption
<1>1. CASE ListRequests
  BY <1>1 DEF TypeOK, ListRequests
<1>2. CASE RunEnds
  BY <1>2, <1>0 DEF TypeOK, RunEnds
<1>3. CASE MarkMissing
  BY <1>3, <1>0 DEF TypeOK, MarkMissing
<1>4. CASE StartAnalysis
  BY <1>4 DEF TypeOK, StartAnalysis
<1>5. CASE Analyze
  BY <1>5 DEF TypeOK, Analyze
<1>6. CASE SaveDone
  BY <1>6, <1>0 DEF TypeOK, SaveDone, Saved, AskedAfter
<1>7. CASE SaveFailed
  BY <1>7 DEF TypeOK, SaveFailed, Saved, AskedAfter
<1>8. CASE DeleteAnchors
  BY <1>8, <1>0 DEF TypeOK, DeleteAnchors
<1>9. ASSUME NEW v \in Video, SkipUnsettled(v) PROVE TypeOK'
  BY <1>9 DEF TypeOK, SkipUnsettled
<1>10. ASSUME NEW v \in Video, Pick(v) PROVE TypeOK'
  BY <1>10 DEF TypeOK, Pick
<1>11. ASSUME NEW v \in Video, FileGone(v) PROVE TypeOK'
  BY <1>11 DEF TypeOK, FileGone
<1> QED
  BY <1>1, <1>2, <1>3, <1>4, <1>5, <1>6, <1>7, <1>8, <1>9, <1>10, <1>11 DEF Working

LEMMA NextType == TypeOK /\ [Next]_vars => TypeOK'
<1> SUFFICES ASSUME TypeOK, [Next]_vars PROVE TypeOK'
  OBVIOUS
<1>0. 0 \in 0..MaxVersion
  BY RoadVideoAssumption
<1>1. ASSUME NEW v \in Video, Disk(v) PROVE TypeOK'
  BY <1>1, DiskType
<1>2. ASSUME NEW r \in Opener, Opening(r) PROVE TypeOK'
  BY <1>2, OpeningType
<1>3. CASE Tick
  BY <1>3, <1>0 DEF TypeOK, Tick, WorkerDone, WorkerStep
<1>4. CASE Working
  BY <1>4, WorkingType
<1>5. CASE AnalyzerUnavailable
  BY <1>5, <1>0 DEF TypeOK, AnalyzerUnavailable, WorkerDone, WorkerStep
<1>6. CASE RunFails
  <2>1. faults' \in 0..MaxFaults
    BY <1>6, RoadVideoAssumption DEF TypeOK, RunFails
  <2> QED
    BY <1>6, <1>0, <2>1 DEF TypeOK, RunFails, WorkerDone, WorkerStep
<1>7. CASE Restart
  <2>1. faults' \in 0..MaxFaults
    BY <1>7, RoadVideoAssumption DEF TypeOK, Restart
  <2> QED
    BY <1>7, <1>0, <2>1 DEF TypeOK, Restart, WorkerDone, WorkerStep
<1>8. CASE UNCHANGED vars
  BY <1>8 DEF TypeOK, WorkerStep, vars
<1> QED
  BY <1>1, <1>2, <1>3, <1>4, <1>5, <1>6, <1>7, <1>8 DEF Next

\* Every variable has its type in every state.
THEOREM TypeCorrect == Spec => []TypeOK
<1> QED
  BY InitType, NextType, PTL DEF Spec

-----------------------------------------------------------------------------
(* Requests *)

LEMMA NextRequest == TypeOK /\ RequestKept /\ [Next]_vars => RequestKept'
<1> SUFFICES ASSUME TypeOK, RequestKept, [Next]_vars PROVE RequestKept'
  OBVIOUS
<1> USE DEF RequestKept
<1>1. CASE UNCHANGED <<asked, unmet>>
  BY <1>1
<1>2. ASSUME NEW r \in Opener, WriteRequest(r) PROVE RequestKept'
  BY <1>2 DEF TypeOK, WriteRequest
<1>3. CASE MarkMissing
  BY <1>3 DEF TypeOK, MarkMissing
<1>4. ASSUME NEW result \in {"done", "failed"}, Saved(result) PROVE RequestKept'
  BY <1>4 DEF TypeOK, Saved, AskedAfter
<1>5. CASE SaveDone
  BY <1>5, <1>4 DEF SaveDone
<1>6. CASE SaveFailed
  BY <1>6, <1>4 DEF SaveFailed
<1>7. ASSUME NEW v \in Video, Disk(v) PROVE UNCHANGED <<asked, unmet>>
  BY <1>7 DEF Disk, Upload, Settle, RemoveFile
<1>8. ASSUME NEW r \in Opener, Opening(r), ~WriteRequest(r)
      PROVE UNCHANGED <<asked, unmet>>
  BY <1>8 DEF Opening, Open, AlreadyQueued, UpToDate, NeedsRequest
<1>9. ASSUME Working, ~MarkMissing, ~SaveDone, ~SaveFailed
      PROVE UNCHANGED <<asked, unmet>>
  BY <1>9 DEF Working, ListRequests, RunEnds, StartAnalysis, Analyze,
    DeleteAnchors, SkipUnsettled, Pick, FileGone
<1>10. CASE Tick \/ AnalyzerUnavailable \/ RunFails \/ Restart \/ UNCHANGED vars
  BY <1>10, <1>1 DEF Tick, AnalyzerUnavailable, RunFails, Restart, vars
<1> QED
  BY <1>1, <1>2, <1>3, <1>5, <1>6, <1>7, <1>8, <1>9, <1>10 DEF Next

\* A written request stays in its row until an analysis begun after it, or
\* the absence of the file, has answered it.
THEOREM RequestIsKept == Spec => []RequestKept
<1>1. Init => RequestKept
  BY DEF Init, RequestKept
<1> QED
  BY <1>1, NextRequest, TypeCorrect, PTL DEF Spec

-----------------------------------------------------------------------------
(* Results *)

LEMMA InitMatching == Init => Matching
BY DEF Init, Matching, VersionsMade, StatMade, ReadAsNoted, FailedFirst,
  ResultIsOfFile

\* A change on disk gives the file a version nobody has noted.
LEMMA DiskMatching ==
  ASSUME TypeOK, Matching, NEW v \in Video, Disk(v) PROVE Matching'
<1> USE DEF TypeOK, Matching, VersionsMade, StatMade, ReadAsNoted, FailedFirst,
      ResultIsOfFile, WorkerStep
<1>1. CASE Upload(v)
  BY <1>1 DEF Upload
<1>2. CASE Settle(v)
  BY <1>2 DEF Settle
<1>3. CASE RemoveFile(v)
  BY <1>3 DEF RemoveFile
<1> QED
  BY <1>1, <1>2, <1>3 DEF Disk

\* Users only ever mark a row as queued.
LEMMA OpeningMatching ==
  ASSUME TypeOK, Matching, NEW r \in Opener, Opening(r) PROVE Matching'
<1> USE DEF TypeOK, Matching, VersionsMade, StatMade, ReadAsNoted, FailedFirst,
      ResultIsOfFile
<1>1. UNCHANGED <<file, newest, ver, anchors, pc, cur, stat, read>>
  BY DEF Opening, Open, AlreadyQueued, UpToDate, NeedsRequest, WriteRequest
<1>2. \A v \in Video : status'[v] = "done" => status[v] = "done"
  BY DEF Opening, Open, AlreadyQueued, UpToDate, NeedsRequest, WriteRequest
<1> QED
  BY <1>1, <1>2 DEF WorkerStep

\* The worker saves the version it has noted with what it has read.
LEMMA WorkingMatching == ASSUME TypeOK, Matching, Working PROVE Matching'
<1> USE DEF TypeOK, Matching, VersionsMade, StatMade, ReadAsNoted, FailedFirst,
      ResultIsOfFile, WorkerStep
<1>1. CASE ListRequests
  BY <1>1 DEF ListRequests
<1>2. CASE RunEnds
  BY <1>2 DEF RunEnds, WorkerDone
<1>3. CASE MarkMissing
  BY <1>3 DEF MarkMissing, WorkerDone
<1>4. CASE StartAnalysis
  BY <1>4 DEF StartAnalysis
<1>5. CASE Analyze
  BY <1>5 DEF Analyze
<1>6. CASE SaveDone
  BY <1>6 DEF SaveDone, Saved, WorkerDone
<1>7. CASE SaveFailed
  BY <1>7 DEF SaveFailed, Saved
<1>8. CASE DeleteAnchors
  BY <1>8 DEF DeleteAnchors, WorkerDone
<1>9. ASSUME NEW v \in Video, SkipUnsettled(v) PROVE Matching'
  BY <1>9 DEF SkipUnsettled
<1>10. ASSUME NEW v \in Video, Pick(v) PROVE Matching'
  BY <1>10 DEF Pick
<1>11. ASSUME NEW v \in Video, FileGone(v) PROVE Matching'
  BY <1>11 DEF FileGone
<1> QED
  BY <1>1, <1>2, <1>3, <1>4, <1>5, <1>6, <1>7, <1>8, <1>9, <1>10, <1>11 DEF Working

LEMMA NextMatching == TypeOK /\ Matching /\ [Next]_vars => Matching'
<1> SUFFICES ASSUME TypeOK, Matching, [Next]_vars PROVE Matching'
  OBVIOUS
<1>1. ASSUME NEW v \in Video, Disk(v) PROVE Matching'
  BY <1>1, DiskMatching
<1>2. ASSUME NEW r \in Opener, Opening(r) PROVE Matching'
  BY <1>2, OpeningMatching
<1>3. CASE Working
  BY <1>3, WorkingMatching
<1>4. CASE Tick \/ AnalyzerUnavailable \/ RunFails \/ Restart
  <2>1. UNCHANGED <<file, newest, status, ver, anchors>> /\ pc' \in {"idle", "find"}
    BY <1>4 DEF Tick, AnalyzerUnavailable, RunFails, Restart, WorkerDone
  <2> QED
    BY <2>1 DEF Matching, VersionsMade, StatMade, ReadAsNoted, FailedFirst,
      ResultIsOfFile
<1>5. CASE UNCHANGED vars
  BY <1>5 DEF Matching, VersionsMade, StatMade, ReadAsNoted, FailedFirst,
    ResultIsOfFile, vars
<1> QED
  BY <1>1, <1>2, <1>3, <1>4, <1>5 DEF Next

\* A row that names the present version of its file holds anchors computed
\* from that version.
THEOREM ResultMatchesFile == Spec => []ResultIsOfFile
<1>1. Matching => ResultIsOfFile
  BY DEF Matching
<1> QED
  BY <1>1, InitMatching, NextMatching, TypeCorrect, PTL DEF Spec

-----------------------------------------------------------------------------
(* Promises *)

LEMMA DiskPromising ==
  ASSUME TypeOK, Matching, Promising, NEW v \in Video, Disk(v) PROVE Promising'
<1> USE DEF TypeOK, Promising, Analysing, WorkerStep
<1>1. UNCHANGED <<rowVars, openVars, workVars, promised>>
  BY DEF Disk, Upload, Settle, RemoveFile
<1>2. SeenMade'
  BY <1>1 DEF SeenMade, Matching, VersionsMade, Disk, Upload, Settle, RemoveFile
<1>3. (ListedAsked /\ NotedAll /\ Wiped /\ AtRest /\ QueuedIsAnalysed)'
  BY <1>1 DEF ListedAsked, NotedAll, Wiped, AtRest, QueuedIsAnalysed
<1> QED
  BY <1>2, <1>3

\* A user who may write a request found the row without one, so the video is
\* not in analysis; and who is told "queued" while it is, was promised nothing.
LEMMA OpeningPromising ==
  ASSUME TypeOK, Matching, Promising, NEW r \in Opener, Opening(r) PROVE Promising'
<1> USE DEF TypeOK, Promising, Analysing, WorkerStep
<1>0. UNCHANGED <<diskVars, ver, workVars>>
  BY DEF Opening, Open, AlreadyQueued, UpToDate, NeedsRequest, WriteRequest
<1>1. ASSUME NEW v \in Video, Open(r, v) PROVE Promising'
  <2>1. SeenMade'
    BY <1>1, <1>0 DEF SeenMade, Matching, VersionsMade, Open
  <2>2. (ListedAsked /\ NotedAll /\ Wiped /\ AtRest /\ QueuedIsAnalysed)'
    BY <1>1, <1>0 DEF ListedAsked, NotedAll, Wiped, AtRest, QueuedIsAnalysed, Open
  <2> QED
    BY <2>1, <2>2
<1>2. CASE AlreadyQueued(r)
  <2>1. /\ asked' = asked /\ asked[wants[r]] # 0 /\ wants[r] \in Video
        /\ promised' = IF cur = wants[r] THEN promised ELSE [promised EXCEPT ![wants[r]] = saw[r]]
    BY <1>2 DEF AlreadyQueued
  <2>2. SeenMade'
    BY <1>2, <1>0, <2>1 DEF SeenMade, AlreadyQueued, Leave
  <2>3. promised'[cur] = promised[cur]
    BY <2>1
  <2>4. \A v \in Video : asked[v] = 0 => promised'[v] = promised[v]
    BY <2>1
  <2>5. \A q \in Opener : opc'[q] = "upsert" => opc[q] = "upsert" /\ wants'[q] = wants[q] /\ saw'[q] = saw[q]
    BY <1>2 DEF AlreadyQueued, Leave
  <2>6. (ListedAsked /\ AtRest /\ Wiped /\ QueuedIsAnalysed)'
    BY <1>0, <2>1, <2>3, <2>4 DEF ListedAsked, AtRest, Wiped, QueuedIsAnalysed
  <2>7. NotedAll'
    BY <1>0, <2>1, <2>3, <2>5 DEF NotedAll
  <2> QED
    BY <2>2, <2>6, <2>7
<1>3. CASE UpToDate(r)
  <2>1. UNCHANGED <<asked, promised>>
    BY <1>3 DEF UpToDate
  <2>2. \A q \in Opener : opc'[q] # "idle" => opc'[q] = opc[q] /\ wants'[q] = wants[q] /\ saw'[q] = saw[q]
    BY <1>3 DEF UpToDate, Leave
  <2>3. \A q \in Opener : saw'[q] \in {0, saw[q]}
    BY <1>3 DEF UpToDate, Leave
  <2>4. SeenMade'
    <3>1. newest \in Nat /\ \A q \in Opener : saw[q] \in Nat
      BY RoadVideoAssumption
    <3> QED
      BY <1>0, <2>1, <2>2, <2>3, <3>1 DEF SeenMade
  <2>5. (ListedAsked /\ NotedAll /\ Wiped /\ AtRest /\ QueuedIsAnalysed)'
    BY <1>0, <2>1, <2>2 DEF ListedAsked, NotedAll, Wiped, AtRest, QueuedIsAnalysed
  <2> QED
    BY <2>4, <2>5
<1>4. CASE NeedsRequest(r)
  <2>1. UNCHANGED <<asked, promised, wants, saw>> /\ asked[wants[r]] = 0 /\ wants[r] \in Video
    BY <1>4 DEF NeedsRequest
  <2>2. \A q \in Opener : q # r => opc'[q] = opc[q]
    BY <1>4 DEF NeedsRequest
  <2>3. opc[r] = "select"
    BY <1>4 DEF NeedsRequest
  <2>4. SeenMade'
    BY <1>0, <2>1, <2>2, <2>3 DEF SeenMade
  <2>5. (ListedAsked /\ Wiped /\ AtRest /\ QueuedIsAnalysed)'
    BY <1>0, <2>1 DEF ListedAsked, Wiped, AtRest, QueuedIsAnalysed
  <2>6. NotedAll'
    BY <1>0, <2>1, <2>2 DEF NotedAll
  <2> QED
    BY <2>4, <2>5, <2>6
<1>5. CASE WriteRequest(r)
  <2>1. /\ wants[r] \in Video /\ opc[r] = "upsert"
        /\ asked' = [asked EXCEPT ![wants[r]] = clock + 1]
        /\ promised' = [promised EXCEPT ![wants[r]] = saw[r]]
    BY <1>5 DEF WriteRequest
  <2>2. \A q \in Opener : opc'[q] # "idle" => opc'[q] = opc[q] /\ wants'[q] = wants[q] /\ saw'[q] = saw[q]
    BY <1>5 DEF WriteRequest, Leave
  <2>3. \A q \in Opener : saw'[q] \in {0, saw[q]}
    BY <1>5 DEF WriteRequest, Leave
  <2>4. /\ asked'[wants[r]] # 0 /\ \A v \in Video : asked[v] # 0 => asked'[v] # 0
        /\ \A v \in Video : v # wants[r] => asked'[v] = asked[v] /\ promised'[v] = promised[v]
        /\ promised'[wants[r]] = saw[r]
    BY <2>1
  <2>5. SeenMade'
    <3>1. newest \in Nat /\ \A q \in Opener : saw[q] \in Nat
      BY RoadVideoAssumption
    <3>2. \A q \in Opener : saw'[q] <= newest
      BY <2>3, <3>1 DEF SeenMade
    <3>3. \A q \in Opener : opc'[q] # "idle" /\ file[wants'[q]] # 0 => saw'[q] <= file[wants'[q]]
      BY <2>2 DEF SeenMade
    <3>4. \A v \in Video : promised'[v] <= newest /\ (file[v] # 0 => promised'[v] <= file[v])
      BY <2>1, <2>4 DEF SeenMade
    <3> QED
      BY <1>0, <3>2, <3>3, <3>4 DEF SeenMade
  <2>6. (ListedAsked /\ Wiped /\ AtRest /\ QueuedIsAnalysed)'
    BY <1>0, <2>4 DEF ListedAsked, Wiped, AtRest, QueuedIsAnalysed
  <2>7. NotedAll'
    BY <1>0, <2>1, <2>2, <2>4 DEF NotedAll
  <2> QED
    BY <2>5, <2>6, <2>7
<1> QED
  BY <1>1, <1>2, <1>3, <1>4, <1>5 DEF Opening

\* The run is cut short: no request is lost, whatever was in analysis.
LEMMA StopPromising ==
  ASSUME TypeOK, Promising, UNCHANGED <<diskVars, rowVars, promised>>,
         pc' \in {"idle", "find"}, cur' = NoVideo,
         \A r \in Opener : \/ opc'[r] = "idle" /\ saw'[r] = 0
                           \/ UNCHANGED <<opc[r], wants[r], saw[r]>>
  PROVE  Promising'
<1> USE DEF TypeOK, Promising, Analysing, WorkerStep
<1>1. SeenMade'
  BY DEF SeenMade
<1>2. \A v \in Video : asked[v] = 0 => promised[v] <= ver[v]
  <2>1. ASSUME NEW v \in Video, asked[v] = 0, v = cur PROVE promised[v] <= ver[v]
    <3>1. pc \notin {"idle", "find", "scan"}
      BY <2>1, RoadVideoAssumption DEF AtRest
    <3>2. pc = "wipe"
      BY <2>1, <3>1 DEF NotedAll, ListedAsked
    <3> QED
      BY <2>1, <3>2 DEF Wiped
  <2>2. ASSUME NEW v \in Video, asked[v] = 0, v # cur PROVE promised[v] <= ver[v]
    BY <2>2 DEF QueuedIsAnalysed
  <2> QED
    BY <2>1, <2>2
<1>3. (ListedAsked /\ NotedAll /\ Wiped /\ AtRest /\ QueuedIsAnalysed)'
  BY <1>2 DEF ListedAsked, NotedAll, Wiped, AtRest, QueuedIsAnalysed
<1> QED
  BY <1>1, <1>3

LEMMA WorkingPromising ==
  ASSUME TypeOK, Matching, Promising, Working PROVE Promising'
<1> USE RoadVideoAssumption DEF TypeOK, Promising, Analysing, WorkerStep
<1>0. UNCHANGED <<diskVars, openVars>>
  BY DEF Working, ListRequests, RunEnds, StartAnalysis, Analyze, MarkMissing, SaveDone,
    SaveFailed, Saved, DeleteAnchors, SkipUnsettled, Pick, FileGone
<1>1. CASE ListRequests \/ (\E v \in Video : SkipUnsettled(v)) \/ StartAnalysis \/ Analyze
  <2>1. UNCHANGED <<asked, ver, promised, cur, stat>>
    BY <1>1 DEF ListRequests, SkipUnsettled, StartAnalysis, Analyze
  <2>2. SeenMade'
    BY <1>0, <2>1 DEF SeenMade
  <2>3. ListedAsked'
    BY <1>1, <2>1 DEF ListedAsked, ListRequests, SkipUnsettled, StartAnalysis, Analyze
  <2>4. Analysing' => Analysing
    BY <1>1 DEF ListRequests, SkipUnsettled, StartAnalysis, Analyze
  <2>5. pc' # "wipe" /\ (pc' \in {"idle", "find", "scan"} => pc \in {"idle", "find", "scan"})
    BY <1>1 DEF ListRequests, SkipUnsettled, StartAnalysis, Analyze
  <2>6. (NotedAll /\ Wiped /\ AtRest /\ QueuedIsAnalysed)'
    BY <1>0, <2>1, <2>4, <2>5 DEF NotedAll, Wiped, AtRest, QueuedIsAnalysed
  <2> QED
    BY <2>2, <2>3, <2>6
<1>2. CASE RunEnds
  BY <1>0, <1>2, StopPromising DEF RunEnds, WorkerDone
<1>3. CASE MarkMissing
  <2>1. /\ cur \in Video /\ cur' = NoVideo /\ pc' = "scan" /\ ver' = ver
        /\ asked' = [asked EXCEPT ![cur] = 0] /\ listed' = [listed EXCEPT ![cur] = 0]
        /\ promised' = [promised EXCEPT ![cur] = 0]
    BY <1>3 DEF MarkMissing, WorkerDone
  <2>2. SeenMade'
    BY <1>0, <2>1 DEF SeenMade
  <2>3. (ListedAsked /\ NotedAll /\ Wiped /\ AtRest)'
    BY <1>3, <2>1 DEF ListedAsked, NotedAll, Wiped, AtRest, MarkMissing
  <2>4. QueuedIsAnalysed'
    BY <2>1 DEF QueuedIsAnalysed
  <2> QED
    BY <2>2, <2>3, <2>4
<1>4. ASSUME NEW v \in Video, Pick(v) PROVE Promising'
  <2>1. /\ pc = "scan" /\ pc' = "start" /\ cur' = v /\ stat' = file[v] /\ file[v] # 0
        /\ UNCHANGED <<asked, ver, promised, listed>> /\ listed[v] # 0
    BY <1>4 DEF Pick, IsFirst
  <2>2. (SeenMade /\ ListedAsked /\ Wiped /\ AtRest)'
    BY <1>0, <2>1 DEF SeenMade, ListedAsked, Wiped, AtRest
  <2>3. NotedAll'
    BY <1>0, <2>1 DEF NotedAll, SeenMade, ListedAsked
  <2>4. QueuedIsAnalysed'
    BY <2>1 DEF QueuedIsAnalysed, AtRest
  <2> QED
    BY <2>2, <2>3, <2>4
<1>5. ASSUME NEW v \in Video, FileGone(v) PROVE Promising'
  <2>1. /\ pc = "scan" /\ pc' = "missing" /\ cur' = v
        /\ UNCHANGED <<asked, ver, promised, listed>> /\ listed[v] # 0
    BY <1>5 DEF FileGone, IsFirst
  <2>2. (SeenMade /\ ListedAsked /\ NotedAll /\ Wiped /\ AtRest)'
    BY <1>0, <2>1 DEF SeenMade, ListedAsked, NotedAll, Wiped, AtRest
  <2>3. QueuedIsAnalysed'
    BY <2>1 DEF QueuedIsAnalysed, AtRest
  <2> QED
    BY <2>2, <2>3
<1>6. CASE SaveDone \/ SaveFailed
  <2>1. /\ Analysing /\ cur \in Video
        /\ ver' = [ver EXCEPT ![cur] = stat] /\ promised' = promised
        /\ \A v \in Video : v # cur => asked'[v] = asked[v]
        /\ \/ pc' = "find" /\ cur' = NoVideo
           \/ pc' = "wipe" /\ cur' = cur
    <3>1. Analysing /\ cur \in Video
      BY <1>6 DEF SaveDone, SaveFailed
    <3>2. \E result : Saved(result)
      BY <1>6 DEF SaveDone, SaveFailed
    <3>3. /\ ver' = [ver EXCEPT ![cur] = stat] /\ promised' = promised
          /\ \A v \in Video : v # cur => asked'[v] = asked[v]
      BY <3>2 DEF Saved, AskedAfter
    <3>4. \/ pc' = "find" /\ cur' = NoVideo
          \/ pc' = "wipe" /\ cur' = cur
      BY <1>6 DEF SaveDone, SaveFailed, WorkerDone
    <3> QED
      BY <3>1, <3>3, <3>4
  <2>2. (SeenMade /\ ListedAsked /\ NotedAll /\ AtRest)'
    BY <1>0, <2>1 DEF SeenMade, ListedAsked, NotedAll, AtRest
  <2>3. promised'[cur] <= ver'[cur] /\ \A v \in Video : v # cur => ver'[v] = ver[v]
    BY <2>1 DEF NotedAll
  <2>4. (Wiped /\ QueuedIsAnalysed)'
    BY <2>1, <2>3 DEF Wiped, QueuedIsAnalysed
  <2> QED
    BY <2>2, <2>4
<1>7. CASE DeleteAnchors
  <2>1. /\ pc = "wipe" /\ pc' = "find" /\ cur' = NoVideo
        /\ UNCHANGED <<asked, ver, promised>>
    BY <1>7 DEF DeleteAnchors, WorkerDone
  <2>2. (SeenMade /\ ListedAsked /\ NotedAll /\ Wiped /\ AtRest)'
    BY <1>0, <2>1 DEF SeenMade, ListedAsked, NotedAll, Wiped, AtRest
  <2>3. QueuedIsAnalysed'
    BY <2>1 DEF QueuedIsAnalysed, Wiped
  <2> QED
    BY <2>2, <2>3
<1> QED
  BY <1>1, <1>2, <1>3, <1>4, <1>5, <1>6, <1>7 DEF Working

LEMMA NextPromising == TypeOK /\ Matching /\ Promising /\ [Next]_vars => Promising'
<1> SUFFICES ASSUME TypeOK, Matching, Promising, [Next]_vars PROVE Promising'
  OBVIOUS
<1>1. ASSUME NEW v \in Video, Disk(v) PROVE Promising'
  BY <1>1, DiskPromising
<1>2. ASSUME NEW r \in Opener, Opening(r) PROVE Promising'
  BY <1>2, OpeningPromising
<1>3. CASE Working
  BY <1>3, WorkingPromising
<1>4. CASE Tick \/ AnalyzerUnavailable \/ RunFails
  <2>1. /\ UNCHANGED <<diskVars, rowVars, openVars, promised>>
        /\ pc' \in {"idle", "find"} /\ cur' = NoVideo
    BY <1>4 DEF Tick, AnalyzerUnavailable, RunFails, WorkerDone
  <2> QED
    BY <2>1, StopPromising
<1>5. CASE Restart
  <2>1. /\ UNCHANGED <<diskVars, rowVars, promised>> /\ pc' = "idle" /\ cur' = NoVideo
        /\ \A r \in Opener : opc'[r] = "idle" /\ saw'[r] = 0
    BY <1>5 DEF Restart, WorkerDone
  <2> QED
    BY <2>1, StopPromising
<1>6. CASE UNCHANGED vars
  BY <1>6 DEF vars, Promising, SeenMade, ListedAsked, Analysing, NotedAll, Wiped, AtRest,
    QueuedIsAnalysed
<1> QED
  BY <1>1, <1>2, <1>3, <1>4, <1>5, <1>6 DEF Next

\* Who was told "queued" is not left with a row without a request and a
\* version older than the one he saw, but for an answer during the analysis.
THEOREM QueuedGetsAnalysed == Spec => []QueuedIsAnalysed
<1>1. Init => Promising
  BY RoadVideoAssumption DEF Init, Promising, SeenMade, ListedAsked, Analysing, NotedAll, Wiped,
    AtRest, QueuedIsAnalysed
<1>2. Promising => QueuedIsAnalysed
  BY DEF Promising
<1> QED
  BY <1>1, <1>2, InitMatching, NextMatching, NextPromising, TypeCorrect, PTL DEF Spec

-----------------------------------------------------------------------------
(* RoadVideoTrack implements VideoResults *)

(***************************************************************************)
(* No row names a version newer than its file, nor does the worker note    *)
(* one older than that of the row it will replace: files come and go, but  *)
(* a file that is there is the newest that was ever seen under its name.   *)
(***************************************************************************)
NotOlder ==
  /\ \A v \in Video : file[v] # 0 => ver[v] <= file[v]
  /\ Analysing => ver[cur] <= stat /\ (file[cur] # 0 => stat <= file[cur])
  /\ pc = "saveDone" => read \in 1..newest

LEMMA DiskNotOlder ==
  ASSUME TypeOK, Matching, NotOlder, NEW v \in Video, Disk(v) PROVE NotOlder'
<1> USE DEF TypeOK, Matching, VersionsMade, StatMade, NotOlder, Analysing, WorkerStep
<1>1. CASE Upload(v)
  BY <1>1 DEF Upload
<1>2. CASE Settle(v)
  BY <1>2 DEF Settle
<1>3. CASE RemoveFile(v)
  BY <1>3 DEF RemoveFile
<1> QED
  BY <1>1, <1>2, <1>3 DEF Disk

LEMMA WorkingNotOlder ==
  ASSUME TypeOK, Matching, NotOlder, Working PROVE NotOlder'
<1> USE DEF TypeOK, Matching, VersionsMade, StatMade, NotOlder, Analysing, WorkerStep
<1>1. CASE ListRequests \/ RunEnds \/ MarkMissing \/ DeleteAnchors
           \/ \E v \in Video : SkipUnsettled(v) \/ FileGone(v)
  <2>1. UNCHANGED <<file, newest, ver>> /\ pc' \in {"idle", "find", "scan", "missing"}
    BY <1>1 DEF ListRequests, RunEnds, MarkMissing, DeleteAnchors, SkipUnsettled, FileGone,
      WorkerDone
  <2> QED
    BY <2>1
<1>2. CASE StartAnalysis
  BY <1>2 DEF StartAnalysis
<1>3. CASE Analyze
  BY <1>3 DEF Analyze
<1>4. CASE SaveDone
  BY <1>4 DEF SaveDone, Saved, WorkerDone
<1>5. CASE SaveFailed
  BY <1>5 DEF SaveFailed, Saved
<1>6. ASSUME NEW v \in Video, Pick(v) PROVE NotOlder'
  BY <1>6 DEF Pick
<1> QED
  BY <1>1, <1>2, <1>3, <1>4, <1>5, <1>6 DEF Working

LEMMA NextNotOlder == TypeOK /\ Matching /\ NotOlder /\ [Next]_vars => NotOlder'
<1> SUFFICES ASSUME TypeOK, Matching, NotOlder, [Next]_vars PROVE NotOlder'
  OBVIOUS
<1>1. ASSUME NEW r \in Opener, Opening(r) PROVE NotOlder'
  <2>1. UNCHANGED <<file, newest, ver, pc, cur, stat, read>>
    BY <1>1 DEF Opening, Open, AlreadyQueued, UpToDate, NeedsRequest, WriteRequest
  <2> QED
    BY <2>1 DEF NotOlder, Analysing
<1>2. CASE Tick \/ AnalyzerUnavailable \/ RunFails \/ Restart
  <2>1. UNCHANGED <<file, newest, ver>> /\ pc' \in {"idle", "find"}
    BY <1>2 DEF Tick, AnalyzerUnavailable, RunFails, Restart, WorkerDone
  <2> QED
    BY <2>1 DEF NotOlder, Analysing
<1>3. CASE UNCHANGED vars
  BY <1>3 DEF vars, NotOlder, Analysing
<1> QED
  BY <1>1, <1>2, <1>3, DiskNotOlder, WorkingNotOlder DEF Next

Waiting == {v \in Video : asked[v] # 0}

\* What touches neither files nor rows.
LEMMA RowsStay ==
  ASSUME UNCHANGED <<file, newest, rowVars>> PROVE UNCHANGED Results!vars
  BY DEF Results!vars

LEMMA DiskResults ==
  ASSUME TypeOK, NEW v \in Video, Disk(v) PROVE [Results!Next]_Results!vars
<1>1. CASE Upload(v) \/ RemoveFile(v)
  <2>1. Results!Change(v)
    BY <1>1 DEF Upload, RemoveFile, Results!Change
  <2> QED
    BY <2>1 DEF Results!Next
<1>2. CASE Settle(v)
  BY <1>2, RowsStay DEF Settle
<1> QED
  BY <1>1, <1>2 DEF Disk

LEMMA OpeningResults ==
  ASSUME TypeOK, NEW r \in Opener, Opening(r) PROVE [Results!Next]_Results!vars
<1>1. CASE (\E v \in Video : Open(r, v)) \/ AlreadyQueued(r) \/ UpToDate(r) \/ NeedsRequest(r)
  BY <1>1, RowsStay DEF Open, AlreadyQueued, UpToDate, NeedsRequest
<1>2. CASE WriteRequest(r)
  <2>1. PICK v \in Video : v = wants[r]
    BY <1>2 DEF TypeOK, WriteRequest
  <2>2. Waiting' = Waiting \cup {v}
    BY <1>2, <2>1 DEF TypeOK, WriteRequest, Waiting
  <2>3. Results!Ask(v)
    BY <1>2, <2>1, <2>2 DEF WriteRequest, Results!Ask, Waiting
  <2> QED
    BY <2>3 DEF Results!Next
<1> QED
  BY <1>1, <1>2 DEF Opening

\* Whatever the worker writes answers a request that is there.
LEMMA SavedResults ==
  ASSUME TypeOK, Matching, Promising, NotOlder, SaveDone \/ SaveFailed
  PROVE  Results!Next
<1>1. PICK v \in Video : v = cur
  BY DEF TypeOK, SaveDone, SaveFailed
<1>2. v \in Waiting /\ Analysing
  BY <1>1 DEF Promising, NotedAll, Analysing, Waiting, SaveDone, SaveFailed
<1>3. asked' = AskedAfter /\ ver' = [ver EXCEPT ![v] = stat] /\ UNCHANGED <<file, newest>>
  BY <1>1 DEF SaveDone, SaveFailed, Saved
<1>4. Waiting' \in {Waiting, Waiting \ {v}}
  <2>1. \A u \in Video \ {v} : asked'[u] = asked[u]
    BY <1>1, <1>3 DEF TypeOK, AskedAfter
  <2> QED
    BY <1>2, <2>1 DEF Waiting
<1>5. Results!Answer(v)
  BY <1>2, <1>3, <1>4 DEF Results!Answer, Waiting
<1>6. stat \in 0..newest /\ stat \in 1..newest /\ ver[v] <= stat
  BY <1>1, <1>2 DEF TypeOK, Matching, StatMade, NotOlder, Analysing
<1>7. CASE SaveDone
  <2>1. read \in 1..newest /\ (stat = file[v] => read = stat)
    BY <1>1, <1>7 DEF SaveDone, NotOlder, Matching, ReadAsNoted
  <2>2. Results!Finish(v, stat, read)
    BY <1>1, <1>3, <1>5, <1>6, <1>7, <2>1 DEF SaveDone, Saved, Results!Finish
  <2> QED
    BY <1>6, <2>1, <2>2 DEF Results!Next
<1>8. CASE SaveFailed
  <2>1. Results!Fail(v, stat)
    BY <1>1, <1>3, <1>5, <1>6, <1>8 DEF SaveFailed, Saved, Results!Fail
  <2> QED
    BY <1>6, <2>1 DEF Results!Next
<1> QED
  BY <1>7, <1>8

LEMMA MissingResults ==
  ASSUME TypeOK, Matching, Promising, MarkMissing PROVE Results!Next
<1>1. PICK v \in Video : v = cur
  BY DEF TypeOK, MarkMissing
<1>2. v \in Waiting
  BY <1>1 DEF Promising, ListedAsked, Waiting, MarkMissing
<1>3. Waiting' = Waiting \ {v}
  BY <1>1 DEF TypeOK, MarkMissing, Waiting
<1>4. PICK n \in 0..newest : n = ver[v]
  BY DEF TypeOK, Matching, VersionsMade
<1>5. Results!Answer(v)
  <2>1. Waiting' \in {Waiting, Waiting \ {v}}
    BY <1>3
  <2> QED
    BY <1>2, <2>1 DEF MarkMissing, Results!Answer, Waiting
<1>6. ver[v] <= n /\ ver' = [ver EXCEPT ![v] = n]
  BY <1>4 DEF TypeOK, MarkMissing
<1>7. Results!Fail(v, n)
  BY <1>1, <1>5, <1>6 DEF MarkMissing, Results!Fail
<1> QED
  BY <1>7 DEF Results!Next

LEMMA NextResults ==
  ASSUME TypeOK, Matching, Promising, NotOlder, [Next]_vars
  PROVE  [Results!Next]_Results!vars
<1>1. CASE \/ Tick \/ AnalyzerUnavailable \/ RunFails \/ Restart \/ UNCHANGED vars
           \/ ListRequests \/ RunEnds \/ StartAnalysis \/ Analyze
           \/ \E v \in Video : SkipUnsettled(v) \/ Pick(v) \/ FileGone(v)
  BY <1>1, RowsStay DEF Tick, AnalyzerUnavailable, RunFails, Restart, ListRequests, RunEnds,
    StartAnalysis, Analyze, SkipUnsettled, Pick, FileGone, vars
<1>2. CASE DeleteAnchors
  <2>1. PICK v \in Video : v = cur
    BY <1>2 DEF TypeOK, DeleteAnchors
  <2>2. status[v] # "done"
    BY <1>2, <2>1 DEF TypeOK, Matching, FailedFirst, DeleteAnchors
  <2>3. Results!DropAnchors(v)
    BY <1>2, <2>1, <2>2 DEF DeleteAnchors, Results!DropAnchors
  <2> QED
    BY <2>3 DEF Results!Next
<1> QED
  BY <1>1, <1>2, DiskResults, OpeningResults, SavedResults, MissingResults
  DEF Next, Working

\* RoadVideoTrack implements VideoResults: only a video that was asked for
\* gets a result, in one step, and of no older file than before.
THEOREM ImplementsResults == Spec => KeepsResults
<1>1. Init => Matching /\ Promising /\ NotOlder /\ Results!Init
  BY InitMatching, RoadVideoAssumption DEF Init, Promising, SeenMade, ListedAsked, Analysing,
    NotedAll, Wiped, AtRest, QueuedIsAnalysed, NotOlder, Results!Init
<1>2. TypeOK /\ Matching /\ Promising /\ NotOlder /\ [Next]_vars
        => [Results!Next]_Results!vars
  BY NextResults
<1> QED
  BY <1>1, <1>2, NextMatching, NextPromising, NextNotOlder, TypeCorrect, PTL
  DEF Spec, KeepsResults, Results!Spec

-----------------------------------------------------------------------------
(* What the promise of VideoResults is worth *)

\* Rows name versions that were made, a result one that there was, so that a
\* change of the file makes another.
Faithful ==
  /\ newest \in Nat
  /\ file \in [Video -> Nat] /\ ver \in [Video -> Nat] /\ anchors \in [Video -> Nat]
  /\ status \in [Video -> {"none", "queued", "done", "failed"}]
  /\ \A v \in Video :
       ver[v] <= newest /\ (status[v] = "done" => ver[v] # 0)
  /\ Results!Matched

\* What a step does to the one row it is about.
ResultsStep(v) ==
  \/ Results!Change(v) \/ Results!Ask(v) \/ Results!DropAnchors(v)
  \/ \E n \in 0..newest : Results!Fail(v, n)
  \/ \E n \in 1..newest, a \in 1..newest : Results!Finish(v, n, a)

LEMMA StepFaithful ==
  ASSUME Faithful, NEW v \in Video, ResultsStep(v)
  PROVE  Faithful' /\ Results!Outlast
<1> USE DEF Faithful, Results!Matched, Results!Outlast
<1>1. CASE Results!Change(v)
  BY <1>1 DEF Results!Change
<1>2. CASE Results!Ask(v)
  BY <1>2 DEF Results!Ask
<1>3. CASE Results!DropAnchors(v)
  BY <1>3 DEF Results!DropAnchors
<1>4. ASSUME NEW n \in 0..newest, Results!Fail(v, n)
      PROVE  Faithful' /\ Results!Outlast
  BY <1>4 DEF Results!Fail, Results!Answer
<1>5. ASSUME NEW n \in 1..newest, NEW a \in 1..newest, Results!Finish(v, n, a)
      PROVE  Faithful' /\ Results!Outlast
  BY <1>5 DEF Results!Finish, Results!Answer
<1> QED
  BY <1>1, <1>2, <1>3, <1>4, <1>5 DEF ResultsStep

LEMMA ResultsFaithful ==
  /\ Results!Init => Faithful
  /\ Faithful /\ [Results!Next]_Results!vars => Faithful'
<1>1. Results!Init => Faithful
  BY DEF Results!Init, Faithful, Results!Matched
<1>2. ASSUME Faithful, Results!Next PROVE Faithful'
  BY <1>2, StepFaithful DEF Results!Next, ResultsStep
<1>3. ASSUME Faithful, UNCHANGED Results!vars PROVE Faithful'
  BY <1>3 DEF Results!vars, Faithful, Results!Matched
<1> QED
  BY <1>1, <1>2, <1>3

\* Where VideoResults is kept, a result of the present file has the anchors
\* of that file.
THEOREM ResultsAreMatched == Results!Spec => []Results!Matched
<1>1. Faithful => Results!Matched
  BY DEF Faithful
<1> QED
  BY <1>1, ResultsFaithful, PTL DEF Results!Spec

\* Where VideoResults is kept, a result nobody asked to replace stays, and
\* none gives way to one of an older file.
THEOREM ResultsOutlast == Results!Spec => Results!ResultsStay
<1>1. Faithful /\ [Results!Next]_Results!vars => [Results!Outlast]_Results!vars
  BY StepFaithful DEF Results!Next, ResultsStep
<1> QED
  BY <1>1, ResultsFaithful, PTL DEF Results!Spec, Results!ResultsStay
=============================================================================

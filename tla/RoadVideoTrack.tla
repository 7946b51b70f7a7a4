--------------------------- MODULE RoadVideoTrack ---------------------------
(***************************************************************************)
(* Matching road videos to their road                                      *)
(* (src/src/integrations/roadVideoTrackScheduler.ts, with                  *)
(* src/src/service/roadVideoTrackService.ts and                            *)
(* src/src/lib/roadVideoTrack.ts).                                         *)
(*                                                                         *)
(* When a super user opens a video that has no result, or whose file has   *)
(* changed since, a request is written into the video's row.  Once a       *)
(* minute one worker goes through the requests in their order, runs an     *)
(* analyser on each file, which may take an hour and a half, and saves     *)
(* the result and its anchors.  Files are replaced and removed, and users  *)
(* open videos, while the worker is between any two of its awaits.         *)
(*                                                                         *)
(* requested_at and startedAt are points on one clock, which advances with *)
(* every request written.  A file version stands for its size and          *)
(* modification time, which is all the code compares.                      *)
(***************************************************************************)
EXTENDS Naturals

CONSTANTS
  Video,       \* video files of the road ledger
  Opener,      \* requests of super users the server may serve at once
  MaxVersion,  \* bound: versions of files; each change on disk makes the next
  MaxClock,    \* bound: requests written
  MaxFaults,   \* bound: errors that end a run, and restarts of the server
  NoVideo

ASSUME RoadVideoAssumption ==
  /\ MaxVersion \in Nat \ {0}
  /\ MaxClock \in Nat
  /\ MaxFaults \in Nat
  /\ NoVideo \notin Video

VARIABLES
  file,       \* version of the file on disk, 0 when there is none
  newest,     \* the last version made
  settled,    \* files not written to for UPLOAD_SETTLE_MS
  asked,      \* requested_at of the row, 0 for NULL
  status,     \* its status; "none" when there is no row
  ver,        \* its file_size and file_mtime
  anchors,    \* the file version its anchors were computed from, 0 for none
  opc,        \* where an opener's request stands
  wants,      \* the video an opener asked for
  saw,        \* the version its stat returned
  pc,         \* where the worker stands
  listed,     \* requests of the worker's last query still to be looked at
  attempted,  \* videos this run has picked
  cur,        \* the video the worker is on
  stat,       \* the version its stat returned
  started,    \* startedAt of the analysis
  read,       \* the version the analyser has read
  stopped,    \* the analyser is not installed; nothing runs until a restart
  faults,
  clock,
  unmet,      \* history: time of the last request written for a video that no
              \* analysis begun after it has answered yet, 0 for none
  promised    \* history: the version for which a user was last told "queued"
              \* while the video was not in analysis, 0 once the row has said
              \* that there is no file

diskVars   == <<file, newest, settled>>
rowVars    == <<asked, status, ver, anchors>>
openVars   == <<opc, wants, saw>>
workVars   == <<pc, listed, attempted, cur, stat, started, read>>
histVars   == <<unmet, promised>>
vars == <<diskVars, rowVars, openVars, workVars, stopped, faults, clock, histVars>>

WorkerStep == {"idle", "find", "scan", "missing", "start", "run",
               "saveDone", "saveFailed", "wipe"}

TypeOK ==
  /\ file \in [Video -> 0..MaxVersion]
  /\ newest \in 1..MaxVersion
  /\ settled \subseteq Video
  /\ asked \in [Video -> Nat]
  /\ status \in [Video -> {"none", "queued", "done", "failed"}]
  /\ ver \in [Video -> 0..MaxVersion]
  /\ anchors \in [Video -> 0..MaxVersion]
  /\ opc \in [Opener -> {"idle", "select", "upsert"}]
  /\ wants \in [Opener -> Video \cup {NoVideo}]
  /\ saw \in [Opener -> 0..MaxVersion]
  /\ \A r \in Opener : opc[r] # "idle" => wants[r] \in Video
  /\ pc \in WorkerStep
  /\ listed \in [Video -> Nat]
  /\ attempted \subseteq Video
  /\ cur \in Video \cup {NoVideo}
  /\ pc \notin {"idle", "find", "scan"} => cur \in Video
  /\ stat \in 0..MaxVersion
  /\ started \in Nat
  /\ read \in 0..MaxVersion
  /\ stopped \in BOOLEAN
  /\ faults \in 0..MaxFaults
  /\ clock \in Nat
  /\ unmet \in [Video -> Nat]
  /\ promised \in [Video -> 0..MaxVersion]

Init ==
  /\ file = [v \in Video |-> 1]
  /\ newest = 1
  /\ settled = Video
  /\ asked = [v \in Video |-> 0]
  /\ status = [v \in Video |-> "none"]
  /\ ver = [v \in Video |-> 0]
  /\ anchors = [v \in Video |-> 0]
  /\ opc = [r \in Opener |-> "idle"]
  /\ wants = [r \in Opener |-> NoVideo]
  /\ saw = [r \in Opener |-> 0]
  /\ pc = "idle"
  /\ listed = [v \in Video |-> 0]
  /\ attempted = {}
  /\ cur = NoVideo
  /\ stat = 0
  /\ started = 0
  /\ read = 0
  /\ stopped = FALSE
  /\ faults = 0
  /\ clock = 0
  /\ unmet = [v \in Video |-> 0]
  /\ promised = [v \in Video |-> 0]

-----------------------------------------------------------------------------
(* The attachment folder *)

\* A new version is uploaded over the file, or where it was: its modification
\* time is one the file has not had.
Upload(v) ==
  /\ newest < MaxVersion
  /\ newest' = newest + 1
  /\ file' = [file EXCEPT ![v] = newest + 1]
  /\ settled' = settled \ {v}
  /\ UNCHANGED <<rowVars, openVars, workVars, stopped, faults, clock, histVars>>

Settle(v) ==
  /\ file[v] # 0
  /\ settled' = settled \cup {v}
  /\ UNCHANGED <<file, newest, rowVars, openVars, workVars, stopped, faults, clock, histVars>>

RemoveFile(v) ==
  /\ file[v] # 0
  /\ newest < MaxVersion
  /\ newest' = newest + 1
  /\ file' = [file EXCEPT ![v] = 0]
  /\ UNCHANGED <<settled, rowVars, openVars, workVars, stopped, faults, clock, histVars>>

-----------------------------------------------------------------------------
(* A super user opens a video (requestRoadVideoTrack) *)

\* The file is found; without one the request ends here.
Open(r, v) ==
  /\ opc[r] = "idle"
  /\ file[v] # 0
  /\ opc' = [opc EXCEPT ![r] = "select"]
  /\ wants' = [wants EXCEPT ![r] = v]
  /\ saw' = [saw EXCEPT ![r] = file[v]]
  /\ UNCHANGED <<diskVars, rowVars, workVars, stopped, faults, clock, histVars>>

\* Mutant: what the request was about is dropped, the request goes on.
LeaveWaiting(r) ==
  /\ wants' = [wants EXCEPT ![r] = NoVideo]
  /\ saw' = [saw EXCEPT ![r] = 0]
  /\ UNCHANGED opc

Leave(r) ==
  /\ opc' = [opc EXCEPT ![r] = "idle"]
  /\ wants' = [wants EXCEPT ![r] = NoVideo]
  /\ saw' = [saw EXCEPT ![r] = 0]

IsCurrent(v, n) == status[v] = "done" /\ ver[v] = n

\* The row says that a request waits already: nothing is written and the
\* user is told "queued".
AlreadyQueued(r) ==
  /\ opc[r] = "select"
  /\ asked[wants[r]] # 0
  /\ promised' = IF cur = wants[r] THEN promised
                                   ELSE [promised EXCEPT ![wants[r]] = saw[r]]
  /\ Leave(r)
  /\ UNCHANGED <<diskVars, rowVars, workVars, stopped, faults, clock, unmet>>

\* The row has a result for this very file: "up-to-date", or none is needed.
UpToDate(r) ==
  /\ opc[r] = "select"
  /\ asked[wants[r]] = 0
  /\ IsCurrent(wants[r], saw[r])
  /\ Leave(r)
  /\ UNCHANGED <<diskVars, rowVars, workVars, stopped, faults, clock, histVars>>

NeedsRequest(r) ==
  /\ opc[r] = "select"
  /\ asked[wants[r]] = 0
  /\ ~IsCurrent(wants[r], saw[r])
  /\ opc' = [opc EXCEPT ![r] = "upsert"]
  /\ UNCHANGED <<diskVars, rowVars, wants, saw, workVars, stopped, faults, clock, histVars>>

\* The upsert; whatever the row has become since the select, its
\* requested_at is now.
WriteRequest(r) ==
  LET v == wants[r] IN
  /\ opc[r] = "upsert"
  /\ clock < MaxClock
  /\ clock' = clock + 1
  /\ asked' = [asked EXCEPT ![v] = clock + 1]
  /\ status' = [status EXCEPT ![v] = IF @ = "none" THEN "queued" ELSE @]
  /\ unmet' = [unmet EXCEPT ![v] = clock + 1]
  /\ promised' = [promised EXCEPT ![v] = saw[r]]
  /\ Leave(r)
  /\ UNCHANGED <<diskVars, ver, anchors, workVars, stopped, faults>>

-----------------------------------------------------------------------------
(* The worker *)

\* A video's variables go out of scope.
WorkerDone(step) ==
  /\ pc' = step
  /\ cur' = NoVideo
  /\ stat' = 0
  /\ started' = 0
  /\ read' = 0

\* The minute's tick (startRoadVideoTrackScheduler); ticks during a run are
\* skipped.
Tick ==
  /\ pc = "idle"
  /\ ~stopped
  /\ attempted' = {}
  /\ listed' = [v \in Video |-> 0]
  /\ WorkerDone("find")
  /\ UNCHANGED <<diskVars, rowVars, openVars, stopped, faults, clock, histVars>>

\* Mutant: rows without a request are listed as well.
ListRows ==
  /\ pc = "find"
  /\ listed' = [v \in Video |-> IF v \in attempted \/ status[v] = "none" THEN 0
                                ELSE asked[v] + 1]
  /\ pc' = "scan"
  /\ UNCHANGED <<diskVars, rowVars, openVars, attempted, cur, stat, started, read,
                 stopped, faults, clock, histVars>>

\* findRequestedVideo: the rows with a request, except those of this run.
ListRequests ==
  /\ pc = "find"
  /\ listed' = [v \in Video |-> IF v \in attempted THEN 0 ELSE asked[v]]
  /\ pc' = "scan"
  /\ UNCHANGED <<diskVars, rowVars, openVars, attempted, cur, stat, started, read,
                 stopped, faults, clock, histVars>>

\* The next row of the list, in the order of the requests.
IsFirst(v) ==
  /\ listed[v] # 0
  /\ \A u \in Video : listed[u] # 0 => listed[v] <= listed[u]

\* A file somebody may still be writing is left for another run.
SkipUnsettled(v) ==
  /\ pc = "scan"
  /\ IsFirst(v)
  /\ file[v] # 0
  /\ v \notin settled
  /\ listed' = [listed EXCEPT ![v] = 0]
  /\ UNCHANGED <<diskVars, rowVars, openVars, pc, attempted, cur, stat, started, read,
                 stopped, faults, clock, histVars>>

Pick(v) ==
  /\ pc = "scan"
  /\ IsFirst(v)
  /\ file[v] # 0
  /\ v \in settled
  /\ pc' = "start"
  /\ cur' = v
  /\ stat' = file[v]
  /\ attempted' = attempted \cup {v}
  /\ UNCHANGED <<diskVars, rowVars, openVars, listed, started, read, stopped, faults,
                 clock, histVars>>

FileGone(v) ==
  /\ pc = "scan"
  /\ IsFirst(v)
  /\ file[v] = 0
  /\ pc' = "missing"
  /\ cur' = v
  /\ UNCHANGED <<diskVars, rowVars, openVars, listed, attempted, stat, started, read,
                 stopped, faults, clock, histVars>>

\* Mutant: the row says "failed" but keeps its request.
MarkMissingKept ==
  /\ pc = "missing"
  /\ status' = [status EXCEPT ![cur] = "failed"]
  /\ listed' = [listed EXCEPT ![cur] = 0]
  /\ unmet' = [unmet EXCEPT ![cur] = 0]
  /\ promised' = [promised EXCEPT ![cur] = 0]
  /\ WorkerDone("scan")
  /\ UNCHANGED <<diskVars, asked, ver, anchors, openVars, attempted, stopped, faults,
                 clock>>

\* Every request so far is answered with "there is no file".
MarkMissing ==
  /\ pc = "missing"
  /\ status' = [status EXCEPT ![cur] = "failed"]
  /\ asked' = [asked EXCEPT ![cur] = 0]
  /\ listed' = [listed EXCEPT ![cur] = 0]
  /\ unmet' = [unmet EXCEPT ![cur] = 0]
  /\ promised' = [promised EXCEPT ![cur] = 0]
  /\ WorkerDone("scan")
  /\ UNCHANGED <<diskVars, ver, anchors, openVars, attempted, stopped, faults,
                 clock>>

\* Nothing left that can be analysed: the run is over.
RunEnds ==
  /\ pc = "scan"
  /\ \A v \in Video : listed[v] = 0
  /\ WorkerDone("idle")
  /\ attempted' = {}
  /\ UNCHANGED <<diskVars, rowVars, openVars, listed, stopped, faults, clock, histVars>>

\* analyzeVideo: startedAt, then the route, without which the file fails.
StartAnalysis ==
  /\ pc = "start"
  /\ started' = clock
  /\ pc' \in {"run", "saveFailed"}
  /\ UNCHANGED <<diskVars, rowVars, openVars, listed, attempted, cur, stat, read,
                 stopped, faults, clock, histVars>>

\* runAnalyzer: the child reads the file as it is by now; it succeeds, or it
\* fails, is killed after ANALYZE_TIMEOUT_MS or leaves no output.
Analyze ==
  /\ pc = "run"
  /\ \/ /\ file[cur] # 0
        /\ read' = file[cur]
        /\ pc' = "saveDone"
     \/ pc' = "saveFailed" /\ UNCHANGED read
  /\ UNCHANGED <<diskVars, rowVars, openVars, listed, attempted, cur, stat, started,
                 stopped, faults, clock, histVars>>

\* Python or one of its modules is missing.
AnalyzerUnavailable ==
  /\ pc = "run"
  /\ stopped' = TRUE
  /\ WorkerDone("idle")
  /\ attempted' = {}
  /\ listed' = [v \in Video |-> 0]
  /\ UNCHANGED <<diskVars, rowVars, openVars, faults, clock, histVars>>

\* Mutant: requested_at = NULL, as for a missing file.
AskedForgotten == [asked EXCEPT ![cur] = 0]

\* requested_at = CASE WHEN requested_at > startedAt THEN requested_at END
AskedAfter == [asked EXCEPT ![cur] = IF @ > started THEN @ ELSE 0]

\* Mutant: size and time are taken from the file when the result is saved.
SavedWithFreshStat(result) ==
  /\ status' = [status EXCEPT ![cur] = result]
  /\ ver' = [ver EXCEPT ![cur] = file[cur]]
  /\ asked' = AskedAfter
  /\ unmet' = [unmet EXCEPT ![cur] = IF @ <= started THEN 0 ELSE @]
  /\ UNCHANGED <<diskVars, openVars, listed, attempted, stopped, faults, clock, promised>>

Saved(result) ==
  /\ status' = [status EXCEPT ![cur] = result]
  /\ ver' = [ver EXCEPT ![cur] = stat]
  /\ asked' = AskedAfter
  /\ unmet' = [unmet EXCEPT ![cur] = IF @ <= started THEN 0 ELSE @]
  /\ UNCHANGED <<diskVars, openVars, listed, attempted, stopped, faults, clock, promised>>

\* saveDone, one transaction.
SaveDone ==
  /\ pc = "saveDone"
  /\ Saved("done")
  /\ anchors' = [anchors EXCEPT ![cur] = read]
  /\ WorkerDone("find")

\* saveFailed, two statements of their own.
SaveFailed ==
  /\ pc = "saveFailed"
  /\ Saved("failed")
  /\ pc' = "wipe"
  /\ UNCHANGED <<anchors, cur, stat, started, read>>

DeleteAnchors ==
  /\ pc = "wipe"
  /\ anchors' = [anchors EXCEPT ![cur] = 0]
  /\ WorkerDone("find")
  /\ UNCHANGED <<diskVars, asked, status, ver, openVars, listed, attempted, stopped,
                 faults, clock, histVars>>

\* A query or a file operation throws: the whole run is over.
RunFails ==
  /\ pc # "idle"
  /\ faults < MaxFaults
  /\ faults' = faults + 1
  /\ WorkerDone("idle")
  /\ attempted' = {}
  /\ listed' = [v \in Video |-> 0]
  /\ UNCHANGED <<diskVars, rowVars, openVars, stopped, clock, histVars>>

\* The server ends and is started again; what was in memory is gone.
Restart ==
  /\ faults < MaxFaults
  /\ faults' = faults + 1
  /\ stopped' = FALSE
  /\ WorkerDone("idle")
  /\ attempted' = {}
  /\ listed' = [v \in Video |-> 0]
  /\ opc' = [r \in Opener |-> "idle"]
  /\ wants' = [r \in Opener |-> NoVideo]
  /\ saw' = [r \in Opener |-> 0]
  /\ UNCHANGED <<diskVars, rowVars, clock, histVars>>

-----------------------------------------------------------------------------
Disk(v) == Upload(v) \/ Settle(v) \/ RemoveFile(v)

Opening(r) ==
  \/ \E v \in Video : Open(r, v)
  \/ AlreadyQueued(r) \/ UpToDate(r) \/ NeedsRequest(r) \/ WriteRequest(r)

Working ==
  \/ ListRequests \/ RunEnds \/ MarkMissing \/ StartAnalysis \/ Analyze
  \/ SaveDone \/ SaveFailed \/ DeleteAnchors
  \/ \E v \in Video : SkipUnsettled(v) \/ Pick(v) \/ FileGone(v)

Next ==
  \/ \E v \in Video : Disk(v)
  \/ \E r \in Opener : Opening(r)
  \/ Tick \/ Working \/ AnalyzerUnavailable \/ RunFails \/ Restart

Spec == Init /\ [][Next]_vars

(***************************************************************************)
(* Fairness: the interval fires, the worker's awaits settle (the analyser  *)
(* is killed when it takes too long), and a file that is not written to    *)
(* settles.  Nobody is obliged to open or upload anything.                 *)
(***************************************************************************)
FairSpec ==
  /\ Spec
  /\ WF_vars(Tick)
  /\ WF_vars(Working)
  /\ \A v \in Video : WF_vars(Settle(v))

-----------------------------------------------------------------------------
(* Properties *)

\* The worker never forgets a request that was written into a row: either it
\* is still there, or an analysis that began after it has been saved, or the
\* row was closed because the file was gone.  Threatened by a request written
\* while the analysis of the same video is running.
RequestKept ==
  \A v \in Video : unmet[v] # 0 => asked[v] = unmet[v]

\* Who is told "up-to-date" sees the anchors of the file as it is: a row that
\* names the present version of the file holds anchors computed from that
\* version, although the analyser opens the file long after the worker has
\* noted its size and time.  KeepsResults implies it.
ResultIsOfFile ==
  \A v \in Video :
    status[v] = "done" /\ file[v] # 0 /\ ver[v] = file[v] => anchors[v] = file[v]

\* Opening a video whose file has changed leaves a request for an analysis: a
\* user who was told "queued" is not left with a row that has no request and
\* an older file.  The exception is an answer given while the analysis of that
\* very video goes on: it writes nothing, and the save clears the request.
QueuedIsAnalysed ==
  \A v \in Video :
    asked[v] = 0 /\ cur # v => promised[v] <= ver[v]

Results == INSTANCE VideoResults WITH waiting <- {v \in Video : asked[v] # 0}

\* Users, worker, errors and restarts together do no more than ask for videos
\* and answer who asked: no result is replaced unasked or by one of an older
\* file, and the row and its anchors go together although the analysis lies
\* between the look at the file and the save.
KeepsResults == Results!Spec

\* Every request is worked off: others are ahead of it, its file may vanish or
\* still be written to, and an error ends the whole run.  The one exception is
\* a missing analyser, which stops the worker until the server is restarted.
RequestWorkedOff ==
  \A v \in Video : asked[v] # 0 ~> (asked[v] = 0 \/ stopped)
=============================================================================

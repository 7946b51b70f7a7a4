----------------------------- MODULE AerialDrop -----------------------------
(***************************************************************************)
(* TIFs of one work unit of drone imagery, from the file on disk to the    *)
(* tiles: the check of the drop folder and the upload screen that both     *)
(* register files (src/src/service/aerialUploadService.ts) behind the gate *)
(* of src/src/lib/aerialWorkGate.ts, and the conversions                   *)
(* (src/src/service/aerialOrthoService.ts and orthophotoService.ts) that   *)
(* the folder check and users start.                                       *)
(*                                                                         *)
(* A file is its stamp: the number of the write it comes from, which       *)
(* stands for its size and time of change.  The tiles of a file go to a    *)
(* directory named after it, but the name is a slug: files whose names     *)
(* differ only in what sanitizeTifOutputSlug replaces or cuts share one.   *)
(***************************************************************************)
EXTENDS Naturals

CONSTANTS
  File,       \* TIFs of the folder
  Directory,  \* of tiles
  Slug,       \* the directory that the tiles of each file go to
  Upload,     \* calls of completeMediaUpload
  Target,     \* the file each of them saves
  Call,       \* calls of convertOrthoWorkUnit by users
  Drop,       \* the conversion the folder check starts
  NoFile,
  MaxRows,    \* bound: rows ever inserted
  MaxWrites,  \* bound: writes after which nobody copies
  MaxMishaps  \* bound: failed steps, restarts and deletions

Job == Call \cup {Drop}
Key == 1..MaxRows

ASSUME AerialAssumption ==
  /\ Target \in [Upload -> File]
  /\ Drop \notin Call
  /\ NoFile \notin File \cup Directory
  /\ Slug \in [File -> Directory]
  /\ {MaxRows, MaxWrites, MaxMishaps} \subseteq Nat

VARIABLES
  stamp,     \* of each file on disk, 0 for none
  writes,
  tiles,     \* what each directory holds
  held,      \* aerialWorkGate
  watch,     \* droneDropWatch: the stamp of the last check, 0 for none
  spc,       \* where the folder check stands
  listed, known, ready, cur, touched, \* its local variables
  upc,       \* where each upload stands
  nextKey,   \* of tif_unit
  path,      \* of each row
  status,    \* convert_status, or why there is no row
  jpc,       \* where each conversion stands
  must, may, \* the rows that it still has to convert, as it read them, and
             \* those that it may convert anew
  at,        \* the row it is at, 0 for none
  busy,      \* isOrthoConvertBusy
  dpc,       \* where deleteTifUnit stands
  doomed,    \* the file it removes
  mishaps,
  reuploaded, \* history: files uploaded over a registered one
  contested, \* history: directories that two rows, two conversions, or a
             \* conversion and a deletion had at once, or that a deleted row
             \* was converted to
  made,      \* history: rows whose tiles their last conversion has made
  stranded   \* history: rows whose conversion a restart or a failed statement
             \* has cut off

diskVars  == <<stamp, writes>>
localVars == <<listed, known, ready, cur, touched>>
scanVars  == <<spc, localVars>>
rowVars   == <<nextKey, path, status>>
jobVars   == <<jpc, must, may, at, busy>>
workVars  == <<must, may, at>>
delVars   == <<dpc, doomed>>
histVars  == <<reuploaded, contested, made, stranded>>
vars == <<diskVars, tiles, held, watch, scanVars, upc, rowVars, jobVars,
          delVars, mishaps, histVars>>

\* What the folder check, an upload and a conversion leave alone.
besidesScan   == <<diskVars, tiles, upc, rowVars, jobVars, delVars, histVars>>
besidesUpload == <<tiles, watch, scanVars, jobVars, delVars>>
besidesJob    == <<diskVars, held, watch, scanVars, upc, delVars>>

RowStatus == {"pending", "converting", "done", "failed"}
ScanStep == {"idle", "list", "known", "stat", "next", "dup", "insert", "kick"}
InJob == {"start", "warp", "clear", "publish", "check", "good", "bad"}
JobStep == {"new", "read", "next", "end"} \cup InJob

TypeOK ==
  /\ stamp \in [File -> Nat] /\ writes \in Nat
  /\ tiles \in [Directory -> {"none", "part", "whole"}]
  /\ held \in {0, 1}
  /\ watch \in [File -> Nat]
  /\ spc \in ScanStep
  /\ listed \in SUBSET File /\ known \in SUBSET File /\ ready \in SUBSET File
  /\ cur \in File \cup {NoFile} /\ touched \in BOOLEAN
  /\ spc \in {"dup", "insert"} => cur \in File
  /\ upc \in [Upload -> {"new", "save", "insert", "end"}]
  /\ nextKey \in Nat \ {0}
  /\ path \in [Key -> File \cup {NoFile}]
  /\ status \in [Key -> RowStatus \cup {"free", "deleted"}]
  /\ \A k \in Key : (path[k] = NoFile) <=> (status[k] = "free")
  /\ jpc \in [Job -> JobStep]
  /\ must \in [Job -> SUBSET Key] /\ may \in [Job -> SUBSET Key]
  /\ at \in [Job -> Nat]
  /\ \A j \in Job : jpc[j] \in InJob => at[j] \in Key
  /\ busy \in BOOLEAN
  /\ dpc \in {"idle", "all", "source", "tiles"}
  /\ doomed \in File \cup {NoFile}
  /\ (doomed = NoFile) <=> (dpc = "idle")
  /\ mishaps \in 0..MaxMishaps
  /\ reuploaded \in SUBSET File /\ contested \in SUBSET Directory
  /\ made \in SUBSET Key /\ stranded \in SUBSET Key

Init ==
  /\ stamp = [f \in File |-> 0] /\ writes = 0
  /\ tiles = [d \in Directory |-> "none"]
  /\ held = 0
  /\ watch = [f \in File |-> 0]
  /\ spc = "idle" /\ listed = {} /\ known = {} /\ ready = {} /\ cur = NoFile
  /\ touched = FALSE
  /\ upc = [u \in Upload |-> "new"]
  /\ nextKey = 1
  /\ path = [k \in Key |-> NoFile]
  /\ status = [k \in Key |-> "free"]
  /\ jpc = [j \in Job |-> "new"]
  /\ must = [j \in Job |-> {}] /\ may = [j \in Job |-> {}]
  /\ at = [j \in Job |-> 0]
  /\ busy = FALSE
  /\ dpc = "idle" /\ doomed = NoFile
  /\ mishaps = 0
  /\ reuploaded = {} /\ contested = {} /\ made = {} /\ stranded = {}

-----------------------------------------------------------------------------
(* Files and rows *)

Live(k) == status[k] \in RowStatus
Registered(f) == \E k \in Key : Live(k) /\ path[k] = f

\* Where the tiles of a row go: sanitizeTifOutputSlug of its file's name.
DirOf(k) == IF path[k] = NoFile THEN NoFile ELSE Slug[path[k]]
RowsOf(d) == {k \in Key : DirOf(k) = d}

\* What the removal of a directory leaves of it; its errors are swallowed.
RemoveDirectory(d) ==
  \/ tiles' = [tiles EXCEPT ![d] = "none"] /\ UNCHANGED mishaps
  \/ /\ mishaps < MaxMishaps /\ mishaps' = mishaps + 1
     /\ tiles[d] # "none"
     /\ \E rest \in {"part", tiles[d]} : tiles' = [tiles EXCEPT ![d] = rest]

\* A write of f, by a copy into the folder or by an upload.
Touch(f) ==
  /\ writes' = writes + 1
  /\ stamp' = [stamp EXCEPT ![f] = writes']

\* Somebody copies f into the folder, or goes on copying.
Copy(f) ==
  /\ writes < MaxWrites
  /\ Touch(f)
  /\ UNCHANGED <<besidesUpload, rowVars, histVars, held, upc, mishaps>>

\* Bound: nobody begins to register a file once all keys are given away.
Room == nextKey \in Key

AddRow(f) ==
  /\ Room
  /\ nextKey' = nextKey + 1
  /\ path' = [path EXCEPT ![nextKey] = f]
  /\ status' = [status EXCEPT ![nextKey] = "pending"]
  /\ contested' = IF \E k \in RowsOf(Slug[f]) : Live(k)
                  THEN contested \cup {Slug[f]} ELSE contested
  /\ UNCHANGED <<made, stranded>>

\* UPDATE ... WHERE tu_key = k: nothing when the row is gone.
SetStatus(k, s) ==
  status' = IF Live(k) THEN [status EXCEPT ![k] = s] ELSE status

Mishap == mishaps < MaxMishaps /\ mishaps' = mishaps + 1

-----------------------------------------------------------------------------
(* The folder check: importDroppedTifFolders *)

ScanGoes(step) == spc' = step

\* The check returns, and its local variables are gone.
ScanReturns ==
  /\ spc' = "idle"
  /\ listed' = {} /\ known' = {} /\ ready' = {}
  /\ cur' = NoFile /\ touched' = FALSE

Tick ==
  /\ spc = "idle" /\ held = 0 /\ ~busy
  /\ ScanGoes("list")
  /\ UNCHANGED <<besidesScan, localVars, held, watch, mishaps>>

List ==
  /\ spc = "list"
  /\ listed' = {f \in File : stamp[f] # 0}
  /\ ScanGoes("known")
  /\ UNCHANGED <<besidesScan, held, watch, known, ready, cur, touched,
                 mishaps>>

ReadKnown ==
  /\ spc = "known"
  /\ known' = {f \in File : Registered(f)}
  /\ ScanGoes("stat")
  /\ UNCHANGED <<besidesScan, held, watch, listed, ready, cur, touched,
                 mishaps>>

\* Mutant: what was noted first is kept.
StatFirst ==
  /\ spc = "stat"
  /\ LET there == {f \in listed \ known : stamp[f] # 0}
     IN /\ ready' = {f \in there : watch[f] = stamp[f]}
        /\ watch' = [f \in File |-> IF f \in there /\ watch[f] = 0
                                    THEN stamp[f]
                                    ELSE IF f \in listed \cap known THEN 0
                                    ELSE watch[f]]
  /\ known' = {}
  /\ ScanGoes("next")
  /\ UNCHANGED <<besidesScan, held, listed, cur, touched, mishaps>>

\* droneDropIsStable of every listed file that has no row: ready when the last
\* check has seen the same stamp, and noted in any case.
Stat ==
  /\ spc = "stat"
  /\ LET there == {f \in listed \ known : stamp[f] # 0}
     IN /\ ready' = {f \in there : watch[f] = stamp[f]}
        /\ watch' = [f \in File |-> IF f \in there THEN stamp[f]
                                    ELSE IF f \in listed \cap known THEN 0
                                    ELSE watch[f]]
  /\ known' = {}
  /\ ScanGoes("next")
  /\ UNCHANGED <<besidesScan, held, listed, cur, touched, mishaps>>

\* tryBeginAerialWork.
BeginFile(f) ==
  /\ spc = "next" /\ f \in ready /\ Room
  /\ ~busy /\ held = 0
  /\ held' = 1
  /\ cur' = f
  /\ ready' = ready \ {f}
  /\ ScanGoes("dup")
  /\ UNCHANGED <<besidesScan, watch, listed, known, touched, mishaps>>

\* Watched files that the folder no longer holds are forgotten.
Prune == watch' = [f \in File |-> IF f \in listed THEN watch[f] ELSE 0]

\* Mutant: endAerialWork also after a refused tryBeginAerialWork.
PauseReleasing ==
  /\ spc = "next" /\ ready # {}
  /\ busy \/ held > 0
  /\ Prune
  /\ held' = 0
  /\ ScanReturns
  /\ UNCHANGED <<besidesScan, mishaps>>

Pause ==
  /\ spc = "next" /\ ready # {}
  /\ busy \/ held > 0
  /\ Prune
  /\ ScanReturns
  /\ UNCHANGED <<besidesScan, held, mishaps>>

\* endAerialWork, and on to the next file.
FileEnds ==
  /\ held' = 0
  /\ cur' = NoFile
  /\ ScanGoes("next")

FoundDup ==
  /\ spc = "dup"
  /\ Registered(cur)
  /\ watch' = [watch EXCEPT ![cur] = 0]
  /\ FileEnds
  /\ UNCHANGED <<besidesScan, listed, known, ready, touched, mishaps>>

\* Mutant: the second look, behind the gate, is left out.
NotDupUnlooked ==
  /\ spc = "dup"
  /\ ScanGoes("insert")
  /\ UNCHANGED <<besidesScan, localVars, held, watch, mishaps>>

NotDup ==
  /\ spc = "dup"
  /\ ~Registered(cur)
  /\ ScanGoes("insert")
  /\ UNCHANGED <<besidesScan, localVars, held, watch, mishaps>>

InsertRow ==
  /\ spc = "insert"
  /\ AddRow(cur)
  /\ touched' = TRUE
  /\ watch' = [watch EXCEPT ![cur] = 0]
  /\ FileEnds
  /\ UNCHANGED <<diskVars, jobVars, delVars, tiles, listed, known, ready, upc,
                 mishaps, reuploaded>>

\* A statement fails; the file is left to the next check.
SkipFile ==
  /\ spc \in {"dup", "insert"}
  /\ Mishap
  /\ FileEnds
  /\ UNCHANGED <<besidesScan, listed, known, ready, touched, watch>>

FolderDone ==
  /\ spc = "next" /\ (ready = {} \/ ~Room)
  /\ Prune
  /\ ScanGoes("kick")
  /\ UNCHANGED <<besidesScan, localVars, held, mishaps>>

\* kickDroppedOrthoConvert, after the query for pending rows.
Kick ==
  /\ spc = "kick"
  /\ ScanReturns
  /\ jpc' = IF /\ touched \/ \E k \in Key : status[k] = "pending"
               /\ jpc[Drop] = "new" /\ ~busy /\ held = 0
            THEN [jpc EXCEPT ![Drop] = "read"]
            ELSE jpc
  /\ UNCHANGED <<diskVars, rowVars, delVars, histVars, tiles, held, watch,
                 upc, workVars, busy, mishaps>>

\* A query fails, and with it the whole check.
ScanFails ==
  /\ spc \in {"known", "kick"}
  /\ Mishap
  /\ ScanReturns
  /\ UNCHANGED <<besidesScan, held, watch>>

-----------------------------------------------------------------------------
(* The upload screen: completeMediaUpload, once all chunks are there *)

UploadGoes(u, step) == upc' = [upc EXCEPT ![u] = step]

\* Mutant: the waiting upload raises the counter before it looks.
WaitTurnCounting(u) ==
  /\ upc[u] = "new"
  /\ held' = held + 1
  /\ UploadGoes(u, IF held = 0 THEN "save" ELSE "new")
  /\ UNCHANGED <<besidesUpload, diskVars, rowVars, histVars, mishaps>>

\* waitAerialWorkTurn.
WaitTurn(u) ==
  /\ upc[u] = "new" /\ held = 0 /\ Room
  /\ held' = 1
  /\ UploadGoes(u, "save")
  /\ UNCHANGED <<besidesUpload, diskVars, rowVars, histVars, mishaps>>

SaveFile(u) ==
  /\ upc[u] = "save"
  /\ Touch(Target[u])
  /\ UploadGoes(u, "insert")
  /\ UNCHANGED <<besidesUpload, rowVars, histVars, held, mishaps>>

\* No look for a row that the path already has.
UploadRow(u) ==
  /\ upc[u] = "insert"
  /\ AddRow(Target[u])
  /\ reuploaded' = IF Registered(Target[u]) THEN reuploaded \cup {Target[u]}
                                            ELSE reuploaded
  /\ held' = 0
  /\ UploadGoes(u, "end")
  /\ UNCHANGED <<besidesUpload, diskVars, mishaps>>

UploadFails(u) ==
  /\ upc[u] \in {"save", "insert"}
  /\ Mishap
  /\ held' = 0
  /\ UploadGoes(u, "end")
  /\ UNCHANGED <<besidesUpload, diskVars, rowVars, histVars>>

-----------------------------------------------------------------------------
(* A conversion: convertOrthoWorkUnit and, for each row, runOrthophotoJob *)

JobGoes(j, step) == jpc' = [jpc EXCEPT ![j] = step]

StartCall(c) ==
  /\ jpc[c] = "new"
  /\ JobGoes(c, "read")
  /\ UNCHANGED <<besidesJob, rowVars, histVars, tiles, workVars, busy,
                 mishaps>>

\* All rows at once; the loop looks at nothing newer.
ReadRows(j) ==
  /\ jpc[j] = "read"
  /\ must' = [must EXCEPT ![j] =
                {k \in Key : status[k] \in {"pending", "failed"}}]
  /\ may' = [may EXCEPT ![j] = {k \in Key : status[k] = "done"}]
  /\ JobGoes(j, "next")
  /\ UNCHANGED <<besidesJob, rowVars, histVars, tiles, at, busy, mishaps>>

\* The loop comes to row k: it has to convert it, or has a reason to convert it
\* anew (force, another coordinate system, tiles of the old format).
Reach(j, k) ==
  /\ jpc[j] = "next"
  /\ k \in must[j] \cup may[j]
  /\ \A l \in must[j] : k <= l
  /\ must' = [must EXCEPT ![j] = @ \ {k}]
  /\ may' = [may EXCEPT ![j] = {l \in @ : l > k}]
  /\ at' = [at EXCEPT ![j] = k]

WorksOn(j, d) == jpc[j] \in InJob /\ at[j] \in RowsOf(d)

\* A deletion still has to remove the tiles of directory d.
Dooms(d) == doomed # NoFile /\ Slug[doomed] = d

\* Mutant: a row that is converted anew goes on saying "done".
TakeRowUnmarked(j, k) ==
  /\ Reach(j, k)
  /\ IF status[k] = "done" THEN UNCHANGED status ELSE SetStatus(k, "converting")
  /\ contested' = IF \/ ~Live(k) \/ Dooms(DirOf(k))
                     \/ \E i \in Job \ {j} : WorksOn(i, DirOf(k))
                  THEN contested \cup {DirOf(k)} ELSE contested
  /\ made' = made \ {k}
  /\ JobGoes(j, "start")
  /\ UNCHANGED <<besidesJob, tiles, nextKey, path, busy, mishaps, reuploaded,
                 stranded>>

\* The next row to convert is marked, if it is still there.
TakeRow(j, k) ==
  /\ Reach(j, k)
  /\ SetStatus(k, "converting")
  /\ contested' = IF \/ ~Live(k) \/ Dooms(DirOf(k))
                     \/ \E i \in Job \ {j} : WorksOn(i, DirOf(k))
                  THEN contested \cup {DirOf(k)} ELSE contested
  /\ made' = made \ {k}
  /\ JobGoes(j, "start")
  /\ UNCHANGED <<besidesJob, tiles, nextKey, path, busy, mishaps, reuploaded,
                 stranded>>

\* The call returns, and its local variables are gone.
Forget(j) ==
  /\ must' = [must EXCEPT ![j] = {}] /\ may' = [may EXCEPT ![j] = {}]
  /\ at' = [at EXCEPT ![j] = 0]

\* Mutant: orthoDropConvertTail is not cleared.
RowsDoneKeepingTail(j) ==
  /\ jpc[j] = "next"
  /\ must[j] = {}
  /\ JobGoes(j, "end")
  /\ Forget(j)
  /\ UNCHANGED <<besidesJob, rowVars, histVars, tiles, busy, mishaps>>

RowsDone(j) ==
  /\ jpc[j] = "next"
  /\ must[j] = {}
  /\ JobGoes(j, IF j = Drop THEN "new" ELSE "end")
  /\ Forget(j)
  /\ UNCHANGED <<besidesJob, rowVars, histVars, tiles, busy, mishaps>>

FileOf(j) == path[at[j]]
Output(j) == DirOf(at[j])

\* All jobs of drone imagery share the entry 'aerial_ortho', so the end of one
\* makes isOrthoConvertBusy false while another one runs.
StartWarp(j) ==
  /\ jpc[j] = "start"
  /\ busy' = TRUE
  /\ JobGoes(j, "warp")
  /\ UNCHANGED <<besidesJob, rowVars, histVars, tiles, workVars, mishaps>>

Tiled(j) ==
  /\ jpc[j] = "warp" /\ stamp[FileOf(j)] # 0
  /\ busy' = TRUE
  /\ JobGoes(j, "clear")
  /\ UNCHANGED <<besidesJob, rowVars, histVars, tiles, workVars, mishaps>>

\* The job reports its failure in the progress entry only, and returns.
JobFails(j) ==
  /\ jpc[j] \in {"start", "warp"}
  /\ Mishap
  /\ busy' = FALSE
  /\ JobGoes(j, "check")
  /\ UNCHANGED <<besidesJob, rowVars, histVars, tiles, workVars>>

SourceGone(j) ==
  /\ jpc[j] = "warp" /\ stamp[FileOf(j)] = 0
  /\ busy' = FALSE
  /\ JobGoes(j, "check")
  /\ UNCHANGED <<besidesJob, rowVars, histVars, tiles, workVars, mishaps>>

\* publishOrthoTiles removes the old tiles,
ClearTiles(j) ==
  /\ jpc[j] = "clear"
  /\ RemoveDirectory(Output(j))
  /\ made' = made \ RowsOf(Output(j))
  /\ JobGoes(j, "publish")
  /\ UNCHANGED <<besidesJob, rowVars, workVars, busy, reuploaded, contested,
                 stranded>>

\* then moves the new ones, one by one into what is left of the old.
Publish(j) ==
  /\ jpc[j] = "publish"
  /\ tiles' = [tiles EXCEPT ![Output(j)] = "whole"]
  /\ made' = (made \ RowsOf(Output(j))) \cup {at[j]}
  /\ busy' = FALSE
  /\ JobGoes(j, "check")
  /\ UNCHANGED <<besidesJob, rowVars, workVars, mishaps, reuploaded,
                 contested, stranded>>

\* The move stops before or after it has made a directory of a zoom level.
PublishFails(j) ==
  /\ jpc[j] = "publish"
  /\ Mishap
  /\ tiles' \in {tiles, [tiles EXCEPT ![Output(j)] = "part"]}
  /\ made' = made \ RowsOf(Output(j))
  /\ busy' = FALSE
  /\ JobGoes(j, "check")
  /\ UNCHANGED <<besidesJob, rowVars, workVars, reuploaded, contested,
                 stranded>>

\* runAerialOrthoTifToXyz looks for a zoom level, and for nothing else; if it
\* cannot look, it has failed.
Check(j) ==
  /\ jpc[j] = "check"
  /\ \/ /\ JobGoes(j, IF tiles[Output(j)] = "none" THEN "bad" ELSE "good")
        /\ UNCHANGED mishaps
     \/ JobGoes(j, "bad") /\ Mishap
  /\ UNCHANGED <<besidesJob, rowVars, histVars, tiles, workVars, busy>>

\* Mutant: a failure is reported but not written into the row.
RecordSuccess(j) ==
  /\ jpc[j] \in {"good", "bad"}
  /\ IF jpc[j] = "good" THEN SetStatus(at[j], "done") ELSE UNCHANGED status
  /\ at' = [at EXCEPT ![j] = 0]
  /\ JobGoes(j, "next")
  /\ UNCHANGED <<besidesJob, histVars, tiles, nextKey, path, must, may, busy,
                 mishaps>>

Record(j) ==
  /\ jpc[j] \in {"good", "bad"}
  /\ SetStatus(at[j], IF jpc[j] = "good" THEN "done" ELSE "failed")
  /\ at' = [at EXCEPT ![j] = 0]
  /\ JobGoes(j, "next")
  /\ UNCHANGED <<besidesJob, histVars, tiles, nextKey, path, must, may, busy,
                 mishaps>>

\* A statement fails, and the call with it; a row it was about to record stays
\* as it is.
CallFails(j) ==
  /\ jpc[j] \in {"read", "next", "good", "bad"}
  /\ Mishap
  /\ stranded' = IF jpc[j] \in {"good", "bad"} THEN stranded \cup {at[j]}
                                              ELSE stranded
  /\ JobGoes(j, IF j = Drop THEN "new" ELSE "end")
  /\ Forget(j)
  /\ UNCHANGED <<besidesJob, rowVars, tiles, busy, reuploaded, contested,
                 made>>

-----------------------------------------------------------------------------
(* deleteTifUnit, and the end of the server *)

DeleteRow(k) ==
  /\ dpc = "idle" /\ Live(k)
  /\ Mishap
  /\ status' = [status EXCEPT ![k] = "deleted"]
  /\ doomed' = path[k]
  /\ \E step \in {"all", "source"} :
       /\ step = "all" => status[k] # "pending"
       /\ step = "source" => status[k] # "done"
       /\ dpc' = step
  /\ UNCHANGED <<scanVars, diskVars, jobVars, histVars, tiles, held, watch,
                 upc, nextKey, path>>

\* The file may be in use, which is not an error.
RemoveSource ==
  /\ dpc \in {"all", "source"}
  /\ \/ stamp' = [stamp EXCEPT ![doomed] = 0] /\ UNCHANGED mishaps
     \/ Mishap /\ UNCHANGED stamp
  /\ IF dpc = "all"
     THEN dpc' = "tiles" /\ UNCHANGED doomed
     ELSE dpc' = "idle" /\ doomed' = NoFile
  /\ UNCHANGED <<scanVars, rowVars, jobVars, histVars, writes, tiles, held,
                 watch, upc>>

\* Only for a row that once had tiles.
RemoveTiles ==
  /\ dpc = "tiles"
  /\ RemoveDirectory(Slug[doomed])
  /\ made' = made \ RowsOf(Slug[doomed])
  /\ dpc' = "idle" /\ doomed' = NoFile
  /\ UNCHANGED <<scanVars, diskVars, rowVars, jobVars, held, watch, upc,
                 reuploaded, contested, stranded>>

Restart ==
  /\ Mishap
  /\ held' = 0
  /\ watch' = [f \in File |-> 0]
  /\ ScanReturns
  /\ upc' = [u \in Upload |-> IF upc[u] = "new" THEN "new" ELSE "end"]
  /\ jpc' = [j \in Job |-> IF j = Drop \/ jpc[j] = "new" THEN "new" ELSE "end"]
  /\ must' = [j \in Job |-> {}] /\ may' = [j \in Job |-> {}]
  /\ at' = [j \in Job |-> 0]
  /\ busy' = FALSE
  /\ dpc' = "idle" /\ doomed' = NoFile
  /\ stranded' = stranded \cup {k \in Key : status[k] = "converting"}
  /\ UNCHANGED <<diskVars, rowVars, tiles, reuploaded, contested, made>>

-----------------------------------------------------------------------------
Scanning ==
  \/ List \/ ReadKnown \/ Stat \/ Pause \/ FoundDup \/ NotDup \/ InsertRow
  \/ FolderDone \/ Kick
  \/ \E f \in File : BeginFile(f)

Uploading(u) == WaitTurn(u) \/ SaveFile(u) \/ UploadRow(u)

Converting(j) ==
  \/ ReadRows(j) \/ RowsDone(j) \/ StartWarp(j) \/ Tiled(j) \/ SourceGone(j)
  \/ ClearTiles(j) \/ Publish(j) \/ Check(j) \/ Record(j)
  \/ \E k \in Key : TakeRow(j, k)

Next ==
  \/ \E f \in File : Copy(f)
  \/ Tick \/ Scanning \/ SkipFile \/ ScanFails
  \/ \E u \in Upload : Uploading(u) \/ UploadFails(u)
  \/ \E c \in Call : StartCall(c)
  \/ \E j \in Job : \/ Converting(j) \/ JobFails(j) \/ PublishFails(j)
                    \/ CallFails(j)
  \/ \E k \in Key : DeleteRow(k)
  \/ RemoveSource \/ RemoveTiles \/ Restart

Spec == Init /\ [][Next]_vars

(***************************************************************************)
(* Fairness: the interval fires, what the server has begun goes on (GDAL   *)
(* runs without a limit of time, and ends), and an upload that polls for   *)
(* its turn gets one.  Nobody is obliged to copy, upload, convert or       *)
(* delete.                                                                 *)
(***************************************************************************)
FairSpec ==
  /\ Spec
  /\ WF_vars(Tick) /\ WF_vars(Scanning)
  /\ \A u \in Upload : WF_vars(Uploading(u))
  /\ \A j \in Job : WF_vars(Converting(j))

-----------------------------------------------------------------------------
(* Properties *)

\* One registration at a time (aerialWorkGate.ts:2-3), whoever began it, and
\* the folder check's refused attempts take nothing from the one under way.
Registering == {u \in Upload : upc[u] \in {"save", "insert"}}

GateExcludes ==
  /\ \A u, w \in Registering : u = w
  /\ spc \in {"dup", "insert"} => Registering = {}

\* The folder check lists the files and reads the rows long before it inserts;
\* an upload of the same file in between does not leave the file with two
\* rows.  Only an upload over a file that already has a row does.
NoDoubleRow ==
  \A k, l \in Key :
    Live(k) /\ Live(l) /\ path[k] = path[l] => k = l \/ path[k] \in reuploaded

\* A row is "done" only while its tiles are there: whatever failed or was cut
\* off, unless its directory was in two hands at once.  KeepsCatalogue implies
\* it.
DoneHasTiles ==
  \A k \in Key :
    status[k] = "done" /\ tiles[DirOf(k)] = "none" => DirOf(k) \in contested

Catalogue == INSTANCE TileCatalogue WITH
  NoDir <- NoFile,
  dir   <- [k \in Key |-> DirOf(k)],
  mixed <- contested

\* Folder check, uploads, conversions, deletions and restarts together do no
\* more than give a directory to one row at a time, retile it while none of
\* its rows says "done", and say "done" of what has tiles; a directory in two
\* hands at once, that of two files with one slug among them, harms no other.
KeepsCatalogue == Catalogue!Spec

\* Every file of the folder gets its row, also one whose upload broke off
\* before the row was written; pauses, conversions and restarts only delay it.
FileRegistered ==
  \A f \in File : stamp[f] # 0 ~> (Registered(f) \/ stamp[f] = 0)

\* Every registered file is tried, even if nobody starts its conversion and
\* the folder check was too busy to.
RowTried ==
  \A k \in Key : status[k] = "pending" ~> status[k] # "pending"

\* A conversion that has begun ends in "done" or "failed", unless the server
\* was restarted under it or could not write the row.
ConversionEnds ==
  \A k \in Key :
    status[k] = "converting" ~> (status[k] # "converting" \/ k \in stranded)

\* "done" says that the last conversion of the row has made its tiles.
DoneIsMade ==
  \A k \in Key : status[k] = "done" => k \in made \/ DirOf(k) \in contested
=============================================================================

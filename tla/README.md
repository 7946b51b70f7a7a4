# Verification of the portal's source update and background services

This directory verifies parts of 공간누리 v7 (ggnr_v7), a GIS portal built with
Next.js on PostGIS and GeoServer and run on Windows servers under nssm.

Its most delicate code is the one that **replaces the portal's own source while
the portal is running**: a package is unpacked and type-checked, a user
answers a dialog, the live workspace is overwritten file by file, rebuilt, and
a launcher restarts the server.  Three actors (requests, timers, the launcher)
and two stores (memory, which a restart loses, and disk, which it keeps) take
part, and little of their interplay is tested.

Next to it run **background services** that share tables and files with users
and with each other: the analysis of road videos, the replacement of land
registry tables, the drop folder of drone imagery, and the loading of
occupation fees from the tax office.

Each of them is a module of its own with the runs that TLC checks and the
theorems that TLAPS proves.  Each also has an abstract specification, which
says what it promises to those who do not know how it works, and which it is
shown to implement: by TLC on an instance, and by proof for every instance.

## 1. Inventory

Paths are relative to the repository's `src/`; `service/`, `lib/` and
`integrations/` are in `src/src/`.

### The source update pipeline

| component | state | operations | interacts with |
|---|---|---|---|
| apply lock (`service/sourceApplyLock.ts`) | `applyOwner`, in memory | tryAcquire, release (owner only) | prepare, commit, discard |
| prepare (`applySourceZipFile`, `service/sourceVersionService.ts`) | unpacked package, pending session in a Map and in a JSON file, 30-minute timer | unpack, count, type check, park | lock, staging, timer |
| confirm / abort / time-out (same file) | the pending session | take it out of the Map or revive it from its file; commit or discard | lock, workspace, history |
| commit (`executePreparedSourceApplyCommit`) | live workspace, rollback snapshot, `.next`, GeoServer | stop GeoServer, back up, merge, build, roll back, release | GeoServer, npm |
| orphan clean-up (`service/sourceApplyOrphanCleanup.ts`) | live workspace | delete managed files the package lacks | runs after the lock is released |
| restart request (`writeRestartSignal`, `scheduleRestart`) | `.cursor-runtime/restart-request.json` | write, consume, flush | server and launcher both write the file |
| launcher (`scripts/run.ts`) | child process, relaunch flags | poll, kill, wait for the port, spawn, close handler | restart request, nssm |
| history flush (`service/flushPendingVersionHistory.ts`) | the pending row in the restart request | insert, write the file back | database, boot of the server |
| relay (`service/sourceVersionRelayService.ts`, `lib/sourceVersionClientRelay.ts`, `service/gnmsSourceFetchService.ts`) | chunk directory, meta.json | init, chunk, complete, abort | prepare |
| staging and build check (`service/sourceApplyStagingService.ts`, `service/sourceBuildCheckService.ts`) | staging tree, in-flight flag | overlay, type check | prepare, a user's own check |

What makes them correct: one apply at a time; the lock is always given back;
nobody deletes or releases what another is using; a commit is all or nothing;
a cancelled apply changes nothing; a restart that was asked for happens once;
a success is recorded exactly once.

### The background services

| component | state | operations | what is hard | what makes it correct |
|---|---|---|---|---|
| road videos (`integrations/roadVideoTrackScheduler.ts`, `service/roadVideoTrackService.ts`, `lib/roadVideoTrack.ts`) | a row per video, its anchors, one worker | open a video, tick, pick, analyse, save | files and requests change while an analysis of up to 90 minutes runs | no request is forgotten; a result is of the file it names |
| land registry tables (`integrations/krasLandFileSync.ts`, `integrations/core.ts`) | a table under up to three names, an advisory lock | lock, download, load, swap, unlock | the lock belongs to a connection, the code uses a pool; DDL in several statements | servers exclude each other; what is published is a whole download |
| drone imagery (`integrations/aerialDroneFolderScheduler.ts`, `lib/aerialWorkGate.ts`, `service/aerialUploadService.ts`, `service/aerialOrthoService.ts`, `service/orthophotoService.ts`) | the drop folder, a gate, rows of `tif_unit`, tile directories | scan, upload, convert, delete | scan, uploads and conversions meet over the same file | a file is registered once; "done" has tiles |
| occupation fees (`lib/nextGenLinkage/*`, `integrations/useFeeSyncScheduler.ts`) | fee rows, one entry of the job log per year | range of years, count numbers, B-1 and B-2, upsert | bills are issued and paid while the run counts; any step may fail | no year and no bill is left out; a paid bill is not due |
| safety inspection (`lib/fmsLinkage/syncRunner.ts`) | inspection rows | ask for changes, upsert | FMS keeps what was already handed out | not modelled |

### The rest of the portal

| component | state | why it is not modelled |
|---|---|---|
| sign-in (`auth.ts`) | failure counter, read, raised and written in three statements | the counter locks nobody out: it informs an administrator |
| GeoServer control (`service/geoserverProcessService.ts`) | process, port | as its callers see it, in `SourceApply` and `RestartHandoff` |
| control switches (`lib/systemControlStore.ts`), maintenance mode (`lib/maintenanceMode.ts`) | one row; one file | upsert of one row; maintenance mode is wired to nothing |
| layers, ledgers, drawings, permissions, uploads | PostGIS tables, files | their correctness is that of SQL and geometry |
| user interface, deployment scripts, Python pipeline | - | rendering, and external programs |

The hazards, each at its line and with the properties about it, are in
`PROJECT.json`.

## 2. Modules

| module | models |
|---|---|
| `SourceTree` | the workspace: contents by path; snapshot, restore, orphans |
| `SourceApply` (EXTENDS `SourceTree`) | prepare, answer, commit, tail, stop and boot of the server |
| `AtomicUpdate` | what an apply promises, implemented by `SourceApply` |
| `RestartHandoff` | server, launcher and the file they share |
| `OwedRow` | what the hand-off promises for the success rows, implemented by `RestartHandoff` |
| `RoadVideoTrack` | users who open videos, the files, and the worker |
| `VideoResults` | what the rows of videos promise, implemented by `RoadVideoTrack` |
| `KrasSync` | runs of several servers, their connections, and the table |
| `TableReplacement` | what replacing the table promises, implemented by `KrasSync` |
| `AerialDrop` | folder check, uploads, conversions and deletion of drone TIFs |
| `TileCatalogue` | what the rows and tiles promise, implemented by `AerialDrop` |
| `FeeSync` | the tax office and the run that loads its bills |
| `FeeLedger` | what the table of bills promises, implemented by `FeeSync` |
| `MC...` | instances for TLC |
| `SourceApplyProofs`, `SourceUpdateProofs`, `RestartHandoffProofs`, `RoadVideoTrackProofs`, `KrasSyncProofs`, `AerialDropProofs`, `FeeSyncProofs` | theorems |

In every module a step is the code between two awaits (or two statements that
another process can come between), `pc` or a variable like it is the await at
which a task stands, and constants named `Max...` are bounds of the model, not
of the code, unless their comment names the setting of the code they stand for.

### SourceApply and SourceTree

Every apply attempt is a *session* and a task of its own (its prepare, then its
timer callback); confirm and abort requests are further tasks.

| variables | code |
|---|---|
| `lock` | `applyOwner` |
| `mem`, `file` | `pendingSchemaSessions` and `pending-schema-confirm/<id>.json` |
| `tmp` | the unpacked packages (`tmpBase`) |
| `expired` | the passing of `PENDING_SCHEMA_TTL_MS` |
| `job`, `left`, `snap` | a request's session, the files of its current loop, its rollback snapshot |
| `live`, `built` | the workspace; what `.next` was built from |
| `geo`, `geoBoot` | GeoServer answers; the launcher's background start is still to come |
| `up`, `due`, `stops` | the server process |
| `log` | `mng_version_history` |
| `current`, `applied`, `revived`, `mishap` | history variables of the properties |

`Acquire ... RegisterPending`, `FailPrepare`, `FailBeforeTry` are the prepare;
`AnswerFromMap`, `AnswerFromFile`, `Revive`, `Timeout`, `DeletePendingFile`,
`Discard` the answers; `StopGeoServer ... CommitDone`, `CommitThrows`,
`RollBack`, `CommitFailed` the commit; `CleanOrphan ... FinishFails` what
`confirmPendingSchemaApply` does after the lock is released; `Stop`, `Boot`,
`GeoServerAtBoot` the process.  Errors the code swallows (`.catch(() => {})`)
occur when their name is in `Swallowed`; errors it propagates always may.

### AtomicUpdate

One session at a time holds the right to change the workspace and ends by
installing its whole package in one step, by being cancelled, or by giving up;
then files the package lacks are trimmed one by one.  `SourceApply` implements
it (`AppliesAtomically == Update!Spec`) under this mapping:

| `AtomicUpdate` | `SourceApply` |
|---|---|
| `tree` | `Settled`: the live files, or, while a commit is merging, what putting its snapshot back would give |
| `installed`, `accepted` | `current`, `applied` |
| `cancelled` | the sessions recorded as cancelled in `log` |
| `holder` | `lock` |
| `sound` | `Undisturbed`: no session revived from disk and no `mishap` but GeoServer's background start |

A package becomes installed at the moment its commit is complete, although its
files have been there since the merge: until then a failure takes them back.
The mapping leaves out protected paths, which a roll-back does not restore.

### RestartHandoff

The restart file is the record `signal` with the fields the code reads.  Each
Next process is `"boot"`, `"listen"`, `"insert"`, `"rewrite"` or `"ready"`, and
keeps in `raw` what its flush read, since the flush writes all of it back.  The
launcher is `"down"`, `"start"`, `"main"` or `"watch"`; `relaunch` tells how far
`relaunchNextOnly` is, and `waiting` counts relaunches that wait for the port a
second time, when `relaunchInFlight` is already cleared (`StillBusy`,
`RespawnLate`).  The launcher writes the file back as well, whole: with the
consumed mark (`Mark`), and with the command it was started by (`RecordBoot`);
`seen` is what it read.  Each of them is a read and a write in one turn, but a
server, another process, may write in between when `Torn` is set.  A mark that
cannot be written is swallowed (`MarkFails`).  `KillNext` has the three outcomes of a SIGTERM to a
child started through a shell: it dies, it drains its connections
(`"lingers"`), or only the shell dies and the server serves on (`"orphaned"`,
the usual outcome on Windows).  Processes and the whole machine may die, and
marks may fail to be written, `MaxFaults` times.

`OwedRow` forgets processes, port and file: an apply owes its row when it
finishes, and one step settles it.  `RestartHandoff` implements it
(`OwesOneRow`).  `owed` is the apply of the row in the file, but nobody's from
the insert on: the write-back that follows only removes from the file what has
been settled.  A process that ends in between is `Interrupt`, after which the
row may be recorded again.

### RoadVideoTrack

| variables | code |
|---|---|
| `file`, `newest`, `settled` | the videos on disk: size and time of change as a version; not written to for `UPLOAD_SETTLE_MS` |
| `asked`, `status`, `ver`, `anchors` | a video's row and its anchors |
| `opc`, `wants`, `saw` | a user's opening request between its awaits |
| `pc`, `listed`, `attempted`, `cur`, `stat`, `started`, `read` | the worker and its local variables |
| `stopped` | the analyser is not installed |
| `unmet`, `promised` | history: requests not answered yet; versions promised to a user |

`Open` is the `stat` of a user's request, `UpToDate`, `AlreadyQueued`,
`NeedsRequest` and `WriteRequest` its select and upsert.  `Tick`,
`ListRequests`, `SkipUnsettled`, `Pick`, `FileGone`, `MarkMissing` lead the
worker to a video; `StartAnalysis`, `Analyze`, `SaveDone`, `SaveFailed`,
`DeleteAnchors` are the analysis, whose file is read long after its stamp was
taken; `RunFails` and `Restart` end a run anywhere.

`VideoResults` forgets users under way, lists and worker: a video is asked for,
and only then gets a result, in one step, of no older version than before, and
with anchors of the version it names if the file still has that one.  It is
implemented (`KeepsResults`) with `waiting` as the videos whose `asked` is not
0; everything between the look at a file and the save maps to nothing.

### KrasSync

`held[c]` counts how often connection `c` has PostgreSQL's session lock: it is
re-entrant and ends with the connection.  `Acquire`, `Busy` and `Unlock` run on
*any* free connection of the run's pool, which is what the code's two separate
pool queries do, and `CloseIdle` closes a connection left free for
`idleTimeoutMillis`.  `Fetch ... Count` load the download into
`<table>_krastmp`; `DropOld ... Cleanup` swap it in through
`<table>_krasold`; `StatementFails` and `Crash` may come at any statement.  A
table is the set of (download, batch) pairs it holds.  `lapsed` and
`overlapped` are history: a lock lost with its connection, and two runs past
the lock at once.

`TableReplacement` forgets lock, runs and statements: a download is staged,
published in two steps between which there is no table, and the one it replaces
is kept aside and put back if need be.  It is implemented (`ReplacesWhole`) with
`shown` and `kept` as the table and `<table>_krasold`, `staged` as
`<table>_krastmp` while a run that has counted it is at its swap (`Staged`; what
is being loaded is no download yet), and `sound` as `~overlapped`.  Two things
in it are weaker than one may wish, because the code is: when a fault has left
no table, any download may be staged, since there is nothing to compare with
(`Stage`), and the copy kept aside may be dropped (`Forget`), since the staged
one is still there.

### AerialDrop

A TIF on disk is its `stamp`; its tiles are in `tiles[Slug[f]]`, a directory that
files of one slug share (`sanitizeTifOutputSlug`); `DirOf` is the directory of a
row.  `watch` is the folder check's memory of the last stamps; `held` is the
gate.  The folder check is `Tick, List, ReadKnown, Stat,
Pause, FoundDup, NotDup, InsertRow, SkipFile, FolderDone, Kick`, with its local
variables kept between awaits; an upload is `WaitTurn, SaveFile, UploadRow`; a
conversion, of a user or of the folder check, is `ReadRows, TakeRow, StartWarp,
SourceGone, ClearTiles, Publish, Check, Record, RowsDone`, working from the
rows as it read them: those it `must` convert and those it `may` convert anew.
`DeleteRow, RemoveSource, RemoveTiles` delete a row; `Restart` stops everything.
A removal of a directory whose failure is swallowed leaves all or a part of it
(`RemoveDirectory`).  History: `contested` (directories in two hands at once),
`reuploaded`, `made`, `stranded`.

`TileCatalogue` forgets the check, the gate and the jobs, and of files it knows
only the directory of their tiles: it belongs to one row, its tiles change only
while that row does not say "done", and the row says so only of tiles that are
there.  It is implemented (`KeepsCatalogue`) with rows and tiles as they are,
`dir` as `DirOf` and `mixed` as `contested`.  It promises this for each
directory until that one has been in two hands at once, as that of two
registered files with one slug is; what happens to a mixed directory (`Mix`) may
change its own rows and tiles and nothing else, so that one is no excuse for
another.

### FeeSync

The tax office is part of the model: `issued`, `due` and `receipts` change
between any two answers (`Issue`, `Pay`, `NewYear`).  `Start` and
`ResolveYears` fix the range of years, from the newest stored one;
`BeginYear ... EndYear` count numbers for B-1 (bills due) and B-2 (receipts)
until `MaxEmpty` answers in a row are empty.  `Save` is the upsert: a row
without a serial is a due bill and becomes the row of the first new receipt.
`AskFails`, `SaveFails`, `EndYearFails`, `LogFailed`, `Crash` are the failures.
History: `scanned`, `jumped`, `complete`, and what was due and paid when the scan
of this year began (`dueThen`, `paidThen`).

`FeeLedger` forgets runs, years and counting: bills are issued and paid, a bill
is noted as due while it is due or while a receipt of it has still to be
written, and a receipt is written once it exists, in the place of the row of the
due bill.  It is implemented (`KeepsLedger`) with the variables of the same
names.

## 3. Runs

| run | instance | shows |
|---|---|---|
| `apply_lock` | 2 sessions, both with a restart, 2 requests, 1 file, 1 stop besides the restarts | `CommitUnderLock`, `CommitsExclude`, `LockAccounted`, `PackageKept` |
| `apply_merge` | 2 sessions, both with a restart, 2 requests, 3 files (one protected, one that the second package orphans), restore and clean-up errors | `PackageWhole`, `CancelLeavesNoTrace`, `GeoStoppedWhileMerging`, `BuildMatches`, and the refinement `AppliesAtomically` |
| `apply_live` | 2 sessions, 1 request, 1 stop, fairness | `LockReleased` |
| `handoff_safe` | 2 applies, 3 processes, 2 faults, failing inserts, writes and forced kills | `LastRowKept` and the refinement `OwesOneRow` |
| `handoff_live` | 2 applies, 3 processes, 2 faults, fairness | `RestartHappens`, `RowRecorded` |
| `handoff_ends` | the same with 1 fault (a death, or a mark that is not written), all kill outcomes, servers that write between the launcher's read and write-back (`Torn`), failing forced kills | `RestartsEnd` |
| `video` | 2 videos, 2 users, 1 change of a file, 2 requests written, 1 error or restart, fairness | `RequestKept`, `QueuedIsAnalysed`, `RequestWorkedOff`, and the refinement `KeepsResults` |
| `kras` | 2 runs of one server over 2 connections, 1 of another over 1, 1 fault | `ProcessesExclude`, `TableWhole`, `CopyKept`, and the refinement `ReplacesWhole` |
| `aerial` | 2 files that share a directory of tiles, one copied and one uploaded (the same or the other), a user's conversion beside the folder check's, 2 rows, 1 mishap | `GateExcludes`, `NoDoubleRow`, and the refinement `KeepsCatalogue` |
| `aerial_live` | 1 file copied and uploaded, the folder check's conversion, 2 mishaps, fairness | `FileRegistered`, `RowTried`, `ConversionEnds` |
| `aerial_made` | as `aerial`, 3 rows | violates `DoneIsMade` (below) |
| `fee` | 2 years of 3 numbers, a gap of 2, 2 receipts, 3 events at the tax office, 1 fault, fairness | `NoYearLeftOut`, `ReportedComplete`, `PaymentsArrive`, `BillsArrive`, and the refinement `KeepsLedger` |

Each run but the liveness ones also checks its module's `TypeOK`.

Four invariants of the modules are not in this table, since each says no more
than a refinement that is in it: `RecordedOnce` (`OwesOneRow`),
`ResultIsOfFile` (`KeepsResults`), `DoneHasTiles` (`KeepsCatalogue`) and
`PaidNotShownDue` (`KeepsLedger`).  The abstract specifications state them as
`Accounted`, `Matched`, `Sound` and `Balanced`; section 4 says that they follow,
and each is also proved of its own module directly.

### Why the bounds are enough

- **Source update.**  The hazards need two sessions (one holds what the other
  takes), two requests for one session, one stop, and a package that
  overwrites, creates and orphans a file.  In `apply_merge` both sessions
  restart, so that the second may be refused or rolled back over the build of
  the first; the only stops of that run are those restarts.
- **Hand-off.**  Two applies (the second meets the leavings of the first) and
  three processes (an old server, its successor and the one started after a
  fault).  `rows` is capped at 2: more than once is what a property asks.
- **Videos.**  Two videos, so that one waits while the other is analysed; two
  users, so that one writes a request while the other's is read; a second
  version and a second request, which come between any two awaits.
- **Land registry.**  A pool of two connections is the smallest in which an
  unlock misses its lock; a second run of the same server is what may then hit
  it; a run of another server is what must stay out.
- **Drone imagery.**  Names are compared and slugs are shared, so two files with
  one directory show both a file with a second row (copied and uploaded) and a
  directory with a second file.  Two rows are two hands, and let a file be
  registered, deleted and registered again; two conversions and one deletion let
  the hands meet.  `MaxRows` also ends registration: nobody begins one once the
  keys are used up (`Room`).  That a directory in two hands harms no other is
  not seen with one directory, and is proved (`ImplementsCatalogue`).  The
  liveness properties are about one file, which `aerial_live` gives three rows.
- **Fees.**  A gap of two needs three numbers; two receipts settle a bill in
  parts; two years are a year and an earlier one.

Requests, processes, and the runs of one server are interchangeable (in
`apply_lock` sessions too, which there have the same package and mode), and
symmetry is used in safety runs only.  The deadlock check is off where the
system really may rest: every session answered (apply), every apply finished
(hand-off), the analyser missing (videos), every run ended (land registry).

### What the exceptions stand for

The passing properties name the cases in which the code does less than one may
expect of it.  They are properties of the code, found by leaving the exception
out:

- `revived` (apply): after a restart, a parked session is read back from its
  file and commits without the lock (`sourceVersionService.ts:612`); a second
  confirm may revive the session that the first is committing, since the Map
  entry goes before the file (`:839`).
- `"leaked"` (apply): a prepare that throws before its `try` block (`:1148`
  to `:1198`) keeps the lock until the server is restarted.
- `mishap` (apply): a stop inside a commit, a file that could not be restored,
  an orphan clean-up that ran into the next commit, and the launcher's
  background start of GeoServer.  Nothing undoes the first: the snapshot lies in
  a temporary directory that the next server does not know.
- `LastRowKept` speaks of the *last* apply: one that finishes before the row of
  the previous one is recorded overwrites that row (`:905`).
- `handoff_safe` and `handoff_live` leave `"lingers"` out: a server that drains
  may finish an apply while its successor flushes, and the write-back then
  overwrites the newer request.
- They also leave `Torn` out.  The launcher reads the file (`scripts/run.ts:505`,
  `:611`, and `ggnrBootCommand.ts:91`) and writes all of it back (`:241`, `:97`)
  in one turn, without a lock; a server that finishes an apply in that instant
  loses its request and its row.  With `Torn`, `LastRowKept`, `RestartHappens`
  and `RowRecorded` are violated.
- `MaxFaults` (`RestartsEnd`): `markRestartConsumed` swallows a failed write
  (`scripts/run.ts:246`), and the next poll finds the request again.  A file that
  can be read but never written is relaunched for ever; restarts end when the
  mark is written in the end.
- `RestartsEnd` with all kill outcomes: `nextProc.killed` (`scripts/run.ts:541`)
  says that a signal was sent, so the launcher may end because of a child it
  terminated itself, and nssm starts it again.
- `cur # v` (videos): a user told "queued" during the analysis of that very
  video waits for the result of the older file, after which nothing asks for
  the new one until the video is opened again (`roadVideoTrackService.ts:160`).
- `lapsed` (land registry): the pool closes the connection that holds the lock
  after 30 idle seconds, while the download goes on over others
  (`database/db.ts`), and the lock is gone.
- `overlapped` (land registry): the lock is re-entrant on its connection, so
  two runs of one server may both get past it (`core.ts:34`) although the
  second should be told `이미 실행 중입니다.`; they share `<table>_krastmp`.  After
  a crash between the two renames there is no table to compare with, and a
  suspiciously short download may be published: `TableWhole` is about whole
  downloads, long or short.
- `Broken` (apply): a build that fails half way may leave a `.next` that was built
  from nothing whole, and no snapshot helps (`BuildMatches`).
- `reuploaded`, `contested` (drone imagery): an upload inserts a row without
  looking for one of the same path, and two rows, or a conversion and a
  deletion, then share one directory of tiles.
- `contested` also stands for two *different* files with one directory.
  `sanitizeTifOutputSlug` (`aerialOrthoService.ts:55`, used at `:369`) turns every
  run of characters outside `[A-Za-z0-9_-]` into one `_`, drops `.tif` and `.tiff`,
  cuts the name to 80 characters and calls what is left of an empty one
  `ortho_tif`; names that are Korean but for a number easily meet.  Converting
  one of the two replaces the tiles of the other, and deleting one removes them,
  while the other's row goes on saying "done".  The list of checks in
  `docs/reports/20260818_1318_드론영상속성수정.md:68` expects otherwise
  ("파일 한 건 삭제 시 해당 원본과 변환 타일만 사라지고 다른 파일은 남아야 한다.").
- `stranded` (drone imagery): a row whose conversion a restart has cut off stays
  `converting`, and later conversions skip it.
- `jumped` (fees): a user who asks an empty table for one later year makes it
  the newest stored one, and earlier years are never loaded.
- `OutOfReach` (fees): a bill of a year before the newest stored one, or behind
  a gap of `USE_FEE_SYNC_MAX_EMPTY_COUNT` numbers, is not asked for again.

### The violation

`aerial_made`: a row becomes `done` although its last conversion failed.
`runAerialOrthoTifToXyz` (`orthophotoService.ts:2554`) looks for any directory
of tiles, and the tiles of an earlier conversion, or a part of the new ones,
satisfy it.  What does hold is that there are tiles (`DoneHasTiles`).

### Fairness

- `SourceApply`: weak fairness of each task's steps (awaits settle) and of clock
  and timer.  Not assumed: that a user answers, that a stopped server is
  started, that an answer is a confirm.
- `RestartHandoff`: weak fairness of every running process, of the poll, the
  close events, and of nssm, which starts the launcher again whenever it ends.
  Not assumed: that anything is applied.
- `RoadVideoTrack`: the interval fires, the worker's awaits settle (the analyser
  is killed when it takes too long), a file that is not written to settles.
- `AerialDrop`: the interval fires, scans, conversions and uploads go on.
- `FeeSync`: weak fairness of the run's steps, and strong fairness of the nightly
  start, which a user's run may delay but not prevent night after night.

Faults, users, the tax office and the land registry are never obliged to do
anything, and faults are bounded, so that liveness is about what happens after
the last of them.

## 4. Proofs

All theorems hold for every value of the constants that satisfies the named
assumptions `TreeAssumption`, `SourceApplyAssumption`,
`RestartHandoffAssumption`, `RoadVideoAssumption`, `KrasSyncAssumption`,
`TableAssumption`, `AerialAssumption` and `FeeSyncAssumption`.  They give the
constants their shapes (and keep special values such as `NoTable` apart from the
others), and TLC evaluates them on every run.

`SourceApplyProofs`.  `CommitUnderLock` is not inductive: a commit holds the
lock because the task that started it took the session out of the Map, and the
session was in the Map because its prepare held the lock.  `IInv` says so: until
it is revived a session has *one bearer* - its prepare, then its Map entry, then
one task - and the bearer's session owns the lock (`MapBearer`,
`PrepareBearer`, `TaskBearer`, `OneBearer`).  From it follow `TypeCorrect`,
`CommitHoldsLock`, `CommitsAreExclusive`; with `Packages` (the package is on
disk while the session waits) `PackageIsKept`; `LockIsAccounted` has its own
induction on top.

`SourceUpdateProofs`.  The refinement needs more than the lock: `MInv` adds what
a commit knows of its own snapshot (`Bookkeeping`: what was saved and what was
created are together the package), that what it has copied stays copied
(`Copied`), and that a session is decided once (`DecidedOnce`).  The commit
under way is the only one, so `Settled` has one snapshot to put back; copying a
file does not change it, and completing the commit changes it to the whole
package at once.  `Implements` maps every action to a step of `AtomicUpdate` or
a stutter, and from the first disturbance on to `Disturb`; `PackageIsWhole`
follows from it and from `UpdateIsWhole`, which is about `AtomicUpdate` alone.
On the same invariant rest `CancelIsTraceless`, `GeoServerStaysDown` and, with
`BuildFollows`, `BuildIsCurrent`.

`RestartHandoffProofs`.  The write-back of a flush is a lost update waiting to
happen.  It is none because one process at a time has the port (`OnePort`), only
a process on the port flushes or finishes an apply, so the file a flush read is
still that of the last apply when it is written back (`FlushIsLast`), with the
row inserted by then (`FlushInserted`).  The launcher's write-backs lose nothing
either, because what it has read is still in the file (`ReadIsCurrent`), and a
launcher that has not started has no child to relaunch (`Fresh`).  `Single` adds that a pending row is not
in the table unless the flush that inserted it has still to write.  Both need
the assumption `Orderly`, that no terminated server lingers and that no server
writes between the launcher's read and its write-back; `TypeCorrect` does not.
`ImplementsPromise` needs `OInv`: the file still says that a row is pending while
a flush is between insert and write-back, so that `Owed` falls to nobody at the
insert and at nothing else.  Most of the many actions are `Calm` (they touch
neither rows nor the pending row, `MostAreCalm`) and need no case of their own.

`RoadVideoTrackProofs`.  `RequestIsKept` follows from the comparison of
`requested_at` with `startedAt`.  `ResultMatchesFile` needs `Matching`: versions
only grow, so if the file on disk is still the one noted, the analyser has read
that one (`ReadAsNoted`), and the row says "failed" before its anchors go.
`QueuedGetsAnalysed` needs `Promising`: whoever may still write a request for
the video in analysis saw no more than the worker has noted (`NotedAll`).
`ImplementsResults` uses both: `Promising` also says that the worker is only on
videos that are asked for (a request cannot be cleared by anybody else), and
`NotOlder`, that what it noted is not older than what the row says, because a
file that is there is the newest that was seen under its name.

`KrasSyncProofs`.  An unlock through the pool may miss; it can only leave *more*
holds behind than runs at work, never fewer.  `HeldPerRun` states that balance,
with the number of runs at work per process, and `ProcessesAreExclusive` follows.
For the table, `Swap` says what each of the three names holds at each statement
as long as runs do not overlap; `NoFaultNoGap` and `OneFaultOneGap` count the
faults that it takes to leave the table without a name.  `ImplementsReplacement`
needs `Guarded` besides: the download on its way to the table's name was compared
with the very table that is renamed away for it.

`AerialDropProofs`.  `Gate` (a free gate means that nobody registers) gives
`RegistrationsExclude`; `Looked` (between the look for a double and the insert
nobody can add a row of that path, because of the gate) gives `OneRowPerFile`.
`ConvertedHasTiles` needs `Tiling`, about directories, not files: an uncontested
directory has one row (`OneRow`) and one conversion (`OneWorker`), which two files
with one slug cannot have without contesting it; no row of it is "done" while that conversion
may clear the tiles (`WorkedNotDone`), and a deletion takes the row before the
tiles, so that neither the row nor a conversion still at work on it can say
"done" afterwards (`DoomedNotDone`, `DoomedLetGo`).  `ImplementsCatalogue` adds
`Marked`, that the row a conversion is at says "converting", so that whoever
records a result answers for a row that was taken.

`FeeSyncProofs`.  `Years` says that everything below the year a run has reached
was scanned.  `DueRows`: the row of a bill that is no longer due exists only
while one of its receipts has still to be written, also while an older answer is
on its way to the table.  `Loaded` is the loop invariant of the count: below the
number everything answered is stored, and the last `empty` numbers were not
answered.  `ImplementsLedger` needs `DueRows` only: what a scan is about to write
is still what the tax office would stand for.

**What the abstract specifications are worth** is proved of them alone, so that
it holds of whatever implements them:

| specification | implies | in words |
|---|---|---|
| `AtomicUpdate` | `Whole` | until a disturbance the package installed last is there whole, everything else is older |
| `TableReplacement` | `OneCopy` | one fault leaves a whole download under one of the names |
| `OwedRow` | `Accounted` | the last row is recorded or owed; none is recorded twice before an interruption |
| `FeeLedger` | `Balanced`, `KeepsReceipts` | a settled bill whose receipts are stored is not due; no receipt is lost, none is invented |
| `TileCatalogue` | `Sound`, `TilesStay` | a directory that was never in two hands has one row; "done" has tiles, and they do not change while it stays "done" |
| `VideoResults` | `Matched`, `ResultsStay` | a result of the present file has its anchors; a result nobody asked to replace stays, none gives way to an older one |

`KeepsReceipts`, `TilesStay` and `ResultsStay` are action properties, and say of
two states what no invariant of the modules says.

Every safety property of the passing runs is proved.  Only model-checked are
the liveness properties (`LockReleased`, `RestartHappens`, `RowRecorded`,
`RestartsEnd`, `RequestWorkedOff`, `FileRegistered`, `RowTried`,
`ConversionEnds`, `PaymentsArrive`, `BillsArrive`), which are out of the
prover's reach.

## 5. Not modelled

In the modelled components:

- Taking and restoring a snapshot of the workspace are one step each: only a
  stop of the server could be seen half way, and `mishap` excludes the outcome
  of such a stop anyway.  The merge and the orphan clean-up go file by file.
- Legacy sessions that were merged before they were parked (`prepareOnly` false)
  are not created by any caller; maintenance mode is switched off by the constant
  `MAINTENANCE_MODE_WIRED`; the snapshot of `node_modules` is part of `Build`.
- The build and `npm install` inside `relaunchNextOnly`: the request that the
  server writes asks for neither.  The forced end of who holds the port
  (`FreePort`, Windows only) may fail in `handoff_safe` and `handoff_ends`;
  `handoff_live` assumes it does not, since a process that nobody can end keeps
  the port for ever.
- Time: a timer may fire any time after its session expires; delays of the
  launcher are only kept where they order events (`Respawn` after the close
  events of the killed child).  In `RoadVideoTrack` database and Node share one
  clock: a skew of the two may clear a request that is newer than its analysis.
- Readers of road videos, who may pair a row with the anchors of the next save.
- In `KrasSync` one table under one key; rows are two batches.  The layers of
  `krasLayerSync.ts` and the ownership column work under the same lock, each in
  its own way.
- In `AerialDrop` a file is whole or absent: a copy that stalls through two
  checks is registered half copied, and the code has no sign to tell.  Photos,
  videos and panoramas pass the same gate but have no conversion.
- In `SourceApply` `Discard` is one step for several awaits; the lock is released
  (`sourceVersionService.ts:561`) before the row "cancel" is inserted (`:525`,
  `:1005`), and no step of an apply reads that row.
- In `RoadVideoTrack` the version of the analyser, which `IsCurrent` leaves out
  (`roadVideoTrackService.ts:165`): it is a constant of a release, and an upgrade
  asks for every result anew.
- In `FeeSync` the geometry of a row and the CSV copy.  A user's run is about one
  year; the list of years that a user may give (`syncRunner.ts:85`) is run here
  as one run per year.  `WithReceipt` takes it that a receipt carries the number
  of its bill (`taxnNo`): where the tax office sends another one, the code finds
  no due row and inserts the receipt beside it (`upsertFee.ts:302` to `:345`).

Components left out: those with the status `not_modelled` in `PROJECT.json`.
Most of the repository is user interface, SQL over PostGIS and file formats; it
has little state of its own that steps of several actors share, and its
correctness is not that of a protocol.

## 6. Plan

1. Proofs: the safety parts that liveness rests on, so that a run which cannot
   end is excluded for every instance (a worker or a commit always has a next
   step).
2. `VersionRelay`: chunked upload, complete and abort of a relayed package; two
   completes at once; a chunk that arrives during the assembly.
3. Composition of `SourceApply` with `RestartHandoff` (an apply whose restart
   meets the next prepare), with the "ready" answer taken from an earlier flush
   (`flushPendingVersionHistory.ts:51`).
4. The flag of the type check that prepares and users share
   (`sourceBuildCheckService.ts:71`).
5. `fmsLinkage` and the tables of `krasLayerSync.ts`.

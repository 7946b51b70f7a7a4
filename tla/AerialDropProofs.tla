-------------------------- MODULE AerialDropProofs --------------------------
(***************************************************************************)
(* What AerialDrop guarantees for every number of files, uploads and       *)
(* conversions: registrations exclude each other, only an upload over a    *)
(* registered file gives a file two rows, and the directory of a row that  *)
(* says "done" has tiles, unless it was in two hands at once.              *)
(***************************************************************************)
EXTENDS AerialDrop, TLAPS

\* A row that a conversion has read exists, or existed.
ReadTaken ==
  \A j \in Job : \A k \in must[j] \cup may[j] : status[k] # "free"

Typed == TypeOK /\ ReadTaken

USE DEF diskVars, localVars, scanVars, rowVars, jobVars, delVars, histVars,
        besidesScan, besidesUpload, besidesJob, workVars

-----------------------------------------------------------------------------
(* Types *)

LEMMA InitType == Init => Typed
<1> SUFFICES ASSUME Init PROVE Typed
  OBVIOUS
<1>1. mishaps \in 0..MaxMishaps
  BY AerialAssumption DEF Init
<1>2. status \in [Key -> RowStatus \cup {"free", "deleted"}]
  BY DEF Init
<1>4. /\ must \in [Job -> SUBSET Key] /\ may \in [Job -> SUBSET Key]
      /\ ReadTaken
  BY DEF Init, ReadTaken
<1>5. /\ jpc \in [Job -> JobStep] /\ at \in [Job -> Nat]
      /\ \A j \in Job : jpc[j] \in InJob => at[j] \in Key
  BY DEF Init, JobStep, InJob
<1>6. \A k \in Key : (path[k] = NoFile) <=> (status[k] = "free")
  BY DEF Init
<1>7. /\ stamp \in [File -> Nat] /\ watch \in [File -> Nat]
      /\ tiles \in [Directory -> {"none", "part", "whole"}]
      /\ path \in [Key -> File \cup {NoFile}]
      /\ upc \in [Upload -> {"new", "save", "insert", "end"}]
  BY DEF Init
<1>8. nextKey \in Nat \ {0} /\ writes \in Nat
  BY DEF Init
<1> QED
  BY <1>1, <1>2, <1>4, <1>5, <1>6, <1>7, <1>8, Zenon DEF Init, Typed, TypeOK, ScanStep

\* Rows are added by the folder check and by uploads alike.
LEMMA AddRowType ==
  ASSUME Typed, NEW f \in File, AddRow(f)
  PROVE  /\ nextKey' \in Nat \ {0}
         /\ path' \in [Key -> File \cup {NoFile}]
         /\ status' \in [Key -> RowStatus \cup {"free", "deleted"}]
         /\ \A k \in Key : (path'[k] = NoFile) <=> (status'[k] = "free")
         /\ \A k \in Key : status[k] # "free" => status'[k] # "free"
         /\ contested' \in SUBSET Directory
         /\ made' = made /\ stranded' = stranded
  BY AerialAssumption DEF Typed, TypeOK, AddRow, Room, Key, RowStatus

LEMMA FileType ==
  ASSUME Typed,
         (\E f \in File : Copy(f)) \/ RemoveSource \/ RemoveTiles
           \/ \E k \in Key : DeleteRow(k)
  PROVE  Typed'
<1>1. ASSUME NEW f \in File, Copy(f) PROVE Typed'
  BY <1>1 DEF Typed, TypeOK, ReadTaken, Copy, Touch
<1>2. CASE RemoveSource
  BY <1>2, AerialAssumption DEF Typed, TypeOK, ReadTaken, RemoveSource, Mishap
<1>3. CASE RemoveTiles
  BY <1>3, AerialAssumption DEF Typed, TypeOK, ReadTaken, RemoveTiles, RemoveDirectory
<1>4. ASSUME NEW k \in Key, DeleteRow(k) PROVE Typed'
  <2>1. mishaps' \in 0..MaxMishaps
    BY <1>4, AerialAssumption DEF Typed, TypeOK, DeleteRow, Mishap
  <2>2. path[k] # NoFile
    BY <1>4 DEF Typed, TypeOK, DeleteRow, Live, RowStatus
  <2>3. status' \in [Key -> RowStatus \cup {"free", "deleted"}]
    BY <1>4 DEF Typed, TypeOK, DeleteRow
  <2>4. \A l \in Key : (path'[l] = NoFile) <=> (status'[l] = "free")
    BY <1>4, <2>2 DEF Typed, TypeOK, DeleteRow
  <2>5. ReadTaken'
    BY <1>4 DEF Typed, TypeOK, ReadTaken, DeleteRow
  <2>6. dpc' \in {"idle", "all", "source", "tiles"} /\ doomed' \in File \cup {NoFile}
    BY <1>4, <2>2 DEF Typed, TypeOK, DeleteRow
  <2> QED
    BY <1>4, <2>1, <2>3, <2>4, <2>5, <2>6 DEF Typed, TypeOK, DeleteRow
<1> QED
  BY <1>1, <1>2, <1>3, <1>4

LEMMA ScanType ==
  ASSUME Typed, Tick \/ Scanning \/ SkipFile \/ ScanFails
  PROVE  Typed'
<1> USE DEF ScanGoes, ScanReturns, ScanStep, Prune, FileEnds
<1>1. CASE Tick
  BY <1>1 DEF Typed, TypeOK, ReadTaken, Tick
<1>2. CASE List
  BY <1>2 DEF Typed, TypeOK, ReadTaken, List
<1>3. CASE ReadKnown
  BY <1>3 DEF Typed, TypeOK, ReadTaken, ReadKnown
<1>4. CASE Stat
  BY <1>4 DEF Typed, TypeOK, ReadTaken, Stat
<1>5. CASE Pause
  BY <1>5 DEF Typed, TypeOK, ReadTaken, Pause
<1>6. CASE FoundDup
  BY <1>6 DEF Typed, TypeOK, ReadTaken, FoundDup
<1>7. CASE NotDup
  BY <1>7 DEF Typed, TypeOK, ReadTaken, NotDup
<1>8. CASE InsertRow
  <2>1. cur \in File
    BY <1>8 DEF Typed, TypeOK, InsertRow
  <2>2. AddRow(cur)
    BY <1>8 DEF InsertRow
  <2>3. ReadTaken'
    BY <1>8, <2>1, <2>2, AddRowType DEF Typed, TypeOK, ReadTaken, InsertRow
  <2> QED
    BY <1>8, <2>1, <2>2, <2>3, AddRowType DEF Typed, TypeOK, InsertRow
<1>9. CASE FolderDone
  BY <1>9 DEF Typed, TypeOK, ReadTaken, FolderDone
<1>10. CASE Kick
  <2>1. jpc' \in [Job -> JobStep] /\ \A j \in Job : jpc'[j] \in InJob => at[j] \in Key
    BY <1>10 DEF Typed, TypeOK, Kick, JobStep, InJob, Job
  <2> QED
    BY <1>10, <2>1 DEF Typed, TypeOK, ReadTaken, Kick
<1>11. ASSUME NEW f \in File, BeginFile(f) PROVE Typed'
  BY <1>11 DEF Typed, TypeOK, ReadTaken, BeginFile
<1>12. CASE SkipFile
  BY <1>12, AerialAssumption DEF Typed, TypeOK, ReadTaken, SkipFile, Mishap
<1>13. CASE ScanFails
  <2>1. mishaps' \in 0..MaxMishaps
    BY <1>13, AerialAssumption DEF Typed, TypeOK, ScanFails, Mishap
  <2> QED
    BY <1>13, <2>1 DEF Typed, TypeOK, ReadTaken, ScanFails
<1> QED
  BY <1>1, <1>2, <1>3, <1>4, <1>5, <1>6, <1>7, <1>8, <1>9, <1>10, <1>11, <1>12,
     <1>13 DEF Scanning

LEMMA UploadType ==
  ASSUME Typed, NEW u \in Upload, Uploading(u) \/ UploadFails(u)
  PROVE  Typed'
<1> USE DEF UploadGoes
<1>1. CASE WaitTurn(u)
  BY <1>1 DEF Typed, TypeOK, ReadTaken, WaitTurn
<1>2. CASE SaveFile(u)
  <2>0. writes' \in Nat /\ stamp' = [stamp EXCEPT ![Target[u]] = writes']
    BY <1>2 DEF Typed, TypeOK, SaveFile, Touch
  <2>1. stamp' \in [File -> Nat] /\ writes' \in Nat
    BY <2>0 DEF Typed, TypeOK
  <2>2. upc' \in [Upload -> {"new", "save", "insert", "end"}]
    BY <1>2 DEF Typed, TypeOK, SaveFile
  <2> QED
    BY <1>2, <2>1, <2>2 DEF Typed, TypeOK, ReadTaken, SaveFile
<1>3. CASE UploadRow(u)
  <2>1. Target[u] \in File
    BY AerialAssumption
  <2>2. AddRow(Target[u])
    BY <1>3 DEF UploadRow
  <2>3. ReadTaken'
    BY <1>3, <2>1, <2>2, AddRowType DEF Typed, TypeOK, ReadTaken, UploadRow
  <2>4. reuploaded' \in SUBSET File
    BY <1>3, <2>1 DEF Typed, TypeOK, UploadRow
  <2> QED
    BY <1>3, <2>1, <2>2, <2>3, <2>4, AddRowType DEF Typed, TypeOK, UploadRow
<1>4. CASE UploadFails(u)
  <2>1. mishaps' \in 0..MaxMishaps
    BY <1>4, AerialAssumption DEF Typed, TypeOK, UploadFails, Mishap
  <2> QED
    BY <1>4, <2>1 DEF Typed, TypeOK, ReadTaken, UploadFails
<1> QED
  BY <1>1, <1>2, <1>3, <1>4 DEF Uploading

LEMMA JobTakesType ==
  ASSUME Typed, NEW j \in Job, NEW k \in Key, TakeRow(j, k)
  PROVE  Typed'
<1>1. path[k] \in File
  BY DEF Typed, TypeOK, ReadTaken, TakeRow, Reach
<1>2. contested' \in SUBSET Directory
  BY <1>1, AerialAssumption DEF Typed, TypeOK, TakeRow, DirOf
<1>3. /\ jpc' \in [Job -> JobStep] /\ at' \in [Job -> Nat]
      /\ \A i \in Job : jpc'[i] \in InJob => at'[i] \in Key
  BY AerialAssumption DEF Typed, TypeOK, TakeRow, Reach, JobGoes, JobStep, InJob, Key
<1>4. /\ status' \in [Key -> RowStatus \cup {"free", "deleted"}]
      /\ \A l \in Key : (status'[l] = "free") <=> (status[l] = "free")
  BY DEF Typed, TypeOK, TakeRow, SetStatus, Live, RowStatus
<1>5. /\ must' \in [Job -> SUBSET Key] /\ may' \in [Job -> SUBSET Key]
      /\ ReadTaken'
  BY <1>4 DEF Typed, TypeOK, ReadTaken, TakeRow, Reach
<1>6. made' \in SUBSET Key
  BY DEF Typed, TypeOK, TakeRow
<1> QED
  BY <1>2, <1>3, <1>4, <1>5, <1>6 DEF Typed, TypeOK, TakeRow

LEMMA JobStepType ==
  ASSUME Typed, NEW j \in Job,
         \/ StartWarp(j) \/ Tiled(j) \/ SourceGone(j) \/ ClearTiles(j)
         \/ Publish(j) \/ Check(j) \/ JobFails(j) \/ PublishFails(j)
  PROVE  Typed'
<1> USE DEF JobGoes, JobStep, InJob
<1>1. CASE StartWarp(j)
  BY <1>1 DEF Typed, TypeOK, ReadTaken, StartWarp
<1>2. CASE Tiled(j)
  BY <1>2 DEF Typed, TypeOK, ReadTaken, Tiled
<1>3. CASE SourceGone(j)
  BY <1>3 DEF Typed, TypeOK, ReadTaken, SourceGone
<1>4. CASE ClearTiles(j)
  BY <1>4, AerialAssumption DEF Typed, TypeOK, ReadTaken, ClearTiles, RemoveDirectory
<1>5. CASE Publish(j)
  <2>1. made' \in SUBSET Key
    BY <1>5 DEF Typed, TypeOK, Publish
  <2> QED
    BY <1>5, <2>1 DEF Typed, TypeOK, ReadTaken, Publish
<1>6. CASE Check(j)
  BY <1>6, AerialAssumption DEF Typed, TypeOK, ReadTaken, Check, Mishap
<1>7. CASE JobFails(j)
  <2>1. mishaps' \in 0..MaxMishaps
    BY <1>7, AerialAssumption DEF Typed, TypeOK, JobFails, Mishap
  <2> QED
    BY <1>7, <2>1 DEF Typed, TypeOK, ReadTaken, JobFails
<1>8. CASE PublishFails(j)
  <2>1. mishaps' \in 0..MaxMishaps
    BY <1>8, AerialAssumption DEF Typed, TypeOK, PublishFails, Mishap
  <2>2. tiles' \in [Directory -> {"none", "part", "whole"}]
    BY <1>8 DEF Typed, TypeOK, PublishFails
  <2>3. made' \in SUBSET Key
    BY <1>8 DEF Typed, TypeOK, PublishFails
  <2>4. /\ jpc' \in [Job -> JobStep]
        /\ \A i \in Job : jpc'[i] \in InJob => at'[i] \in Key
    BY <1>8 DEF Typed, TypeOK, PublishFails
  <2>5. ReadTaken'
    BY <1>8 DEF Typed, ReadTaken, PublishFails
  <2>6. /\ UNCHANGED <<stamp, writes, held, watch, spc, listed, known, ready, cur,
                       touched, upc, nextKey, path, status, workVars, dpc,
                       doomed, reuploaded, contested, stranded>>
        /\ busy' = FALSE
    BY <1>8 DEF PublishFails
  <2> QED
    BY <2>1, <2>2, <2>3, <2>4, <2>5, <2>6 DEF Typed, TypeOK
<1> QED
  BY <1>1, <1>2, <1>3, <1>4, <1>5, <1>6, <1>7, <1>8

LEMMA CallType ==
  ASSUME Typed, NEW j \in Job,
         \/ j \in Call /\ StartCall(j)
         \/ ReadRows(j) \/ RowsDone(j) \/ Record(j) \/ CallFails(j)
  PROVE  Typed'
<1> USE DEF JobGoes, JobStep, InJob
<1>1. CASE StartCall(j)
  BY <1>1 DEF Typed, TypeOK, ReadTaken, StartCall
<1>2. CASE ReadRows(j)
  BY <1>2 DEF Typed, TypeOK, ReadTaken, ReadRows
<1>3. CASE RowsDone(j)
  <2>1. /\ must' \in [Job -> SUBSET Key] /\ may' \in [Job -> SUBSET Key]
        /\ at' \in [Job -> Nat] /\ ReadTaken'
    BY <1>3 DEF Typed, TypeOK, ReadTaken, RowsDone, Forget
  <2>2. /\ jpc' \in [Job -> JobStep]
        /\ \A i \in Job : jpc'[i] \in InJob => at'[i] \in Key
    BY <1>3 DEF Typed, TypeOK, RowsDone, Forget
  <2> QED
    BY <1>3, <2>1, <2>2 DEF Typed, TypeOK, RowsDone
<1>4. CASE Record(j)
  <2>1. /\ status' \in [Key -> RowStatus \cup {"free", "deleted"}]
        /\ \A l \in Key : (status'[l] = "free") <=> (status[l] = "free")
    BY <1>4 DEF Typed, TypeOK, Record, SetStatus, Live, RowStatus
  <2>2. ReadTaken'
    BY <1>4, <2>1 DEF Typed, TypeOK, ReadTaken, Record
  <2> QED
    BY <1>4, <2>1, <2>2 DEF Typed, TypeOK, Record
<1>5. CASE CallFails(j)
  <2>1. /\ must' \in [Job -> SUBSET Key] /\ may' \in [Job -> SUBSET Key]
        /\ at' \in [Job -> Nat] /\ ReadTaken'
    BY <1>5 DEF Typed, TypeOK, ReadTaken, CallFails, Forget
  <2>2. mishaps' \in 0..MaxMishaps
    BY <1>5, AerialAssumption DEF Typed, TypeOK, CallFails, Mishap
  <2>3. stranded' \in SUBSET Key
    BY <1>5 DEF Typed, TypeOK, CallFails
  <2>4. /\ jpc' \in [Job -> JobStep]
        /\ \A i \in Job : jpc'[i] \in InJob => at'[i] \in Key
    BY <1>5 DEF Typed, TypeOK, CallFails, Forget
  <2> QED
    BY <1>5, <2>1, <2>2, <2>3, <2>4 DEF Typed, TypeOK, CallFails
<1> QED
  BY <1>1, <1>2, <1>3, <1>4, <1>5

LEMMA RestartType == ASSUME Typed, Restart PROVE Typed'
<1>1. /\ must' \in [Job -> SUBSET Key] /\ may' \in [Job -> SUBSET Key]
      /\ ReadTaken'
  BY DEF Restart, ReadTaken
<1>2. mishaps' \in 0..MaxMishaps
  BY AerialAssumption DEF Typed, TypeOK, Restart, Mishap
<1>3. /\ jpc' \in [Job -> JobStep] /\ at' \in [Job -> Nat]
      /\ \A j \in Job : jpc'[j] \in InJob => at'[j] \in Key
  BY DEF Restart, JobStep, InJob
<1>4. /\ upc' \in [Upload -> {"new", "save", "insert", "end"}]
      /\ watch' \in [File -> Nat] /\ stranded' \in SUBSET Key
  BY DEF Typed, TypeOK, Restart
<1> QED
  BY <1>1, <1>2, <1>3, <1>4 DEF Typed, TypeOK, Restart, ScanReturns, ScanStep

LEMMA StepType == Typed /\ [Next]_vars => Typed'
<1> SUFFICES ASSUME Typed, [Next]_vars PROVE Typed'
  OBVIOUS
<1>1. CASE UNCHANGED vars
  BY <1>1 DEF Typed, TypeOK, ReadTaken, vars
<1>2. ASSUME NEW j \in Job, Converting(j) \/ JobFails(j) \/ PublishFails(j) \/ CallFails(j)
      PROVE  Typed'
  BY <1>2, JobTakesType, JobStepType, CallType DEF Converting
<1>3. ASSUME NEW c \in Call, StartCall(c) PROVE Typed'
  BY <1>3, CallType DEF Job
<1> QED
  BY <1>1, <1>2, <1>3, FileType, ScanType, UploadType, RestartType DEF Next

\* The type invariant holds whatever the constants are.
THEOREM TypeCorrect == Spec => []TypeOK
<1>1. Spec => []Typed
  BY InitType, StepType, PTL DEF Spec
<1>2. Typed => TypeOK
  BY DEF Typed
<1> QED
  BY <1>1, <1>2, PTL

-----------------------------------------------------------------------------
(* One registration at a time, and no second row *)

\* The gate is free when nobody registers, so whoever finds it free is alone.
GateFree == held = 0 => Registering = {} /\ spc \notin {"dup", "insert"}

Gate == GateExcludes /\ GateFree

\* Rows are numbered upwards.
Fresh == \A k \in Key : k >= nextKey => status[k] = "free"

\* Nobody inserts a row of the file that the folder check is about to insert:
\* uploads are kept out by the gate.
Looked == spc = "insert" => ~Registered(cur)

Rows == Fresh /\ Looked /\ NoDoubleRow

LEMMA InitInv == Init => Gate /\ Rows
  BY DEF Init, Gate, GateExcludes, GateFree, Registering, Rows, Fresh, Looked,
         NoDoubleRow, Live, RowStatus

\* What neither registers nor changes rows.
LEMMA GateStays ==
  ASSUME Gate, UNCHANGED <<held, upc>>, spc' \in {"dup", "insert"} => spc \in {"dup", "insert"}
  PROVE  Gate'
  BY DEF Gate, GateExcludes, GateFree, Registering

LEMMA ScanGate ==
  ASSUME Typed, Gate, Tick \/ Scanning \/ SkipFile \/ ScanFails
  PROVE  Gate'
<1> USE DEF ScanGoes, ScanReturns, FileEnds
<1>1. CASE Tick \/ List \/ ReadKnown \/ Stat \/ Pause \/ NotDup \/ FolderDone \/ Kick
           \/ ScanFails
  BY <1>1, GateStays DEF Tick, List, ReadKnown, Stat, Pause, NotDup, FolderDone,
     Kick, ScanFails
<1>2. CASE FoundDup \/ InsertRow \/ SkipFile
  BY <1>2 DEF Gate, GateExcludes, GateFree, Registering, FoundDup, InsertRow, SkipFile
<1>3. ASSUME NEW f \in File, BeginFile(f) PROVE Gate'
  BY <1>3 DEF Gate, GateExcludes, GateFree, Registering, BeginFile
<1> QED
  BY <1>1, <1>2, <1>3 DEF Scanning

LEMMA UploadGate ==
  ASSUME Typed, Gate, NEW u \in Upload, Uploading(u) \/ UploadFails(u)
  PROVE  Gate'
<1> USE DEF UploadGoes
<1>0. upc \in [Upload -> {"new", "save", "insert", "end"}]
  BY DEF Typed, TypeOK
<1>1. CASE WaitTurn(u)
  BY <1>0, <1>1 DEF Gate, GateExcludes, GateFree, Registering, WaitTurn
<1>2. CASE SaveFile(u)
  BY <1>0, <1>2 DEF Gate, GateExcludes, GateFree, Registering, SaveFile
<1>3. CASE UploadRow(u)
  BY <1>0, <1>3 DEF Gate, GateExcludes, GateFree, Registering, UploadRow
<1>4. CASE UploadFails(u)
  BY <1>0, <1>4 DEF Gate, GateExcludes, GateFree, Registering, UploadFails
<1> QED
  BY <1>1, <1>2, <1>3, <1>4 DEF Uploading

LEMMA StepGate == Typed /\ Gate /\ [Next]_vars => Gate'
<1> SUFFICES ASSUME Typed, Gate, [Next]_vars PROVE Gate'
  OBVIOUS
<1>1. CASE UNCHANGED vars
  BY <1>1, GateStays DEF vars
<1>2. CASE \E f \in File : Copy(f)
  BY <1>2, GateStays DEF Copy
<1>3. ASSUME NEW j \in Job, Converting(j) \/ JobFails(j) \/ PublishFails(j) \/ CallFails(j)
      PROVE  Gate'
  <2>1. UNCHANGED <<held, upc, spc>>
    BY <1>3 DEF Converting, ReadRows, RowsDone, StartWarp, Tiled, SourceGone,
       ClearTiles, Publish, Check, Record, TakeRow, JobFails, PublishFails, CallFails
  <2> QED
    BY <2>1, GateStays
<1>4. CASE (\E c \in Call : StartCall(c)) \/ (\E k \in Key : DeleteRow(k))
           \/ RemoveSource \/ RemoveTiles
  BY <1>4, GateStays DEF StartCall, DeleteRow, RemoveSource, RemoveTiles
<1>5. CASE Restart
  BY <1>5 DEF Restart, ScanReturns, Gate, GateExcludes, GateFree, Registering
<1> QED
  BY <1>1, <1>2, <1>3, <1>4, <1>5, ScanGate, UploadGate DEF Next

\* Rows that only lose members, or change what they say, stay as they were.
LEMMA RowsStay ==
  ASSUME Typed, Rows, UNCHANGED <<nextKey, path, reuploaded>>,
         \A k \in Key : Live(k)' => Live(k),
         \A k \in Key : status[k] = "free" => status'[k] = "free",
         spc' = "insert" => spc = "insert" /\ cur' = cur
  PROVE  Rows'
<1>1. Fresh'
  BY DEF Typed, TypeOK, Rows, Fresh
<1>2. Looked'
  BY DEF Rows, Looked, Registered
<1>3. NoDoubleRow'
  BY DEF Rows, NoDoubleRow
<1> QED
  BY <1>1, <1>2, <1>3 DEF Rows

\* A new row, for a file without one or with the upload noted.
LEMMA RowAdded ==
  ASSUME Typed, Rows, NEW f \in File, AddRow(f), spc' # "insert",
         reuploaded \subseteq reuploaded',
         Registered(f) => f \in reuploaded'
  PROVE  Rows'
<1>1. /\ nextKey \in Key /\ status[nextKey] = "free"
      /\ \A k \in Key \ {nextKey} : status'[k] = status[k] /\ path'[k] = path[k]
      /\ path'[nextKey] = f
  BY AerialAssumption DEF Typed, TypeOK, Rows, Fresh, AddRow, Room, Key
<1>2. Fresh'
  BY <1>1, AerialAssumption DEF Typed, TypeOK, Rows, Fresh, AddRow, Room, Key
<1>3. NoDoubleRow'
  <2> SUFFICES ASSUME NEW k \in Key, NEW l \in Key, Live(k)', Live(l)',
                      path'[k] = path'[l], k # l
               PROVE  path'[k] \in reuploaded'
    BY DEF NoDoubleRow
  <2>1. CASE k # nextKey /\ l # nextKey
    BY <1>1, <2>1 DEF Rows, NoDoubleRow, Live
  <2>2. CASE k = nextKey \/ l = nextKey
    <3>1. Registered(f)
      BY <1>1, <2>2 DEF Registered, Live
    <3> QED
      BY <1>1, <2>2, <3>1
  <2> QED
    BY <2>1, <2>2
<1>4. Looked'
  BY DEF Looked
<1> QED
  BY <1>2, <1>3, <1>4 DEF Rows

LEMMA ScanRows ==
  ASSUME Typed, Gate, Rows, Tick \/ Scanning \/ SkipFile \/ ScanFails
  PROVE  Rows'
<1> USE DEF ScanGoes, ScanReturns, FileEnds
<1>1. CASE Tick \/ List \/ ReadKnown \/ Stat \/ Pause \/ FoundDup \/ FolderDone \/ Kick
           \/ SkipFile \/ ScanFails \/ \E f \in File : BeginFile(f)
  <2>1. spc' # "insert" /\ UNCHANGED <<nextKey, path, status, reuploaded>>
    BY <1>1 DEF Tick, List, ReadKnown, Stat, Pause, FoundDup, FolderDone, Kick,
       SkipFile, ScanFails, BeginFile
  <2> QED
    BY <2>1, RowsStay DEF Live
<1>2. CASE NotDup
  BY <1>2 DEF Rows, Fresh, Looked, NoDoubleRow, Registered, Live, NotDup
<1>3. CASE InsertRow
  <2>1. cur \in File /\ ~Registered(cur)
    BY <1>3 DEF Typed, TypeOK, Rows, Looked, InsertRow
  <2>2. AddRow(cur) /\ spc' # "insert" /\ reuploaded' = reuploaded
    BY <1>3 DEF InsertRow
  <2> QED
    BY <2>1, <2>2, RowAdded
<1> QED
  BY <1>1, <1>2, <1>3 DEF Scanning

LEMMA UploadRows ==
  ASSUME Typed, Gate, Rows, NEW u \in Upload, Uploading(u) \/ UploadFails(u)
  PROVE  Rows'
<1>1. CASE WaitTurn(u) \/ SaveFile(u) \/ UploadFails(u)
  <2>1. UNCHANGED <<nextKey, path, status, reuploaded, spc, cur>>
    BY <1>1 DEF WaitTurn, SaveFile, UploadFails
  <2> QED
    BY <2>1, RowsStay DEF Live
<1>2. CASE UploadRow(u)
  <2>1. Target[u] \in File /\ AddRow(Target[u])
    BY <1>2, AerialAssumption DEF UploadRow
  <2>2. spc' # "insert"
    BY <1>2 DEF UploadRow, Gate, GateExcludes, Registering
  <2>3. /\ reuploaded \subseteq reuploaded'
        /\ Registered(Target[u]) => Target[u] \in reuploaded'
    BY <1>2 DEF UploadRow
  <2> QED
    BY <2>1, <2>2, <2>3, RowAdded
<1> QED
  BY <1>1, <1>2 DEF Uploading

LEMMA JobRows ==
  ASSUME Typed, Rows, NEW j \in Job,
         \/ j \in Call /\ StartCall(j)
         \/ Converting(j) \/ JobFails(j) \/ PublishFails(j) \/ CallFails(j)
  PROVE  Rows'
<1>1. UNCHANGED <<nextKey, path, reuploaded, spc, cur>>
  BY DEF StartCall, Converting, ReadRows, RowsDone, StartWarp, Tiled, SourceGone,
     ClearTiles, Publish, Check, Record, TakeRow, JobFails, PublishFails, CallFails
<1>2. \/ UNCHANGED status
      \/ \E k, s : SetStatus(k, s)
  BY DEF StartCall, Converting, ReadRows, RowsDone, StartWarp, Tiled, SourceGone,
     ClearTiles, Publish, Check, Record, TakeRow, JobFails, PublishFails, CallFails
<1>3. /\ \A k \in Key : Live(k)' => Live(k)
      /\ \A k \in Key : status[k] = "free" => status'[k] = "free"
  BY <1>2 DEF Typed, TypeOK, SetStatus, Live, RowStatus
<1> QED
  BY <1>1, <1>3, RowsStay

LEMMA StepRows == Typed /\ Gate /\ Rows /\ [Next]_vars => Rows'
<1> SUFFICES ASSUME Typed, Gate, Rows, [Next]_vars PROVE Rows'
  OBVIOUS
<1>1. CASE UNCHANGED vars \/ (\E f \in File : Copy(f)) \/ RemoveSource \/ RemoveTiles
  <2>1. UNCHANGED <<nextKey, path, status, reuploaded, spc, cur>>
    BY <1>1 DEF vars, Copy, RemoveSource, RemoveTiles
  <2> QED
    BY <2>1, RowsStay DEF Live
<1>2. ASSUME NEW k \in Key, DeleteRow(k) PROVE Rows'
  <2>1. UNCHANGED <<nextKey, path, reuploaded, spc, cur>>
    BY <1>2 DEF DeleteRow
  <2>2. /\ \A l \in Key : Live(l)' => Live(l)
        /\ \A l \in Key : status[l] = "free" => status'[l] = "free"
    BY <1>2 DEF Typed, TypeOK, DeleteRow, Live, RowStatus
  <2> QED
    BY <2>1, <2>2, RowsStay
<1>3. CASE Restart
  <2>1. spc' # "insert" /\ UNCHANGED <<nextKey, path, status, reuploaded>>
    BY <1>3 DEF Restart, ScanReturns
  <2> QED
    BY <2>1, RowsStay DEF Live
<1>4. ASSUME NEW c \in Call, StartCall(c) PROVE Rows'
  BY <1>4, JobRows DEF Job
<1> QED
  BY <1>1, <1>2, <1>3, <1>4, ScanRows, UploadRows, JobRows DEF Next

LEMMA Inductive == Spec => [](Typed /\ Gate /\ Rows)
<1>1. Init => Typed /\ Gate /\ Rows
  BY InitType, InitInv
<1>2. (Typed /\ Gate /\ Rows) /\ [Next]_vars => (Typed /\ Gate /\ Rows)'
  BY StepType, StepGate, StepRows
<1> QED
  BY <1>1, <1>2, PTL DEF Spec

\* Two registrations never overlap, be they uploads or the folder check's.
THEOREM RegistrationsExclude == Spec => []GateExcludes
<1>1. Typed /\ Gate /\ Rows => GateExcludes
  BY DEF Gate
<1> QED
  BY <1>1, Inductive, PTL

\* A file has one row, unless it was uploaded over a registered one.
THEOREM OneRowPerFile == Spec => []NoDoubleRow
<1>1. Typed /\ Gate /\ Rows => NoDoubleRow
  BY DEF Rows
<1> QED
  BY <1>1, Inductive, PTL

-----------------------------------------------------------------------------
(***************************************************************************)
(* The inductive strengthening of DoneHasTiles.  As long as a directory is *)
(* not contested it has one row and one conversion; while that conversion  *)
(* is at work no row of the directory is "done"; and once the row is       *)
(* deleted, what is still done to the directory is no row's business.      *)
(***************************************************************************)

\* Every row that is or was has a directory.
LEMMA DirType ==
  ASSUME Typed, NEW k \in Key
  PROVE  /\ DirOf(k) \in Directory \cup {NoFile}
         /\ DirOf(k) = NoFile <=> status[k] = "free"
  BY AerialAssumption DEF Typed, TypeOK, DirOf

OneRow ==
  \A k, l \in Key :
    Live(k) /\ Live(l) /\ DirOf(k) = DirOf(l) => k = l \/ DirOf(k) \in contested

Works(j) == jpc[j] \in InJob

OneWorker ==
  \A i, j \in Job :
    Works(i) /\ Works(j) /\ Output(i) = Output(j) => i = j \/ Output(i) \in contested

Taken == \A j \in Job : Works(j) => status[at[j]] # "free"

WorkedNotDone ==
  \A j \in Job, k \in Key :
    Works(j) /\ DirOf(k) = Output(j) /\ status[k] = "done" => DirOf(k) \in contested

DoomedNotDone ==
  \A k \in Key : Dooms(DirOf(k)) /\ status[k] = "done" => DirOf(k) \in contested

DoomedLetGo ==
  \A j \in Job :
    Works(j) /\ Dooms(Output(j)) /\ Live(at[j]) => Output(j) \in contested

GoodHasTiles ==
  \A j \in Job :
    jpc[j] = "good" /\ Live(at[j]) /\ tiles[Output(j)] = "none"
      => Output(j) \in contested

Hands == OneRow /\ OneWorker /\ Taken
Results == WorkedNotDone /\ DoomedNotDone /\ DoomedLetGo /\ GoodHasTiles /\ DoneHasTiles
Tiling == Hands /\ Results

LEMMA InitTiling == Init => Tiling
  BY DEF Init, Tiling, Hands, Results, OneRow, OneWorker, Taken, WorkedNotDone,
         DoomedNotDone, DoomedLetGo, GoodHasTiles, DoneHasTiles, Works, InJob,
         Live, RowStatus

\* What takes no directory in hand, ends no conversion well and touches no row.
LEMMA TilingStays ==
  ASSUME Typed, Tiling, UNCHANGED <<path, status, tiles>>,
         contested \subseteq contested', doomed' \in {doomed, NoFile},
         \A j \in Job : Works(j)' => Works(j) /\ at'[j] = at[j],
         \A j \in Job : jpc'[j] = "good" => jpc[j] = "good"
  PROVE  Tiling'
<1> USE DEF Tiling, Hands, Results
<1>1. (OneRow /\ OneWorker /\ Taken)'
  BY DEF OneRow, OneWorker, Taken, Output, DirOf, Live
<1>2. (WorkedNotDone /\ DoneHasTiles)'
  BY DEF WorkedNotDone, DoneHasTiles, Output, DirOf
<1>3. \A d : Dooms(d)' => Dooms(d)
  BY DEF Dooms
<1>4. DoomedNotDone'
  BY <1>3 DEF DoomedNotDone, DirOf
<1>6. DoomedLetGo'
  BY <1>3 DEF DoomedLetGo, Output, DirOf, Live
<1>7. \A j \in Job : jpc'[j] = "good" => Works(j)'
  BY DEF Works, InJob
<1>8. GoodHasTiles'
  BY <1>7 DEF GoodHasTiles, Output, DirOf, Live
<1> QED
  BY <1>1, <1>2, <1>4, <1>6, <1>8

\* The new row has its file's directory; the others keep theirs.
LEMMA RowMade ==
  ASSUME Typed, Fresh, NEW f \in File, AddRow(f)
  PROVE  \E n \in Key :
           /\ status[n] = "free" /\ status' = [status EXCEPT ![n] = "pending"]
           /\ DirOf(n) = NoFile /\ DirOf(n)' = Slug[f]
           /\ \A k \in Key \ {n} : DirOf(k)' = DirOf(k)
<1>1. PICK n \in Key : n = nextKey
  BY DEF AddRow, Room
<1>2. /\ status[n] = "free" /\ status' = [status EXCEPT ![n] = "pending"]
      /\ path[n] = NoFile /\ path' = [path EXCEPT ![n] = f]
  BY <1>1, AerialAssumption DEF Typed, TypeOK, Fresh, AddRow, Key
<1>3. path'[n] = f /\ f # NoFile /\ \A k \in Key \ {n} : path'[k] = path[k]
  BY <1>2, AerialAssumption DEF Typed, TypeOK
<1>4. DirOf(n) = NoFile /\ DirOf(n)' = Slug[f]
  BY <1>2, <1>3 DEF DirOf
<1>5. \A k \in Key \ {n} : DirOf(k)' = DirOf(k)
  BY <1>3 DEF DirOf
<1> QED
  BY <1>2, <1>4, <1>5

\* A new row: no second one of its directory, unless noted.
LEMMA TilingRow ==
  ASSUME Typed, Fresh, Tiling, NEW f \in File, AddRow(f),
         UNCHANGED <<tiles, doomed, jobVars>>
  PROVE  Tiling'
<1> USE DEF Tiling, Hands, Results
<1>0. PICK n \in Key :
        /\ status[n] = "free" /\ status' = [status EXCEPT ![n] = "pending"]
        /\ DirOf(n)' = Slug[f]
        /\ \A k \in Key \ {n} : DirOf(k)' = DirOf(k)
  BY RowMade
<1>1. /\ status[n] = "free" /\ status'[n] = "pending" /\ DirOf(n)' = Slug[f]
      /\ \A k \in Key \ {n} : status'[k] = status[k] /\ DirOf(k)' = DirOf(k)
  BY <1>0 DEF Typed, TypeOK
<1>2. /\ contested \subseteq contested'
      /\ \A k \in Key : Live(k) /\ DirOf(k) = Slug[f] => Slug[f] \in contested'
      /\ \A d : Dooms(d)' <=> Dooms(d)
  BY DEF AddRow, RowsOf, Dooms
<1>3. \A j \in Job : Works(j) => at[j] \in Key \ {n}
  BY <1>1 DEF Typed, TypeOK, Works, Taken
<1>4. \A j \in Job : (Works(j)' <=> Works(j)) /\ jpc'[j] = jpc[j] /\ at'[j] = at[j]
  BY DEF Works
<1>5. \A j \in Job : Works(j) => /\ Output(j)' = Output(j)
                                 /\ status'[at[j]] = status[at[j]]
  BY <1>1, <1>3, <1>4 DEF Output, DirOf
<1>6. OneRow'
  <2> SUFFICES ASSUME NEW k \in Key, NEW l \in Key, Live(k)', Live(l)',
                      DirOf(k)' = DirOf(l)', k # l
               PROVE  DirOf(k)' \in contested'
    BY DEF OneRow
  <2>1. CASE k # n /\ l # n
    BY <1>1, <1>2, <2>1 DEF OneRow, Live
  <2>2. CASE k = n
    <3>1. Live(l) /\ DirOf(l) = Slug[f] /\ DirOf(k)' = Slug[f]
      BY <1>1, <2>2 DEF Live, DirOf
    <3> QED
      BY <1>2, <3>1
  <2>3. CASE l = n
    <3>1. Live(k) /\ DirOf(k) = Slug[f] /\ DirOf(k)' = Slug[f]
      BY <1>1, <2>3 DEF Live, DirOf
    <3> QED
      BY <1>2, <3>1
  <2> QED
    BY <2>1, <2>2, <2>3
<1>7. OneWorker' /\ Taken'
  BY <1>2, <1>4, <1>5 DEF OneWorker, Taken
<1>8. \A k \in Key : status'[k] = "done" => k # n
  BY <1>1
<1>9. WorkedNotDone'
  BY <1>1, <1>2, <1>4, <1>5, <1>8 DEF WorkedNotDone
<1>10. DoomedNotDone' /\ DoneHasTiles'
  BY <1>1, <1>2, <1>8 DEF DoomedNotDone, DoneHasTiles
<1>11. DoomedLetGo'
  BY <1>2, <1>4, <1>5 DEF DoomedLetGo, Live
<1>12. GoodHasTiles'
  <2>1. \A j \in Job : jpc[j] = "good" => Works(j)
    BY DEF Works, InJob
  <2> QED
    BY <1>2, <1>4, <1>5, <2>1 DEF GoodHasTiles, Live
<1> QED
  BY <1>6, <1>7, <1>9, <1>10, <1>11, <1>12

\* A row is taken: it is not "done" any more, and whoever else has its
\* directory in hand, its deletion included, makes it contested.
LEMMA TilingTaken ==
  ASSUME Typed, Tiling, NEW j \in Job, NEW k \in Key, TakeRow(j, k)
  PROVE  Tiling'
<1> USE DEF Tiling, Hands, Results
<1>1. /\ jpc' = [jpc EXCEPT ![j] = "start"] /\ at' = [at EXCEPT ![j] = k]
      /\ tiles' = tiles
      /\ \A l : DirOf(l)' = DirOf(l) /\ (Dooms(l)' <=> Dooms(l))
  BY DEF TakeRow, Reach, JobGoes, DirOf, Dooms
<1>2. /\ contested \subseteq contested'
      /\ ~Live(k) \/ Dooms(DirOf(k)) => DirOf(k) \in contested'
      /\ \A i \in Job \ {j} : WorksOn(i, DirOf(k)) => DirOf(k) \in contested'
  BY DEF TakeRow
<1>3. /\ status' = IF Live(k) THEN [status EXCEPT ![k] = "converting"] ELSE status
      /\ status[k] # "free"
  BY DEF TakeRow, SetStatus, Reach, Typed, ReadTaken
<1>4. /\ jpc \in [Job -> JobStep] /\ at \in [Job -> Nat]
      /\ status \in [Key -> RowStatus \cup {"free", "deleted"}]
  BY DEF Typed, TypeOK
<1>5. /\ ~Works(j) /\ Works(j)' /\ Output(j)' = DirOf(k) /\ at'[j] = k
      /\ \A i \in Job \ {j} : (Works(i)' <=> Works(i)) /\ Output(i)' = Output(i)
                              /\ at'[i] = at[i] /\ jpc'[i] = jpc[i]
  BY <1>1, <1>4 DEF Works, Output, InJob, TakeRow, Reach
<1>6. /\ \A l \in Key : Live(l)' <=> Live(l)
      /\ \A l \in Key : status'[l] = "done" => status[l] = "done"
      /\ \A l \in Key : status[l] # "free" => status'[l] # "free"
      /\ status'[k] # "done" \/ ~Live(k)
  BY <1>3, <1>4 DEF Live, RowStatus
<1>7. \A i \in Job : Works(i) => at[i] \in Key
  BY DEF Typed, TypeOK, Works
<1>8. OneRow'
  BY <1>1, <1>2, <1>6 DEF OneRow
<1>9. OneWorker'
  <2>1. \A i \in Job \ {j} : Works(i) /\ Output(i) = DirOf(k) => DirOf(k) \in contested'
    BY <1>2, <1>7 DEF WorksOn, RowsOf, Works, Output
  <2> QED
    BY <1>2, <1>5, <2>1 DEF OneWorker
<1>10. Taken'
  BY <1>3, <1>5, <1>6, <1>7 DEF Taken
<1>11. WorkedNotDone'
  <2> SUFFICES ASSUME NEW i \in Job, NEW l \in Key, Works(i)',
                      DirOf(l)' = Output(i)', status'[l] = "done"
               PROVE  DirOf(l)' \in contested'
    BY DEF WorkedNotDone
  <2>1. CASE i # j
    BY <1>1, <1>2, <1>5, <1>6, <2>1 DEF WorkedNotDone
  <2>2. CASE i = j
    <3>1. DirOf(l) = DirOf(k) /\ Live(l)
      BY <1>1, <1>5, <1>6, <2>2 DEF Live, RowStatus
    <3> QED
      BY <1>1, <1>2, <1>6, <3>1 DEF OneRow
  <2> QED
    BY <2>1, <2>2
<1>12. DoomedNotDone' /\ DoneHasTiles'
  BY <1>1, <1>2, <1>6 DEF DoomedNotDone, DoneHasTiles
<1>13. DoomedLetGo'
  BY <1>1, <1>2, <1>5, <1>6, <1>7 DEF DoomedLetGo
<1>14. GoodHasTiles'
  <2>1. jpc'[j] # "good" /\ \A i \in Job : jpc[i] = "good" => Works(i)
    BY <1>1, <1>4 DEF Works, InJob
  <2> QED
    BY <1>1, <1>2, <1>5, <1>6, <1>7, <2>1 DEF GoodHasTiles
<1> QED
  BY <1>8, <1>9, <1>10, <1>11, <1>12, <1>13, <1>14

\* A directory changes in the hands of the conversion that works on it.
LEMMA TilingPublished ==
  ASSUME Typed, Tiling, NEW j \in Job,
         ClearTiles(j) \/ Publish(j) \/ PublishFails(j)
  PROVE  Tiling'
<1> USE DEF Tiling, Hands, Results
<1>1. Works(j) /\ jpc[j] # "good" /\ at[j] \in Key
  BY DEF Typed, TypeOK, Works, InJob, ClearTiles, Publish, PublishFails
<1>2. /\ UNCHANGED <<path, status, doomed, contested, at>>
      /\ \E s \in {"publish", "check"} : jpc' = [jpc EXCEPT ![j] = s]
      /\ \A d \in Directory : tiles'[d] = "none" => tiles[d] = "none" \/ d = Output(j)
  BY DEF Typed, TypeOK, ClearTiles, RemoveDirectory, Publish, PublishFails, JobGoes
<1>3. /\ \A i \in Job : Works(i)' <=> Works(i)
      /\ \A i \in Job : jpc'[i] = "good" => jpc[i] = "good" /\ i # j
  BY <1>1, <1>2 DEF Typed, TypeOK, Works, InJob
<1>4. /\ \A i \in Job : Output(i)' = Output(i)
      /\ \A k \in Key : DirOf(k)' = DirOf(k) /\ (Live(k)' <=> Live(k))
      /\ \A d : Dooms(d)' <=> Dooms(d)
  BY <1>2 DEF Output, DirOf, Live, Dooms
<1>5. \A k \in Key : status[k] # "free" => DirOf(k) \in Directory
  BY DirType
<1>6. (OneRow /\ OneWorker /\ Taken)'
  BY <1>2, <1>3, <1>4 DEF OneRow, OneWorker, Taken
<1>7. (WorkedNotDone /\ DoomedNotDone)'
  BY <1>2, <1>3, <1>4 DEF WorkedNotDone, DoomedNotDone
<1>8. DoomedLetGo'
  BY <1>2, <1>3, <1>4 DEF DoomedLetGo, Live
<1>9. GoodHasTiles'
  <2> SUFFICES ASSUME NEW i \in Job, jpc'[i] = "good", Live(at[i]),
                      tiles'[Output(i)] = "none"
               PROVE  Output(i) \in contested
    BY <1>2, <1>4 DEF GoodHasTiles, Live
  <2>1. jpc[i] = "good" /\ i # j /\ Works(i)
    BY <1>3 DEF Works, InJob
  <2>2. Output(i) \in Directory
    BY <1>5, <2>1 DEF Typed, TypeOK, Works, Output, Taken
  <2> QED
    BY <1>1, <1>2, <2>1, <2>2 DEF GoodHasTiles, OneWorker
<1>10. DoneHasTiles'
  BY <1>1, <1>2, <1>4, <1>5 DEF DoneHasTiles, WorkedNotDone
<1> QED
  BY <1>6, <1>7, <1>8, <1>9, <1>10

\* The look for tiles, and what it writes into the row.
LEMMA TilingChecked ==
  ASSUME Typed, Tiling, NEW j \in Job, Check(j)
  PROVE  Tiling'
<1> USE DEF Tiling, Hands, Results
<1>1. Works(j) /\ UNCHANGED <<path, status, tiles, doomed, contested, at>>
  BY DEF Check, Works, InJob
<1>2. /\ \E s \in {"good", "bad"} :
           /\ jpc' = [jpc EXCEPT ![j] = s]
           /\ s = "good" => tiles[Output(j)] # "none"
      /\ \A k : DirOf(k)' = DirOf(k)
      /\ \A d : Dooms(d)' <=> Dooms(d)
  BY DEF Check, JobGoes, DirOf, Dooms
<1>3. /\ \A i \in Job : Works(i)' <=> Works(i)
      /\ \A i \in Job : jpc'[i] = "good" => \/ jpc[i] = "good"
                                            \/ tiles[Output(i)] # "none"
  BY <1>1, <1>2 DEF Typed, TypeOK, Works, InJob
<1>4. (OneRow /\ OneWorker /\ Taken)'
  BY <1>1, <1>2, <1>3 DEF OneRow, OneWorker, Taken, Live, Output
<1>5. (WorkedNotDone /\ DoomedNotDone /\ DoneHasTiles)'
  BY <1>1, <1>2, <1>3 DEF WorkedNotDone, DoomedNotDone, DoneHasTiles, Output
<1>6. (DoomedLetGo /\ GoodHasTiles)'
  BY <1>1, <1>2, <1>3 DEF DoomedLetGo, GoodHasTiles, Output, Live
<1> QED
  BY <1>4, <1>5, <1>6

LEMMA TilingRecorded ==
  ASSUME Typed, Tiling, NEW j \in Job, Record(j)
  PROVE  Tiling'
<1> USE DEF Tiling, Hands, Results
<1>1. /\ Works(j) /\ at[j] \in Key
      /\ UNCHANGED <<path, tiles, doomed, contested>>
      /\ jpc' = [jpc EXCEPT ![j] = "next"] /\ at' = [at EXCEPT ![j] = 0]
  BY DEF Typed, TypeOK, Record, JobGoes, Works, InJob
<1>2. /\ ~Works(j)'
      /\ \A i \in Job \ {j} : /\ Works(i)' <=> Works(i)
                              /\ jpc'[i] = jpc[i] /\ at'[i] = at[i]
                              /\ Output(i)' = Output(i)
      /\ \A k : DirOf(k)' = DirOf(k)
      /\ \A d : Dooms(d)' <=> Dooms(d)
  BY <1>1 DEF Typed, TypeOK, Works, InJob, Output, DirOf, Dooms
<1>3. /\ \A k \in Key : Live(k)' <=> Live(k)
      /\ \A k \in Key : status[k] # "free" => status'[k] # "free"
      /\ \A k \in Key : status'[k] = "done" =>
           status[k] = "done" \/ (k = at[j] /\ jpc[j] = "good" /\ Live(at[j]))
  BY <1>1 DEF Typed, TypeOK, Record, SetStatus, Live, RowStatus
<1>4. (OneRow /\ OneWorker)'
  BY <1>1, <1>2, <1>3 DEF OneRow, OneWorker
<1>5. \A i \in Job : Works(i) => at[i] \in Key
  BY DEF Typed, TypeOK, Works
<1>6. Taken'
  BY <1>1, <1>2, <1>3, <1>5 DEF Taken
<1>7. WorkedNotDone'
  <2> SUFFICES ASSUME NEW i \in Job, NEW k \in Key, Works(i)',
                      DirOf(k) = Output(i), status'[k] = "done"
               PROVE  DirOf(k) \in contested
    BY <1>1, <1>2 DEF WorkedNotDone
  <2>1. i # j /\ Works(i)
    BY <1>2
  <2>2. CASE status[k] = "done"
    BY <2>1, <2>2 DEF WorkedNotDone
  <2>3. CASE k = at[j]
    BY <1>1, <2>1, <2>3 DEF OneWorker, Output
  <2> QED
    BY <1>3, <2>2, <2>3
<1>8. DoomedNotDone'
  BY <1>1, <1>2, <1>3 DEF DoomedNotDone, DoomedLetGo, Output
<1>9. DoneHasTiles'
  BY <1>1, <1>2, <1>3 DEF DoneHasTiles, GoodHasTiles, Output
<1>10. DoomedLetGo'
  BY <1>1, <1>2, <1>3, <1>5 DEF DoomedLetGo
<1>11. GoodHasTiles'
  <2>1. jpc'[j] # "good" /\ \A i \in Job : jpc[i] = "good" => Works(i)
    BY <1>1 DEF Typed, TypeOK, Works, InJob
  <2> QED
    BY <1>1, <1>2, <1>3, <1>5, <2>1 DEF GoodHasTiles
<1> QED
  BY <1>4, <1>6, <1>7, <1>8, <1>9, <1>10, <1>11

\* A deletion takes the row first, so that nothing of it is "done" when the
\* tiles go.
LEMMA TilingDeleted ==
  ASSUME Typed, Tiling, NEW k \in Key, DeleteRow(k)
  PROVE  Tiling'
<1> USE DEF Tiling, Hands, Results
<1>1. /\ Live(k) /\ status' = [status EXCEPT ![k] = "deleted"]
      /\ UNCHANGED <<path, tiles, contested, at, jpc>>
      /\ \A l : DirOf(l)' = DirOf(l)
      /\ \A d : Dooms(d)' => d = DirOf(k)
  BY DEF DeleteRow, DirOf, Dooms
<1>2. /\ ~Live(k)' /\ status'[k] = "deleted"
      /\ \A l \in Key \ {k} : status'[l] = status[l]
      /\ \A l \in Key : Live(l)' => Live(l) /\ l # k
  BY <1>1 DEF Typed, TypeOK, Live, RowStatus
<1>3. \A j \in Job : Works(j) => at[j] \in Key
  BY DEF Typed, TypeOK, Works
<1>4. /\ \A j \in Job : (Works(j)' <=> Works(j)) /\ Output(j)' = Output(j)
      /\ \A j \in Job : jpc[j] = "good" => Works(j)
  BY <1>1 DEF Works, Output, InJob
<1>5. (OneRow /\ OneWorker /\ Taken)'
  BY <1>1, <1>2, <1>3, <1>4 DEF OneRow, OneWorker, Taken
<1>6. (WorkedNotDone /\ DoneHasTiles)'
  BY <1>1, <1>2, <1>4 DEF WorkedNotDone, DoneHasTiles
<1>7. DoomedNotDone'
  BY <1>1, <1>2 DEF DoomedNotDone, OneRow, Live, RowStatus
<1>8. DoomedLetGo'
  BY <1>1, <1>2, <1>3, <1>4 DEF DoomedLetGo, OneRow, Output
<1>9. GoodHasTiles'
  BY <1>1, <1>2, <1>3, <1>4 DEF GoodHasTiles
<1> QED
  BY <1>5, <1>6, <1>7, <1>8, <1>9

\* The deletion removes the tiles of the directory it still has to remove.
LEMMA RemovesDoomed ==
  ASSUME Typed, RemoveTiles
  PROVE  \A d \in Directory : tiles'[d] # tiles[d] => Dooms(d)
<1>1. doomed # NoFile
  BY DEF Typed, TypeOK, RemoveTiles
<1> QED
  BY <1>1 DEF Typed, TypeOK, RemoveTiles, RemoveDirectory, Dooms

LEMMA TilingRemoved ==
  ASSUME Typed, Tiling, RemoveTiles
  PROVE  Tiling'
<1> USE DEF Tiling, Hands, Results
<1>1. /\ UNCHANGED <<path, status, contested, at, jpc>>
      /\ \A k : DirOf(k)' = DirOf(k)
      /\ \A d : ~Dooms(d)'
  BY DEF RemoveTiles, DirOf, Dooms
<1>2. /\ \A k \in Key : status[k] # "free" => DirOf(k) \in Directory
      /\ \A j \in Job : Works(j) => at[j] \in Key
      /\ \A j \in Job : jpc[j] = "good" => Works(j)
  BY DirType DEF Typed, TypeOK, Works, InJob
<1>7. \A d \in Directory : tiles'[d] = "none" => tiles[d] = "none" \/ Dooms(d)
  BY RemovesDoomed
<1>3. (OneRow /\ OneWorker /\ Taken /\ WorkedNotDone)'
  BY <1>1 DEF OneRow, OneWorker, Taken, WorkedNotDone, Works, Output, Live
<1>4. (DoomedNotDone /\ DoomedLetGo)'
  BY <1>1, <1>2 DEF DoomedNotDone, DoomedLetGo, Works, Output, Live, RowStatus
<1>5. DoneHasTiles'
  BY <1>1, <1>2, <1>7 DEF DoneHasTiles, DoomedNotDone
<1>6. GoodHasTiles'
  BY <1>1, <1>2, <1>7 DEF GoodHasTiles, DoomedLetGo, Taken, Output, Live
<1> QED
  BY <1>3, <1>4, <1>5, <1>6

LEMMA JobTiling ==
  ASSUME Typed, Tiling, NEW j \in Job,
         \/ j \in Call /\ StartCall(j)
         \/ Converting(j) \/ JobFails(j) \/ PublishFails(j) \/ CallFails(j)
  PROVE  Tiling'
<1>1. jpc \in [Job -> JobStep] /\ at \in [Job -> Nat]
  BY DEF Typed, TypeOK
<1>2. CASE \/ j \in Call /\ StartCall(j)
           \/ ReadRows(j) \/ RowsDone(j) \/ CallFails(j)
  <2>1. /\ UNCHANGED <<path, status, tiles, contested, doomed>>
        /\ jpc'[j] \in {"read", "next", "new", "end"}
        /\ \A i \in Job \ {j} : jpc'[i] = jpc[i] /\ at'[i] = at[i]
    BY <1>1, <1>2 DEF StartCall, ReadRows, RowsDone, CallFails, Forget, JobGoes
  <2> QED
    BY <2>1, TilingStays DEF Works, InJob
<1>3. CASE StartWarp(j) \/ Tiled(j) \/ JobFails(j) \/ SourceGone(j)
  <2>1. /\ UNCHANGED <<path, status, tiles, contested, doomed, at>>
        /\ jpc[j] \in {"start", "warp"} /\ jpc'[j] # "good"
        /\ \A i \in Job \ {j} : jpc'[i] = jpc[i]
    BY <1>1, <1>3 DEF StartWarp, Tiled, JobFails, SourceGone, JobGoes
  <2> QED
    BY <2>1, TilingStays DEF Works, InJob
<1> QED
  BY <1>2, <1>3, TilingTaken, TilingPublished, TilingChecked, TilingRecorded
  DEF Converting

LEMMA StepTiling == Typed /\ Rows /\ Tiling /\ [Next]_vars => Tiling'
<1> SUFFICES ASSUME Typed, Rows, Tiling, [Next]_vars PROVE Tiling'
  OBVIOUS
<1>1. CASE \/ UNCHANGED vars \/ (\E f \in File : Copy(f)) \/ RemoveSource
           \/ Tick \/ List \/ ReadKnown \/ Stat \/ Pause \/ FoundDup \/ NotDup
           \/ FolderDone \/ SkipFile \/ ScanFails \/ (\E f \in File : BeginFile(f))
           \/ \E u \in Upload : WaitTurn(u) \/ SaveFile(u) \/ UploadFails(u)
  <2>1. /\ UNCHANGED <<path, status, tiles, contested, jpc, at>>
        /\ doomed' \in {doomed, NoFile}
    BY <1>1 DEF vars, Copy, RemoveSource, Tick, List, ReadKnown, Stat, Pause,
       FoundDup, NotDup, FolderDone, SkipFile, ScanFails, BeginFile, WaitTurn,
       SaveFile, UploadFails
  <2> QED
    BY <2>1, TilingStays DEF Works
<1>2. CASE Kick
  <2>1. /\ UNCHANGED <<path, status, tiles, contested, doomed, at>>
        /\ \A j \in Job : jpc'[j] = jpc[j] \/ jpc'[j] = "read"
    BY <1>2 DEF Typed, TypeOK, Kick
  <2> QED
    BY <2>1, TilingStays DEF Works, InJob
<1>3. CASE Restart
  <2>1. /\ UNCHANGED <<path, status, tiles, contested>> /\ doomed' = NoFile
        /\ \A j \in Job : jpc'[j] \in {"new", "end"}
    BY <1>3 DEF Restart
  <2> QED
    BY <2>1, TilingStays DEF Works, InJob
<1>4. CASE InsertRow
  BY <1>4, TilingRow DEF Typed, TypeOK, Rows, InsertRow
<1>5. ASSUME NEW u \in Upload, UploadRow(u) PROVE Tiling'
  BY <1>5, TilingRow, AerialAssumption DEF Rows, UploadRow
<1>6. ASSUME NEW c \in Call, StartCall(c) PROVE Tiling'
  BY <1>6, JobTiling DEF Job
<1> QED
  BY <1>1, <1>2, <1>3, <1>4, <1>5, <1>6, JobTiling, TilingDeleted, TilingRemoved
  DEF Next, Scanning, Uploading

\* A converted row has its tiles, whatever failed, was cut off or deleted, as
\* long as its directory was never in two hands at once.
THEOREM ConvertedHasTiles == Spec => []DoneHasTiles
<1>1. Init => Tiling
  BY InitTiling
<1>2. Typed /\ Rows /\ Tiling /\ [Next]_vars => Tiling'
  BY StepTiling
<1>3. Tiling => DoneHasTiles
  BY DEF Tiling, Results
<1> QED
  BY <1>1, <1>2, <1>3, Inductive, PTL DEF Spec

-----------------------------------------------------------------------------
(* AerialDrop implements TileCatalogue *)

\* The row that a conversion is at says so, unless its directory is contested.
Marked ==
  \A j \in Job :
    Works(j) /\ Live(at[j]) => status[at[j]] = "converting" \/ Output(j) \in contested

\* What marks and records no row.
LEMMA MarkedStays ==
  ASSUME Marked, contested \subseteq contested',
         \A j \in Job : Works(j)' => Works(j) /\ at'[j] = at[j],
         \A j \in Job : Works(j)' /\ Live(at[j])' =>
           /\ Live(at[j])
           /\ path'[at[j]] = path[at[j]] /\ status'[at[j]] = status[at[j]]
  PROVE  Marked'
  BY DEF Marked, Output, DirOf

LEMMA AddedMarked ==
  ASSUME Typed, Fresh, Tiling, Marked, NEW f \in File, AddRow(f), UNCHANGED jobVars
  PROVE  Marked'
<1>1. /\ status[nextKey] = "free" /\ contested \subseteq contested'
      /\ \A k \in Key \ {nextKey} : status'[k] = status[k] /\ path'[k] = path[k]
  BY AerialAssumption DEF Typed, TypeOK, Fresh, AddRow, Room, Key
<1>2. \A j \in Job : Works(j) => at[j] \in Key \ {nextKey}
  BY <1>1 DEF Typed, TypeOK, Tiling, Hands, Taken, Works
<1>3. \A j \in Job : Works(j)' => Works(j) /\ at'[j] = at[j]
  BY DEF Works
<1> QED
  BY <1>1, <1>2, <1>3, MarkedStays DEF Live

LEMMA TakenMarked ==
  ASSUME Typed, Tiling, Marked, NEW j \in Job, NEW k \in Key, TakeRow(j, k)
  PROVE  Marked'
<1>1. /\ jpc' = [jpc EXCEPT ![j] = "start"] /\ at' = [at EXCEPT ![j] = k]
      /\ \A l : DirOf(l)' = DirOf(l)
      /\ status' = IF Live(k) THEN [status EXCEPT ![k] = "converting"] ELSE status
      /\ contested \subseteq contested'
      /\ \A i \in Job \ {j} : WorksOn(i, DirOf(k)) => DirOf(k) \in contested'
  BY DEF TakeRow, Reach, JobGoes, SetStatus, DirOf
<1>2. /\ at'[j] = k
      /\ Live(k)' => status'[k] = "converting"
      /\ \A l \in Key \ {k} : status'[l] = status[l]
  BY <1>1 DEF Typed, TypeOK, Live
<1>3. \A i \in Job \ {j} : Works(i)' => Works(i) /\ at'[i] = at[i] /\ at[i] \in Key
  BY <1>1 DEF Typed, TypeOK, Works
<1>4. ASSUME NEW i \in Job \ {j}, Works(i)', Live(at[i])'
      PROVE  status'[at[i]] = "converting" \/ DirOf(at[i]) \in contested'
  <2>1. CASE at[i] = k
    BY <1>1, <1>3, <1>4, <2>1 DEF WorksOn, RowsOf, Works
  <2>2. CASE at[i] # k
    BY <1>1, <1>2, <1>3, <1>4, <2>2 DEF Marked, Live, Output
  <2> QED
    BY <2>1, <2>2
<1> QED
  BY <1>1, <1>2, <1>3, <1>4 DEF Marked, Output

LEMMA RecordedMarked ==
  ASSUME Typed, Tiling, Marked, NEW j \in Job, Record(j)
  PROVE  Marked'
<1>1. /\ Works(j) /\ at[j] \in Key /\ contested' = contested
      /\ \A l : DirOf(l)' = DirOf(l)
      /\ jpc' = [jpc EXCEPT ![j] = "next"] /\ at' = [at EXCEPT ![j] = 0]
      /\ \A l \in Key \ {at[j]} : status'[l] = status[l]
  BY DEF Typed, TypeOK, Record, SetStatus, JobGoes, Works, InJob, DirOf
<1>2. \A i \in Job : Works(i)' => i # j /\ Works(i) /\ at[i] \in Key /\ at'[i] = at[i]
  BY <1>1 DEF Typed, TypeOK, Works, InJob
<1>3. ASSUME NEW i \in Job, Works(i)', Live(at[i])'
      PROVE  status'[at[i]] = "converting" \/ DirOf(at[i]) \in contested
  <2>1. CASE at[i] = at[j]
    BY <1>1, <1>2, <1>3, <2>1 DEF Tiling, Hands, OneWorker, Output
  <2>2. CASE at[i] # at[j]
    BY <1>1, <1>2, <1>3, <2>2 DEF Marked, Live, Output
  <2> QED
    BY <2>1, <2>2
<1> QED
  BY <1>1, <1>2, <1>3 DEF Marked, Output

LEMMA JobMarked ==
  ASSUME Typed, Tiling, Marked, NEW j \in Job,
         \/ j \in Call /\ StartCall(j)
         \/ Converting(j) \/ JobFails(j) \/ PublishFails(j) \/ CallFails(j)
  PROVE  Marked'
<1>1. CASE \/ j \in Call /\ StartCall(j)
           \/ ReadRows(j) \/ RowsDone(j) \/ CallFails(j)
  <2>1. /\ UNCHANGED <<path, status, contested>>
        /\ jpc'[j] \in {"read", "next", "new", "end"}
        /\ \A i \in Job \ {j} : jpc'[i] = jpc[i] /\ at'[i] = at[i]
    BY <1>1 DEF Typed, TypeOK, StartCall, ReadRows, RowsDone, CallFails, Forget,
       JobGoes
  <2> QED
    BY <2>1, MarkedStays DEF Works, InJob, Live
<1>2. CASE \/ StartWarp(j) \/ Tiled(j) \/ JobFails(j) \/ SourceGone(j)
           \/ ClearTiles(j) \/ Publish(j) \/ PublishFails(j) \/ Check(j)
  <2>1. /\ UNCHANGED <<path, status, contested, at>>
        /\ Works(j)
        /\ \A i \in Job \ {j} : jpc'[i] = jpc[i]
    BY <1>2 DEF Typed, TypeOK, StartWarp, Tiled, JobFails, SourceGone, ClearTiles,
       Publish, PublishFails, Check, JobGoes, Works, InJob
  <2>2. \A i \in Job : Works(i)' => Works(i)
    BY <2>1 DEF Works
  <2> QED
    BY <2>1, <2>2, MarkedStays DEF Live
<1> QED
  BY <1>1, <1>2, TakenMarked, RecordedMarked DEF Converting

LEMMA StepMarked ==
  Typed /\ Rows /\ Tiling /\ Marked /\ [Next]_vars => Marked'
<1> SUFFICES ASSUME Typed, Rows, Tiling, Marked, [Next]_vars PROVE Marked'
  OBVIOUS
<1>1. CASE \/ UNCHANGED vars \/ (\E f \in File : Copy(f)) \/ RemoveSource
           \/ RemoveTiles
           \/ Tick \/ List \/ ReadKnown \/ Stat \/ Pause \/ FoundDup \/ NotDup
           \/ FolderDone \/ SkipFile \/ ScanFails \/ (\E f \in File : BeginFile(f))
           \/ \E u \in Upload : WaitTurn(u) \/ SaveFile(u) \/ UploadFails(u)
  <2>1. UNCHANGED <<path, status, contested, jpc, at>>
    BY <1>1 DEF vars, Copy, RemoveSource, RemoveTiles, Tick, List, ReadKnown, Stat, Pause,
       FoundDup, NotDup, FolderDone, SkipFile, ScanFails, BeginFile, WaitTurn,
       SaveFile, UploadFails
  <2> QED
    BY <2>1, MarkedStays DEF Works, Live
<1>2. CASE Kick \/ Restart
  <2>1. /\ UNCHANGED <<path, status, contested>>
        /\ \A j \in Job : \/ jpc'[j] = jpc[j] /\ at'[j] = at[j]
                          \/ jpc'[j] \in {"read", "new", "end"}
    BY <1>2 DEF Typed, TypeOK, Kick, Restart
  <2> QED
    BY <2>1, MarkedStays DEF Works, InJob, Live
<1>3. CASE InsertRow
  BY <1>3, AddedMarked DEF Typed, TypeOK, Rows, InsertRow
<1>4. ASSUME NEW u \in Upload, UploadRow(u) PROVE Marked'
  BY <1>4, AddedMarked, AerialAssumption DEF Rows, UploadRow
<1>5. ASSUME NEW c \in Call, StartCall(c) PROVE Marked'
  BY <1>5, JobMarked DEF Job
<1>6. ASSUME NEW k \in Key, DeleteRow(k) PROVE Marked'
  <2>1. /\ status' = [status EXCEPT ![k] = "deleted"]
        /\ UNCHANGED <<path, contested, at, jpc>>
    BY <1>6 DEF DeleteRow
  <2>2. \A l \in Key : Live(l)' => Live(l) /\ status'[l] = status[l]
    BY <2>1 DEF Typed, TypeOK, Live, RowStatus
  <2>3. \A j \in Job : Works(j)' => Works(j) /\ at[j] \in Key
    BY <2>1 DEF Typed, TypeOK, Works
  <2> QED
    BY <2>1, <2>2, <2>3, MarkedStays
<1> QED
  BY <1>1, <1>2, <1>3, <1>4, <1>5, <1>6, JobMarked DEF Next, Scanning, Uploading

\* The two readings of a row that is there agree.
LEMMA LiveAgrees ==
  ASSUME Typed, NEW k \in Key
  PROVE  /\ Catalogue!Live(k) <=> Live(k)
         /\ Live(k) => DirOf(k) \in Directory
  BY DirType DEF Typed, TypeOK, Live, RowStatus, Catalogue!Live

\* What happens to one contested directory, and to its rows, is the
\* catalogue's business no more.
LEMMA Mixes ==
  ASSUME Typed, Typed', NEW d \in Directory, contested' = contested \cup {d},
         \A k \in Key : \/ DirOf(k)' = DirOf(k) /\ status'[k] = status[k]
                        \/ DirOf(k) \in {d, NoFile} /\ DirOf(k)' = d,
         \A e \in Directory \ {d} : tiles'[e] = tiles[e]
  PROVE  Catalogue!Next
<1>1. /\ \A k \in Key : DirOf(k)' \in Directory \cup {NoFile}
      /\ status' \in [Key -> Catalogue!Status]
  BY AerialAssumption DEF Typed, TypeOK, DirOf, RowStatus, Catalogue!Status
<1>2. tiles' = [tiles EXCEPT ![d] = tiles'[d]] /\ tiles'[d] \in Catalogue!Tiles
  BY DEF Typed, TypeOK, Catalogue!Tiles
<1>3. Catalogue!Mix(d)
  BY <1>1, <1>2 DEF Catalogue!Mix
<1> QED
  BY <1>3 DEF Catalogue!Next

LEMMA AddedCatalogued ==
  ASSUME Typed, Typed', Fresh, NEW f \in File, AddRow(f), UNCHANGED tiles
  PROVE  Catalogue!Next
<1> DEFINE d == Slug[f]
<1>0. d \in Directory
  BY AerialAssumption
<1>1. PICK n \in Key :
        /\ status[n] = "free" /\ status' = [status EXCEPT ![n] = "pending"]
        /\ DirOf(n) = NoFile /\ DirOf(n)' = d
        /\ \A k \in Key \ {n} : DirOf(k)' = DirOf(k)
  BY RowMade
<1>2. /\ \A k \in Key \ {n} : status'[k] = status[k]
      /\ contested' = IF \E k \in RowsOf(d) : Live(k) THEN contested \cup {d}
                                                     ELSE contested
  BY <1>1 DEF Typed, TypeOK, AddRow
<1>3. CASE \E k \in RowsOf(d) : Live(k)
  <2>1. \A k \in Key : \/ DirOf(k)' = DirOf(k) /\ status'[k] = status[k]
                       \/ DirOf(k) \in {d, NoFile} /\ DirOf(k)' = d
    BY <1>1, <1>2 DEF DirOf
  <2>2. contested' = contested \cup {d} /\ \A e \in Directory \ {d} : tiles'[e] = tiles[e]
    BY <1>2, <1>3
  <2> QED
    BY <1>0, <2>1, <2>2, Mixes
<1>4. CASE ~ \E k \in RowsOf(d) : Live(k)
  <2>1. \A k \in Key : Catalogue!Live(k) => DirOf(k) # d
    BY <1>4, LiveAgrees DEF RowsOf
  <2>2. [k \in Key |-> DirOf(k)]' = [[k \in Key |-> DirOf(k)] EXCEPT ![n] = d]
    BY <1>1 DEF DirOf
  <2>3. Catalogue!Register(n, d)
    BY <1>1, <1>2, <1>4, <2>1, <2>2 DEF Catalogue!Register
  <2> QED
    BY <1>0, <1>1, <2>3 DEF Catalogue!Next
<1> QED
  BY <1>3, <1>4

LEMMA TakenCatalogued ==
  ASSUME Typed, Typed', NEW j \in Job, NEW k \in Key, TakeRow(j, k)
  PROVE  Catalogue!Next
<1>1. /\ tiles' = tiles /\ \A l : DirOf(l)' = DirOf(l)
      /\ status' = IF Live(k) THEN [status EXCEPT ![k] = "converting"] ELSE status
      /\ \/ contested' = contested \cup {DirOf(k)}
         \/ contested' = contested /\ Live(k)
  BY DEF TakeRow, SetStatus, DirOf
<1>2. status[k] # "free"
  BY DEF TakeRow, Reach, Typed, ReadTaken
<1>3. DirOf(k) \in Directory
  BY <1>2, DirType
<1>4. CASE contested' = contested \cup {DirOf(k)}
  <2>1. \A l \in Key : \/ DirOf(l)' = DirOf(l) /\ status'[l] = status[l]
                       \/ DirOf(l) \in {DirOf(k), NoFile} /\ DirOf(l)' = DirOf(k)
    BY <1>1 DEF Typed, TypeOK
  <2> QED
    BY <1>1, <1>3, <1>4, <2>1, Mixes
<1>5. CASE contested' = contested /\ Live(k)
  <2>1. Catalogue!Take(k)
    BY <1>1, <1>5, LiveAgrees DEF Catalogue!Take
  <2> QED
    BY <2>1 DEF Catalogue!Next
<1> QED
  BY <1>1, <1>4, <1>5

\* The tiles of one directory, none of whose rows is "done" unless it is
\* contested.
LEMMA TilesCatalogued ==
  ASSUME Typed, Typed', NEW d \in Directory, UNCHANGED <<path, status, contested>>,
         \A k \in Key : DirOf(k) = d /\ status[k] = "done" => d \in contested,
         \A e \in Directory \ {d} : tiles'[e] = tiles[e]
  PROVE  Catalogue!Next
<1>0. \A k : DirOf(k)' = DirOf(k)
  BY DEF DirOf
<1>1. CASE d \in contested
  BY <1>0, <1>1, Mixes
<1>2. CASE d \notin contested
  <2>1. tiles' = [tiles EXCEPT ![d] = tiles'[d]] /\ tiles'[d] \in Catalogue!Tiles
    BY DEF Typed, TypeOK, Catalogue!Tiles
  <2>2. Catalogue!Retile(d)
    BY <1>0, <1>2, <2>1 DEF Catalogue!Retile
  <2> QED
    BY <2>2 DEF Catalogue!Next
<1> QED
  BY <1>1, <1>2

LEMMA PublishedCatalogued ==
  ASSUME Typed, Typed', Tiling, NEW j \in Job,
         ClearTiles(j) \/ Publish(j) \/ PublishFails(j)
  PROVE  Catalogue!Next
<1>1. Works(j) /\ at[j] \in Key
  BY DEF Typed, TypeOK, Works, InJob, ClearTiles, Publish, PublishFails
<1>2. Output(j) \in Directory
  BY <1>1, DirType DEF Output, Tiling, Hands, Taken
<1>3. /\ UNCHANGED <<path, status, contested>>
      /\ \A e \in Directory \ {Output(j)} : tiles'[e] = tiles[e]
  BY DEF Typed, TypeOK, ClearTiles, RemoveDirectory, Publish, PublishFails
<1>4. \A k \in Key : DirOf(k) = Output(j) /\ status[k] = "done" => Output(j) \in contested
  BY <1>1 DEF Tiling, Results, WorkedNotDone
<1> QED
  BY <1>2, <1>3, <1>4, TilesCatalogued

LEMMA RemovedCatalogued ==
  ASSUME Typed, Typed', Tiling, RemoveTiles
  PROVE  Catalogue!Next
<1> DEFINE d == Slug[doomed]
<1>1. /\ UNCHANGED <<path, status, contested>>
      /\ d \in Directory /\ Dooms(d)
  BY AerialAssumption DEF Typed, TypeOK, RemoveTiles, Dooms
<1>2. \A k \in Key : DirOf(k) = d /\ status[k] = "done" => d \in contested
  BY <1>1 DEF Tiling, Results, DoomedNotDone
<1>3. \A e \in Directory \ {d} : tiles'[e] = tiles[e]
  BY RemovesDoomed DEF Dooms
<1> QED
  BY <1>1, <1>2, <1>3, TilesCatalogued

LEMMA RecordedCatalogued ==
  ASSUME Typed, Typed', Tiling, Marked, NEW j \in Job, Record(j)
  PROVE  [Catalogue!Next]_Catalogue!vars
<1>1. /\ Works(j) /\ at[j] \in Key /\ UNCHANGED <<path, tiles, contested>>
      /\ \A k : DirOf(k)' = DirOf(k)
      /\ status' = IF Live(at[j])
                   THEN [status EXCEPT ![at[j]] = IF jpc[j] = "good" THEN "done" ELSE "failed"]
                   ELSE status
  BY DEF Typed, TypeOK, Record, SetStatus, Works, InJob, DirOf
<1>2. CASE ~Live(at[j])
  BY <1>1, <1>2 DEF Catalogue!vars
<1>3. CASE Live(at[j]) /\ Output(j) \in contested
  <2>1. Output(j) \in Directory
    BY <1>1, <1>3, LiveAgrees DEF Output
  <2>2. \A k \in Key : \/ DirOf(k)' = DirOf(k) /\ status'[k] = status[k]
                       \/ DirOf(k) \in {Output(j), NoFile} /\ DirOf(k)' = Output(j)
    BY <1>1 DEF Typed, TypeOK, Output
  <2> QED
    BY <1>1, <1>3, <2>1, <2>2, Mixes
<1>4. CASE Live(at[j]) /\ Output(j) \notin contested
  <2>1. status[at[j]] = "converting"
    BY <1>1, <1>4 DEF Marked
  <2>2. jpc[j] = "good" => tiles[DirOf(at[j])] # "none"
    BY <1>4 DEF Tiling, Results, GoodHasTiles, Output
  <2>3. Catalogue!Answer(at[j])
    BY <1>1, <1>4, <2>1, <2>2 DEF Catalogue!Answer
  <2> QED
    BY <1>1, <2>3 DEF Catalogue!Next
<1> QED
  BY <1>2, <1>3, <1>4

\* Everything else is no business of the catalogue.
LEMMA NextCatalogued ==
  ASSUME Typed, Typed', Rows, Tiling, Marked, [Next]_vars
  PROVE  [Catalogue!Next]_Catalogue!vars
<1>1. CASE \/ UNCHANGED vars \/ (\E f \in File : Copy(f)) \/ RemoveSource
           \/ Tick \/ List \/ ReadKnown \/ Stat \/ Pause \/ FoundDup \/ NotDup
           \/ FolderDone \/ SkipFile \/ ScanFails \/ (\E f \in File : BeginFile(f))
           \/ Kick \/ Restart
           \/ \E u \in Upload : WaitTurn(u) \/ SaveFile(u) \/ UploadFails(u)
  <2>1. UNCHANGED <<path, status, tiles, contested>>
    BY <1>1 DEF vars, Copy, RemoveSource, Tick, List, ReadKnown, Stat, Pause,
       FoundDup, NotDup, FolderDone, SkipFile, ScanFails, BeginFile, Kick, Restart,
       WaitTurn, SaveFile, UploadFails
  <2> QED
    BY <2>1 DEF Catalogue!vars, DirOf
<1>2. ASSUME NEW j \in Job,
             \/ j \in Call /\ StartCall(j)
             \/ ReadRows(j) \/ RowsDone(j) \/ CallFails(j) \/ StartWarp(j)
             \/ Tiled(j) \/ JobFails(j) \/ SourceGone(j) \/ Check(j)
      PROVE  UNCHANGED Catalogue!vars
  BY <1>2 DEF StartCall, ReadRows, RowsDone, CallFails, StartWarp, Tiled, JobFails,
     SourceGone, Check, Catalogue!vars, DirOf
<1>3. CASE InsertRow
  BY <1>3, AddedCatalogued DEF Typed, TypeOK, Rows, InsertRow
<1>4. ASSUME NEW u \in Upload, UploadRow(u) PROVE Catalogue!Next
  BY <1>4, AddedCatalogued, AerialAssumption DEF Rows, UploadRow
<1>5. ASSUME NEW c \in Call, StartCall(c) PROVE UNCHANGED Catalogue!vars
  BY <1>5, <1>2 DEF Job
<1>6. ASSUME NEW k \in Key, DeleteRow(k) PROVE Catalogue!Next
  <2>1. Catalogue!Delete(k)
    BY <1>6, LiveAgrees DEF DeleteRow, Catalogue!Delete, DirOf
  <2> QED
    BY <2>1 DEF Catalogue!Next
<1> QED
  BY <1>1, <1>2, <1>3, <1>4, <1>5, <1>6, TakenCatalogued, PublishedCatalogued,
     RemovedCatalogued, RecordedCatalogued
  DEF Next, Scanning, Uploading, Converting

\* AerialDrop implements TileCatalogue: whoever registers, converts and
\* deletes at the same time, tiles change only under a row that does not say
\* "done", and what happens to a directory in two hands at once, two files of
\* one slug included, stays with that directory.
THEOREM ImplementsCatalogue == Spec => KeepsCatalogue
<1>1. Init => Tiling /\ Marked /\ Catalogue!Init
  <2>1. Init => Marked
    BY DEF Init, Marked, Works, InJob
  <2> QED
    BY <2>1, InitTiling DEF Init, Catalogue!Init, DirOf
<1>2. Typed /\ Rows /\ Tiling /\ [Next]_vars => Tiling'
  BY StepTiling
<1>3. Typed /\ Rows /\ Tiling /\ Marked /\ [Next]_vars => Marked'
  BY StepMarked
<1>4. Typed /\ Typed' /\ Rows /\ Tiling /\ Marked /\ [Next]_vars
        => [Catalogue!Next]_Catalogue!vars
  BY NextCatalogued
<1> QED
  BY <1>1, <1>2, <1>3, <1>4, Inductive, PTL DEF Spec, KeepsCatalogue, Catalogue!Spec

-----------------------------------------------------------------------------
(* What the promise of TileCatalogue is worth *)

Kept ==
  /\ status \in [Key -> Catalogue!Status]
  /\ tiles \in [Directory -> Catalogue!Tiles]
  /\ \A k \in Key : Catalogue!Live(k) => DirOf(k) \in Directory
  /\ Catalogue!Sound

LEMMA KeptInductive ==
  Kept /\ [Catalogue!Next]_Catalogue!vars => Kept'
<1> SUFFICES ASSUME Kept, [Catalogue!Next]_Catalogue!vars PROVE Kept'
  OBVIOUS
<1> USE DEF Kept, Catalogue!Live
<1>1. ASSUME NEW k \in Key, NEW d \in Directory, Catalogue!Register(k, d) PROVE Kept'
  BY <1>1 DEF Catalogue!Register, Catalogue!Sound, Catalogue!Status
<1>2. ASSUME NEW k \in Key, Catalogue!Take(k) \/ Catalogue!Answer(k) \/ Catalogue!Delete(k)
      PROVE  Kept'
  BY <1>2 DEF Catalogue!Take, Catalogue!Answer, Catalogue!Delete, Catalogue!Sound,
     Catalogue!Status
<1>3. ASSUME NEW d \in Directory, Catalogue!Retile(d) PROVE Kept'
  BY <1>3 DEF Catalogue!Retile, Catalogue!Sound
<1>4. ASSUME NEW d \in Directory, Catalogue!Mix(d) PROVE Kept'
  BY <1>4 DEF Catalogue!Mix, Catalogue!Sound
<1>5. CASE UNCHANGED Catalogue!vars
  BY <1>5 DEF Catalogue!vars, Catalogue!Sound
<1> QED
  BY <1>1, <1>2, <1>3, <1>4, <1>5 DEF Catalogue!Next

\* Whatever implements TileCatalogue gives an uncontested directory one row,
\* which has tiles when it says "done".
THEOREM CatalogueIsSound == Catalogue!Spec => []Catalogue!Sound
<1>1. Catalogue!Init => Kept
  BY DEF Catalogue!Init, Kept, Catalogue!Sound, Catalogue!Live, Catalogue!Status,
     Catalogue!Tiles
<1>2. Kept => Catalogue!Sound
  BY DEF Kept
<1> QED
  BY <1>1, <1>2, KeptInductive, PTL DEF Catalogue!Spec

\* Whatever implements TileCatalogue never changes the tiles of an uncontested
\* directory under a row that stays "done".
THEOREM DoneKeepsTiles == Catalogue!Spec => Catalogue!TilesStay
<1> DEFINE dir == [k \in Key |-> DirOf(k)]
           Stay == \A k \in Key :
                     status[k] = "done" /\ status'[k] = "done" /\ dir[k] \in Directory \ contested'
                       => tiles'[dir[k]] = tiles[dir[k]]
<1>1. Catalogue!Init => Kept
  BY DEF Catalogue!Init, Kept, Catalogue!Sound, Catalogue!Live, Catalogue!Status,
     Catalogue!Tiles
<1>2. Kept /\ [Catalogue!Next]_Catalogue!vars => [Stay]_Catalogue!vars
  <2>1. ASSUME Kept, NEW d \in Directory, Catalogue!Retile(d) \/ Catalogue!Mix(d) PROVE Stay
    BY <2>1 DEF Kept, Catalogue!Retile, Catalogue!Mix
  <2>2. ASSUME NEW k \in Key, Catalogue!Take(k) \/ Catalogue!Answer(k) \/ Catalogue!Delete(k)
                              \/ \E d \in Directory : Catalogue!Register(k, d)
        PROVE  UNCHANGED tiles
    BY <2>2 DEF Catalogue!Take, Catalogue!Answer, Catalogue!Delete, Catalogue!Register
  <2> QED
    BY <2>1, <2>2 DEF Catalogue!Next
<1> QED
  BY <1>1, <1>2, KeptInductive, PTL DEF Catalogue!Spec, Catalogue!TilesStay
=============================================================================

--------------------------- MODULE RestartHandoff ---------------------------
(***************************************************************************)
(* Restarting the portal after an apply, and recording that it succeeded   *)
(* (src/scripts/run.ts, src/src/service/flushPendingVersionHistory.ts and  *)
(* the end of confirmPendingSchemaApply).                                  *)
(*                                                                         *)
(* Two processes share one JSON file, .cursor-runtime/restart-request.json.*)
(* The Next server that finished an apply writes a restart request into it *)
(* together with the success row still to be recorded.  The launcher       *)
(* (run.ts) polls the file, or reads it when its Next child has closed,    *)
(* marks the request consumed and replaces the child; the new child        *)
(* records the row when it boots and writes the file back.  Either process *)
(* may die at any point, and the file is read and written without a lock.  *)
(***************************************************************************)
EXTENDS Naturals

CONSTANTS
  Apply,        \* applies that reach the end of their commit
  Mode,         \* Mode[a]: the restart mode of a: "none", "exit" or "launcher"
  Server,       \* Next processes, reused once gone
  NoApply, NoServer,
  KillOutcomes, \* what a SIGTERM to the child may do: see KillNext
  DbFails,      \* inserting a history row may fail
  WriteFails,   \* writing the file back may fail
  Torn,         \* a server may write the file between the launcher's read of
                \* it and the write-back, two statements of one turn
  FreeFails,    \* the forced end of who holds the port may fail
  MaxFaults     \* bound: how many processes may die by themselves, and how
                \* often the mark may fail to be written

ASSUME RestartHandoffAssumption ==
  /\ Mode \in [Apply -> {"none", "exit", "launcher"}]
  /\ NoApply \notin Apply
  /\ NoServer \notin Server
  /\ KillOutcomes \subseteq {"dies", "lingers", "orphaned"}
  /\ {DbFails, WriteFails, Torn, FreeFails} \subseteq BOOLEAN
  /\ MaxFaults \in Nat

VARIABLES
  signal,    \* restart-request.json
  srv,       \* what each Next process is doing; "none": it does not run
  raw,       \* what the flush of each has read from the file
  quiet,     \* processes that have closed their listener but go on
  attached,  \* processes whose shell is a living child of the launcher
  closes,    \* processes whose close event the launcher has not handled yet
  exiting,   \* processes that have scheduled process.exit(0)
  launcher,  \* run.ts: "down", "start", "main" (before its spawn) or "watch"
  relaunch,  \* relaunchNextOnly: "no", "mark", "kill" or "free" (waits for
             \* the port with relaunchInFlight set)
  waiting,   \* relaunches that wait for the port again, with it cleared
  seen,      \* what the launcher has read and is about to write back
  nextProc,  \* the child run.ts thinks it has
  rows,      \* how many success rows each apply has (capped at 2)
  last,      \* history: the apply that wrote the file last
  done,      \* history: the applies that have written it
  fresh,     \* history: processes that have come up since then
  cut,       \* history: a flush ended between its insert and its write-back
  faults     \* processes that died by themselves, and marks not written
             \* (bounded by MaxFaults)

srvVars == <<srv, raw, quiet, exiting>>
launcherVars == <<launcher, relaunch, waiting, seen, nextProc>>
runVars == <<attached, closes, launcherVars>>
histVars == <<rows, last, done, fresh, cut, faults>>
vars == <<signal, srvVars, runVars, histVars>>

(***************************************************************************)
(* The fields of the file that a step reads.  flushed stands for           *)
(* historyFlushedAt; a missing file reads like Blank.                      *)
(***************************************************************************)
Signal ==
  [apply: Apply \cup {NoApply}, mode: {"none", "exit", "launcher"},
   pending: BOOLEAN, consumed: BOOLEAN, flushed: BOOLEAN]

Blank == [apply |-> NoApply, mode |-> "none",
          pending |-> FALSE, consumed |-> FALSE, flushed |-> FALSE]

TypeOK ==
  /\ signal \in Signal
  /\ srv \in [Server -> {"none", "boot", "listen", "insert", "rewrite", "ready"}]
  /\ raw \in [Server -> Signal]
  /\ quiet \subseteq Server
  /\ attached \subseteq Server
  /\ closes \subseteq Server
  /\ exiting \subseteq Server
  /\ launcher \in {"down", "start", "main", "watch"}
  /\ relaunch \in {"no", "mark", "kill", "free"}
  /\ waiting \in Nat
  /\ seen \in Signal
  /\ nextProc \in Server \cup {NoServer}
  /\ rows \in [Apply -> 0..2]
  /\ last \in Apply \cup {NoApply}
  /\ done \subseteq Apply
  /\ fresh \subseteq Server
  /\ cut \in BOOLEAN
  /\ faults \in 0..MaxFaults

Init ==
  /\ signal = Blank
  /\ srv = [s \in Server |-> "none"]
  /\ raw = [s \in Server |-> Blank]
  /\ quiet = {} /\ attached = {} /\ closes = {} /\ exiting = {}
  /\ launcher = "down" /\ relaunch = "no" /\ waiting = 0
  /\ seen = Blank /\ nextProc = NoServer
  /\ rows = [a \in Apply |-> 0]
  /\ last = NoApply /\ done = {} /\ fresh = {} /\ cut = FALSE /\ faults = 0

Alive == {s \in Server : srv[s] # "none"}

\* The processes that listen on the application's port.
Listening == {s \in Alive \ quiet : srv[s] # "boot"}

\* A request the launcher has to act on: markRestartConsumed ends it.
Requested == signal.mode # "none" /\ ~signal.consumed

\* The launcher is between its read of the file and the write-back.
WritingBack == relaunch = "mark" \/ launcher = "start"

-----------------------------------------------------------------------------
(* The server *)

\* Processes end; the launcher is told of those whose shell was its child.
Die(dead) ==
  /\ srv' = [s \in Server |-> IF s \in dead THEN "none" ELSE srv[s]]
  /\ raw' = [s \in Server |-> IF s \in dead THEN Blank ELSE raw[s]]
  /\ quiet' = quiet \ dead
  /\ exiting' = exiting \ dead
  /\ closes' = closes \cup (dead \cap attached)
  /\ attached' = attached \ dead
  /\ fresh' = fresh \ dead
  /\ cut' = (cut \/ \E s \in dead : srv[s] = "rewrite")

\* next start takes the port, or ends when somebody else has it.
Bind(s) ==
  /\ srv[s] = "boot"
  /\ IF Listening = {}
     THEN /\ srv' = [srv EXCEPT ![s] = "listen"]
          /\ fresh' = fresh \cup {s}
          /\ UNCHANGED <<raw, quiet, exiting, attached, closes, cut>>
     ELSE Die({s})
  /\ UNCHANGED <<signal, launcherVars, rows, last, done, faults>>

\* Mutant: a request that the launcher has consumed is not flushed.
FlushReadUnconsumed(s) ==
  /\ srv[s] = "listen"
  /\ IF signal.pending /\ ~signal.consumed
     THEN /\ raw' = [raw EXCEPT ![s] = signal]
          /\ srv' = [srv EXCEPT ![s] = "insert"]
     ELSE /\ srv' = [srv EXCEPT ![s] = "ready"]
          /\ UNCHANGED raw
  /\ UNCHANGED <<signal, quiet, exiting, runVars, histVars>>

\* flushPendingVersionHistory, up to the insert.
FlushRead(s) ==
  /\ srv[s] = "listen"
  /\ IF signal.pending
     THEN /\ raw' = [raw EXCEPT ![s] = signal]
          /\ srv' = [srv EXCEPT ![s] = "insert"]
     ELSE /\ srv' = [srv EXCEPT ![s] = "ready"]
          /\ UNCHANGED raw
  /\ UNCHANGED <<signal, quiet, exiting, runVars, histVars>>

Recorded(a) == [rows EXCEPT ![a] = IF @ = 2 THEN 2 ELSE @ + 1]

\* Mutant: the file is written back whether the insert succeeded or not.
FlushInsertUnseen(s) ==
  /\ srv[s] = "insert"
  /\ \/ rows' = Recorded(raw[s].apply)
     \/ DbFails /\ UNCHANGED rows
  /\ srv' = [srv EXCEPT ![s] = "rewrite"]
  /\ UNCHANGED <<signal, raw, quiet, exiting, runVars, last, done, fresh, cut, faults>>

\* recordVersionHistory; when it fails the flush returns.
FlushInsert(s) ==
  /\ srv[s] = "insert"
  /\ \/ /\ rows' = Recorded(raw[s].apply)
        /\ srv' = [srv EXCEPT ![s] = "rewrite"]
        /\ UNCHANGED raw
     \/ /\ DbFails
        /\ srv' = [srv EXCEPT ![s] = "ready"]
        /\ raw' = [raw EXCEPT ![s] = Blank]
        /\ UNCHANGED rows
  /\ UNCHANGED <<signal, quiet, exiting, runVars, last, done, fresh, cut, faults>>

\* What was read goes back into the file, without historyPending.
FlushRewrite(s) ==
  /\ srv[s] = "rewrite"
  /\ WritingBack => Torn
  /\ \/ /\ signal' = [raw[s] EXCEPT !.pending = FALSE, !.flushed = TRUE]
        /\ UNCHANGED cut
     \/ /\ WriteFails
        /\ cut' = TRUE
        /\ UNCHANGED signal
  /\ srv' = [srv EXCEPT ![s] = "ready"]
  /\ raw' = [raw EXCEPT ![s] = Blank]
  /\ UNCHANGED <<quiet, exiting, runVars, rows, last, done, fresh, faults>>

\* Mutant: the consumed mark of the previous request is kept as well.
SignalOfKeepingConsumed(a) ==
  [apply |-> a, mode |-> Mode[a], pending |-> Mode[a] # "none",
   consumed |-> signal.consumed, flushed |-> signal.flushed]

\* Mutant: the consumed mark is no field of the new request.
SignalOfWithoutMark(a) ==
  [apply |-> a, mode |-> Mode[a], pending |-> Mode[a] # "none",
   flushed |-> signal.flushed]

\* writeRestartSignal keeps the fields that the new request does not set.
SignalOf(a) ==
  [apply |-> a, mode |-> Mode[a], pending |-> Mode[a] # "none",
   consumed |-> FALSE, flushed |-> signal.flushed]

\* The end of confirmPendingSchemaApply in a running server: the request is
\* written; without a restart the success row is inserted at once; with mode
\* "exit" the process ends two seconds later.
Finish(a, s) ==
  /\ a \notin done
  /\ srv[s] = "ready"
  /\ WritingBack => Torn
  /\ signal' = SignalOf(a)
  /\ done' = done \cup {a}
  /\ last' = a
  /\ fresh' = {}
  /\ \/ Mode[a] = "none" /\ rows' = Recorded(a)
     \/ Mode[a] # "none" /\ UNCHANGED rows
     \/ Mode[a] = "none" /\ DbFails /\ UNCHANGED rows
  /\ exiting' = IF Mode[a] = "exit" THEN exiting \cup {s} ELSE exiting
  /\ UNCHANGED <<srv, raw, quiet, runVars, cut, faults>>

\* process.exit(0)
Exit(s) ==
  /\ s \in exiting
  /\ Die({s})
  /\ UNCHANGED <<signal, launcherVars, rows, last, done, faults>>

\* A server that was told to terminate and has drained its connections.
Drained(s) ==
  /\ s \in quiet
  /\ Die({s})
  /\ UNCHANGED <<signal, launcherVars, rows, last, done, faults>>

-----------------------------------------------------------------------------
(* The launcher *)

\* nssm, or an operator, starts run.ts, which reads the file ...
StartLauncher ==
  /\ launcher = "down"
  /\ launcher' = "start"
  /\ seen' = signal
  /\ UNCHANGED <<signal, srvVars, attached, closes, relaunch, waiting, nextProc, histVars>>

\* ... and writes it back with the command it was started by
\* (writeGgnrBootCommand), or goes on without.
RecordBoot ==
  /\ launcher = "start"
  /\ launcher' = "main"
  /\ seen' = Blank
  /\ signal' = seen \/ (WriteFails /\ UNCHANGED signal)
  /\ UNCHANGED <<srvVars, attached, closes, relaunch, waiting, nextProc, histVars>>

\* From reading the request to the kill the launcher does nothing else.
Free == relaunch \notin {"mark", "kill"}

\* waitPortFree: whoever still listens after the time-out is killed.
FreePort ==
  /\ Free
  /\ launcher = "main" \/ relaunch = "free" \/ waiting > 0
  /\ Listening # {}
  /\ Die(Listening)
  /\ UNCHANGED <<signal, launcherVars, rows, last, done, faults>>

\* The port is free; or it is not, and the child is spawned all the same.
PortWaited == Listening = {} \/ FreeFails

Spawn(s) ==
  /\ PortWaited
  /\ srv[s] = "none"
  /\ s \notin closes
  /\ srv' = [srv EXCEPT ![s] = "boot"]
  /\ attached' = attached \cup {s}
  /\ nextProc' = s
  /\ UNCHANGED <<signal, raw, quiet, exiting, closes, seen, histVars>>

\* main: the poll has already been started when it waits for the port.
FirstSpawn(s) ==
  /\ Free
  /\ launcher = "main"
  /\ Spawn(s)
  /\ launcher' = "watch"
  /\ UNCHANGED <<relaunch, waiting>>

\* relaunchNextOnly begins with the request that was just read.
BeginRelaunch ==
  /\ relaunch' = "mark"
  /\ seen' = signal

\* startLauncherPoll: only mode "launcher" is acted on from here.
Poll ==
  /\ launcher \in {"main", "watch"}
  /\ relaunch = "no"
  /\ Requested
  /\ signal.mode = "launcher"
  /\ BeginRelaunch
  /\ UNCHANGED <<signal, srvVars, attached, closes, launcher, waiting, nextProc, histVars>>

\* Mutant: only the fields of the type RestartSignal are written back.
MarkedForgetful(read) == [read EXCEPT !.consumed = TRUE, !.pending = FALSE]

\* Mutant: the request is not marked.
MarkedNot(read) == read

Marked(read) == [read EXCEPT !.consumed = TRUE]

\* markRestartConsumed writes back what was read, with the mark.
Mark ==
  /\ relaunch = "mark"
  /\ relaunch' = "kill"
  /\ seen' = Blank
  /\ signal' = Marked(seen)
  /\ UNCHANGED <<srvVars, attached, closes, launcher, waiting, nextProc, histVars>>

\* kill('SIGTERM').  The child dies; or it closes its listener and drains
\* ("lingers"); or only the shell around it dies and it serves on, an orphan.
\* The forced kill that follows is never reached: nextProc.killed is set by
\* the first one.
KillNext ==
  /\ relaunch = "kill"
  /\ relaunch' = "free"
  /\ LET child == {nextProc} \cap Alive IN
       \/ /\ child = {} \/ "dies" \in KillOutcomes
          /\ Die(child)
       \/ /\ child # {}
          /\ "lingers" \in KillOutcomes
          /\ quiet' = quiet \cup child
          /\ UNCHANGED <<srv, raw, exiting, attached, closes, fresh, cut>>
       \/ /\ child # {}
          /\ "orphaned" \in KillOutcomes
          /\ closes' = closes \cup child
          /\ attached' = attached \ child
          /\ UNCHANGED <<srv, raw, quiet, exiting, fresh, cut>>
  /\ UNCHANGED <<signal, launcher, waiting, seen, nextProc, rows, last, done, faults>>

\* The port is free: the new child.  The launcher has slept since the kill, so
\* the close events of those that died by then have been handled.
Respawn(s) ==
  /\ relaunch = "free"
  /\ closes = {}
  /\ Listening = {}
  /\ Spawn(s)
  /\ relaunch' = "no"
  /\ UNCHANGED <<launcher, waiting>>

\* The port is taken, before or after the first wait: relaunchInFlight and
\* expectNextExitForRelaunch are cleared before the second one.
StillBusy ==
  /\ relaunch = "free"
  /\ closes = {}
  /\ Listening # {}
  /\ relaunch' = "no"
  /\ waiting' = waiting + 1
  /\ UNCHANGED <<signal, srvVars, attached, closes, launcher, seen, nextProc, histVars>>

RespawnLate(s) ==
  /\ Free
  /\ waiting > 0
  /\ Spawn(s)
  /\ waiting' = waiting - 1
  /\ UNCHANGED <<launcher, relaunch>>

LauncherGone ==
  /\ launcher' = "down"
  /\ relaunch' = "no"
  /\ waiting' = 0
  /\ seen' = Blank
  /\ nextProc' = NoServer
  /\ attached' = {}
  /\ closes' = {}

\* The close event of a child: expected during a relaunch, a restart request
\* when there is one, otherwise the launcher ends with it.
Close(s) ==
  /\ Free
  /\ s \in closes
  /\ IF relaunch # "no" \/ Requested
     THEN /\ closes' = closes \ {s}
          /\ nextProc' = NoServer
          /\ IF relaunch = "no" THEN BeginRelaunch ELSE UNCHANGED <<relaunch, seen>>
          /\ UNCHANGED <<attached, launcher, waiting>>
     ELSE LauncherGone
  /\ UNCHANGED <<signal, srvVars, histVars>>

-----------------------------------------------------------------------------
(* Faults *)

Fault == faults < MaxFaults /\ faults' = faults + 1

\* markRestartConsumed swallows a write that fails; the relaunch goes on.
MarkFails ==
  /\ WriteFails
  /\ Fault
  /\ relaunch = "mark"
  /\ relaunch' = "kill"
  /\ seen' = Blank
  /\ UNCHANGED <<signal, srvVars, attached, closes, launcher, waiting, nextProc,
                 rows, last, done, fresh, cut>>

ServerDies(s) ==
  /\ Fault
  /\ srv[s] # "none"
  /\ Die({s})
  /\ UNCHANGED <<signal, launcherVars, rows, last, done>>

\* The machine goes down, or nssm stops the whole process tree.
MachineDies ==
  /\ Fault
  /\ launcher # "down"
  /\ LauncherGone
  /\ srv' = [s \in Server |-> "none"]
  /\ raw' = [s \in Server |-> Blank]
  /\ quiet' = {} /\ exiting' = {} /\ fresh' = {}
  /\ cut' = (cut \/ \E s \in Server : srv[s] = "rewrite")
  /\ UNCHANGED <<signal, rows, last, done>>

\* run.ts alone dies and leaves its child running.
LauncherDies ==
  /\ Fault
  /\ launcher # "down"
  /\ LauncherGone
  /\ UNCHANGED <<signal, srvVars, rows, last, done, fresh, cut>>

-----------------------------------------------------------------------------
Serve(s) ==
  \/ Bind(s) \/ FlushRead(s) \/ FlushInsert(s) \/ FlushRewrite(s)
  \/ Exit(s) \/ Drained(s)

Launch(s) == FirstSpawn(s) \/ Respawn(s) \/ RespawnLate(s) \/ Close(s)

Next ==
  \/ \E s \in Server : Serve(s) \/ Launch(s) \/ ServerDies(s)
  \/ \E a \in Apply, s \in Server : Finish(a, s)
  \/ StartLauncher \/ RecordBoot \/ FreePort \/ Poll \/ Mark \/ KillNext \/ StillBusy
  \/ MarkFails \/ MachineDies \/ LauncherDies

Spec == Init /\ [][Next]_vars

(***************************************************************************)
(* Fairness: a process that runs goes on, the poll timer fires and nssm    *)
(* starts the launcher again.  Nobody has to apply anything.               *)
(***************************************************************************)
Fairness ==
  /\ \A s \in Server : WF_vars(Serve(s)) /\ WF_vars(Close(s))
  /\ WF_vars(StartLauncher) /\ WF_vars(RecordBoot)
  /\ WF_vars(FreePort) /\ WF_vars(Poll) /\ WF_vars(Mark) /\ WF_vars(KillNext)
  /\ WF_vars(\E s \in Server : FirstSpawn(s))
  /\ WF_vars(\E s \in Server : Respawn(s) \/ RespawnLate(s))

FairSpec == Spec /\ Fairness

-----------------------------------------------------------------------------
(* Properties *)

\* The success of the apply that asked for the last restart is never
\* forgotten: it is recorded, or the file still holds it for the next boot,
\* whichever process dies when.
LastRowKept ==
  last # NoApply /\ Mode[last] # "none"
    => rows[last] > 0 \/ (signal.apply = last /\ signal.pending)

\* No apply gets a second success row, however often the server is started
\* again and whoever was writing the file, unless a flush ended between its
\* insert and its write-back.  OwesOneRow implies it.
RecordedOnce == (\E a \in Apply : rows[a] > 1) => cut

\* A restart that was asked for happens: a process that took the
\* port after the request comes up, unless another apply finishes meanwhile.
RestartHappens ==
  \A a \in Apply :
    last = a /\ Mode[a] # "none"
      ~> last # a \/ \E s \in fresh : srv[s] = "ready"

\* ... and its success row is recorded.
RowRecorded ==
  \A a \in Apply : last = a /\ Mode[a] # "none" ~> last # a \/ rows[a] > 0

\* Restarts come to an end: the launcher does not relaunch for ever, whatever
\* another process writes over its mark, if the mark is written in the end.
RestartsEnd == <>[](relaunch = "no")

-----------------------------------------------------------------------------
(* What the hand-off promises (OwedRow) *)

\* The row in the file is owed until it is inserted; the write-back that
\* follows only removes what has been settled from the file.
Owed ==
  IF signal.pending /\ \A s \in Server : srv[s] # "rewrite"
  THEN signal.apply ELSE NoApply

Promise == INSTANCE OwedRow WITH
  Later    <- {a \in Apply : Mode[a] # "none"},
  finished <- done,
  owed     <- Owed,
  recorded <- {a \in Apply : rows[a] > 0},
  twice    <- {a \in Apply : rows[a] > 1}

\* The file that two processes read and write without a lock acts like one
\* row that is owed and settled in a single step.
OwesOneRow == Promise!Spec
=============================================================================

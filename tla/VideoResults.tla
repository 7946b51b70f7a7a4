---------------------------- MODULE VideoResults ----------------------------
(***************************************************************************)
(* What the analysis of road videos promises, with everything of how it is *)
(* done left out: no user's request under way, no list, no worker, no      *)
(* error, no restart.                                                      *)
(*                                                                         *)
(* Files change.  A video is asked for, and only a video that is asked for *)
(* gets a result, in one step: of a version no older than that of the      *)
(* result before, and, when it is the version the file has, computed from  *)
(* that version.  The anchors of a result are dropped only when it says    *)
(* that it is none.                                                        *)
(***************************************************************************)
EXTENDS Naturals

CONSTANT Video

VARIABLES
  file,     \* the version of each file, 0 when there is none
  newest,   \* the last version made
  waiting,  \* the videos that are asked for
  status,   \* what the row of each says
  ver,      \* the version it names
  anchors   \* the version its anchors were computed from, 0 for none

vars == <<file, newest, waiting, status, ver, anchors>>

Init ==
  /\ file = [v \in Video |-> 1] /\ newest = 1
  /\ waiting = {}
  /\ status = [v \in Video |-> "none"]
  /\ ver = [v \in Video |-> 0]
  /\ anchors = [v \in Video |-> 0]

Change(v) ==
  /\ newest' = newest + 1
  /\ \E n \in {newest', 0} : file' = [file EXCEPT ![v] = n]
  /\ UNCHANGED <<waiting, status, ver, anchors>>

Ask(v) ==
  /\ waiting' = waiting \cup {v}
  /\ status' = [status EXCEPT ![v] = IF @ = "none" THEN "queued" ELSE @]
  /\ UNCHANGED <<file, newest, ver, anchors>>

\* A later request for the same video goes on waiting.
Answer(v) ==
  /\ v \in waiting
  /\ waiting' \in {waiting, waiting \ {v}}
  /\ UNCHANGED <<file, newest>>

Finish(v, n, a) ==
  /\ Answer(v)
  /\ ver[v] <= n /\ (n = file[v] => a = n)
  /\ status' = [status EXCEPT ![v] = "done"]
  /\ ver' = [ver EXCEPT ![v] = n]
  /\ anchors' = [anchors EXCEPT ![v] = a]

Fail(v, n) ==
  /\ Answer(v)
  /\ ver[v] <= n
  /\ status' = [status EXCEPT ![v] = "failed"]
  /\ ver' = [ver EXCEPT ![v] = n]
  /\ UNCHANGED anchors

DropAnchors(v) ==
  /\ status[v] # "done"
  /\ anchors' = [anchors EXCEPT ![v] = 0]
  /\ UNCHANGED <<file, newest, waiting, status, ver>>

Next ==
  \E v \in Video :
    \/ Change(v) \/ Ask(v) \/ DropAnchors(v)
    \/ \E n \in 0..newest : Fail(v, n)
    \/ \E n \in 1..newest, a \in 1..newest : Finish(v, n, a)

Spec == Init /\ [][Next]_vars

-----------------------------------------------------------------------------
(* What follows from the promise *)

\* A result of the present file has the anchors of that file.
Matched ==
  \A v \in Video :
    status[v] = "done" /\ ver[v] = file[v] => anchors[v] = ver[v]

\* A result that nobody has asked to replace stays as it is, and none gives
\* way to one of an older file.
Outlast ==
  \A v \in Video :
    /\ ver[v] <= ver'[v]
    /\ status[v] = "done" /\ v \notin waiting =>
         status'[v] = "done" /\ ver'[v] = ver[v] /\ anchors'[v] = anchors[v]

ResultsStay == [][Outlast]_vars
=============================================================================

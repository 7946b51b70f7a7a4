------------------------------- MODULE OwedRow -------------------------------
(***************************************************************************)
(* What the hand-off over a restart promises for the success rows of the   *)
(* version history, with the processes, the port and the file left out.    *)
(*                                                                         *)
(* An apply that needs a restart owes its row when it finishes.  One step  *)
(* settles the row that is owed.  Only the next apply to finish takes the  *)
(* place of a row that is owed, and a row that is settled is owed again    *)
(* only when the step that settled it was interrupted, which cut records.  *)
(***************************************************************************)
CONSTANTS
  Apply,   \* applies that reach the end of their commit
  Later,   \* those of them whose row waits for a restart
  NoApply

VARIABLES
  finished,  \* the applies that have finished
  last,      \* the one that finished last
  owed,      \* the apply whose row is still to be recorded, or NoApply
  recorded,  \* the applies with a row
  twice,     \* the applies with more than one
  cut        \* a settling step has been interrupted

vars == <<finished, last, owed, recorded, twice, cut>>

Init ==
  /\ finished = {}
  /\ last = NoApply /\ owed = NoApply
  /\ recorded = {} /\ twice = {}
  /\ cut = FALSE

Finish(a) ==
  /\ a \notin finished
  /\ finished' = finished \cup {a}
  /\ last' = a
  /\ UNCHANGED <<twice, cut>>

\* Without a restart the row is recorded at once, or lost.
FinishNow(a) ==
  /\ a \notin Later
  /\ Finish(a)
  /\ owed' = NoApply
  /\ recorded' \in {recorded, recorded \cup {a}}

FinishLater(a) ==
  /\ a \in Later
  /\ Finish(a)
  /\ owed' = a
  /\ UNCHANGED recorded

Settle ==
  /\ owed # NoApply
  /\ owed' = NoApply
  /\ recorded' = recorded \cup {owed}
  /\ twice' = twice \cup (recorded \cap {owed})
  /\ UNCHANGED <<finished, last, cut>>

Interrupt ==
  /\ owed = NoApply
  /\ last \in Later \cap recorded
  /\ owed' = last
  /\ cut' = TRUE
  /\ UNCHANGED <<finished, last, recorded, twice>>

Next ==
  \/ \E a \in Apply : FinishNow(a) \/ FinishLater(a)
  \/ Settle \/ Interrupt

Spec == Init /\ [][Next]_vars

-----------------------------------------------------------------------------
(* What follows from the promise *)

\* The row of the last apply is recorded or owed, and no row is recorded
\* twice before an interruption.
Accounted ==
  /\ last \in Later => last \in recorded \/ owed = last
  /\ twice # {} => cut
=============================================================================

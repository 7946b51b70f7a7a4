-------------------------- MODULE TableReplacement --------------------------
(***************************************************************************)
(* What replacing a table by a download promises, with everything of how   *)
(* it is done left out: no lock, no run, no statement.                     *)
(*                                                                         *)
(* A whole download is staged beside the table and becomes the table in    *)
(* two steps, between which there is none.  The one it replaces is kept    *)
(* aside in between, and put back when the second step cannot be taken.    *)
(* A download far shorter than the table is not staged, and never takes    *)
(* the place of the table that is kept aside for it.                       *)
(*                                                                         *)
(* The promise holds until two runs have been past the lock at once.  From *)
(* then on this specification asks for nothing.                            *)
(***************************************************************************)
EXTENDS Naturals

CONSTANTS
  Download,  \* whole downloads
  Size,      \* the number of rows of each
  First,     \* the download that is the table at first
  NoTable

VARIABLES
  shown,   \* the table
  staged,  \* a download that has been counted and waits to become the table
  kept,    \* the table that was there before
  faults,  \* failed statements and processes that ended
  sound    \* no two runs have been past the lock at once

vars == <<shown, staged, kept, faults, sound>>

Init ==
  /\ shown = First
  /\ staged = NoTable /\ kept = NoTable
  /\ faults = 0
  /\ sound = TRUE

Fits(new, table) == table # NoTable => Size[new] >= Size[table]

Stage ==
  /\ staged = NoTable
  /\ staged' \in {d \in Download : Fits(d, shown)}
  /\ UNCHANGED <<shown, kept, faults, sound>>

\* Making room for the table to be kept aside.  Only after a fault is there
\* no table to be kept, and then the staged one is the whole copy left.
Forget ==
  /\ shown # NoTable \/ (staged # NoTable /\ faults > 0)
  /\ kept' = NoTable
  /\ UNCHANGED <<shown, staged, faults, sound>>

TakeAway ==
  /\ shown # NoTable /\ staged # NoTable /\ kept = NoTable
  /\ kept' = shown /\ shown' = NoTable
  /\ UNCHANGED <<staged, faults, sound>>

Publish ==
  /\ shown = NoTable
  /\ staged # NoTable /\ Fits(staged, kept)
  /\ shown' = staged /\ staged' = NoTable
  /\ UNCHANGED <<kept, faults, sound>>

PutBack ==
  /\ shown = NoTable
  /\ kept # NoTable
  /\ shown' = kept /\ kept' = NoTable
  /\ UNCHANGED <<staged, faults, sound>>

\* A fault changes none of the tables, but may cost the staged one.
Fail ==
  /\ faults' = faults + 1
  /\ staged' \in {staged, NoTable}
  /\ UNCHANGED <<shown, kept, sound>>

Disturb == sound' = FALSE

\* Disturb first: what is staged after it may be no download, and have no size.
Next == Disturb \/ Stage \/ Forget \/ TakeAway \/ Publish \/ PutBack \/ Fail

Spec == Init /\ [][Next]_vars

-----------------------------------------------------------------------------
(* What follows from the promise *)

\* A single fault leaves a whole download under one of the three names.
OneCopy ==
  sound /\ faults <= 1 => \E t \in {shown, staged, kept} : t \in Download
=============================================================================

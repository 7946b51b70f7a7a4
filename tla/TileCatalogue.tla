--------------------------- MODULE TileCatalogue ---------------------------
(***************************************************************************)
(* What the catalogue of drone imagery promises, with everything of how it *)
(* is kept left out: no folder check, no upload, no gate, no job.          *)
(*                                                                         *)
(* A directory of tiles belongs to one row.  Its tiles change only while   *)
(* no row of it says "done", and a row says so again only when there are   *)
(* tiles; nobody answers for a row that is deleted.                        *)
(*                                                                         *)
(* The promise is given for every directory by itself, until it has been   *)
(* in two hands at once.  Then anything may happen to it and to its rows,  *)
(* and nothing to any other directory.                                     *)
(***************************************************************************)
CONSTANTS
  Directory,
  Key,     \* of rows
  NoDir

VARIABLES
  dir,     \* the directory that the tiles of each row go to
  status,  \* what each row says
  tiles,   \* what each directory holds
  mixed    \* directories that have been in two hands at once

vars == <<dir, status, tiles, mixed>>

Status == {"free", "pending", "converting", "done", "failed", "deleted"}
Tiles == {"none", "part", "whole"}

Init ==
  /\ dir = [k \in Key |-> NoDir]
  /\ status = [k \in Key |-> "free"]
  /\ tiles = [d \in Directory |-> "none"]
  /\ mixed = {}

Live(k) == status[k] \notin {"free", "deleted"}

Register(k, d) ==
  /\ status[k] = "free"
  /\ \A l \in Key : Live(l) => dir[l] # d
  /\ dir' = [dir EXCEPT ![k] = d]
  /\ status' = [status EXCEPT ![k] = "pending"]
  /\ UNCHANGED <<tiles, mixed>>

Take(k) ==
  /\ Live(k)
  /\ status' = [status EXCEPT ![k] = "converting"]
  /\ UNCHANGED <<dir, tiles, mixed>>

Retile(d) ==
  /\ \A k \in Key : dir[k] = d => status[k] # "done"
  /\ \E t \in Tiles : tiles' = [tiles EXCEPT ![d] = t]
  /\ UNCHANGED <<dir, status, mixed>>

Answer(k) ==
  /\ status[k] = "converting"
  /\ \/ status' = [status EXCEPT ![k] = "failed"]
     \/ tiles[dir[k]] # "none" /\ status' = [status EXCEPT ![k] = "done"]
  /\ UNCHANGED <<dir, tiles, mixed>>

Delete(k) ==
  /\ Live(k)
  /\ status' = [status EXCEPT ![k] = "deleted"]
  /\ UNCHANGED <<dir, tiles, mixed>>

Mix(d) ==
  /\ mixed' = mixed \cup {d}
  /\ dir' \in [Key -> Directory \cup {NoDir}]
  /\ status' \in [Key -> Status]
  /\ \A k \in Key : \/ dir'[k] = dir[k] /\ status'[k] = status[k]
                    \/ dir[k] \in {d, NoDir} /\ dir'[k] = d
  /\ \E t \in Tiles : tiles' = [tiles EXCEPT ![d] = t]

Next ==
  \/ \E k \in Key : Take(k) \/ Answer(k) \/ Delete(k)
  \/ \E d \in Directory : Retile(d) \/ Mix(d)
  \/ \E k \in Key, d \in Directory : Register(k, d)

Spec == Init /\ [][Next]_vars

-----------------------------------------------------------------------------
(* What follows from the promise *)

\* A directory has one row, and a row that says "done" has tiles.
Sound ==
  \A k \in Key : Live(k) /\ dir[k] \notin mixed =>
    /\ \A l \in Key : Live(l) /\ dir[l] = dir[k] => l = k
    /\ status[k] = "done" => tiles[dir[k]] # "none"

\* Whoever looks at the tiles of a row that stays "done" sees them unchanged.
TilesStay ==
  [][\A k \in Key :
       status[k] = "done" /\ status'[k] = "done" /\ dir[k] \in Directory \ mixed'
         => tiles'[dir[k]] = tiles[dir[k]]]_vars
=============================================================================

----------------------------- MODULE MCKrasSync -----------------------------
(***************************************************************************)
(* Instances of KrasSync for TLC: three runs, two of them of one server.   *)
(***************************************************************************)
EXTENDS KrasSync, TLC

CONSTANTS k1, k2, k3, p1, p2

\* Two runs of one server and one of another.
MCHome == (k1 :> p1) @@ (k2 :> p1) @@ (k3 :> p2)

\* The pool of the first may open two connections, the other one only one.
MCPoolMax == (p1 :> 2) @@ (p2 :> 1)

\* Runs of the same server are interchangeable.
MCSymmetry == Permutations({k1, k2})
=============================================================================

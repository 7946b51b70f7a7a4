---------------------------- MODULE MCAerialDrop ----------------------------
(***************************************************************************)
(* Instances of AerialDrop for TLC: one or two files of a watched folder,  *)
(* one of which a user uploads as well.                                    *)
(***************************************************************************)
EXTENDS AerialDrop, TLC

CONSTANTS f1, f2, u1, d1

\* The upload saves a file that the folder check may also come across.
MCTarget == [u \in Upload |-> f1]

\* The names of f1 and f2 differ only in characters that the slug replaces.
MCSlug == [f \in File |-> d1]
=============================================================================

--------------------------- MODULE MCSourceApply ---------------------------
(***************************************************************************)
(* Instances of SourceApply for TLC.  Every package has f1; the first      *)
(* session also brings f2, which the second makes an orphan, and the       *)
(* second brings the protected f3, so that a commit overwrites, creates    *)
(* and orphans files.                                                      *)
(***************************************************************************)
EXTENDS SourceApply, TLC

CONSTANTS s1, s2, s3, r1, r2, f1, f2, f3

MCPkg ==
  [s \in Session |->
     File \cap CASE s = s1 -> {f1, f2} [] s = s2 -> {f1, f3} [] OTHER -> {f1}]

\* Requests are interchangeable.
MCSymmetry == Permutations(Request)

\* With one file, and both or neither applied with a restart, so are sessions.
MCSessionSymmetry == Permutations(Request) \cup Permutations(Session)
=============================================================================

-------------------------- MODULE MCRestartHandoff --------------------------
(***************************************************************************)
(* Instances of RestartHandoff for TLC: two applies, the modes of which    *)
(* each configuration chooses.                                             *)
(***************************************************************************)
EXTENDS RestartHandoff, TLC

CONSTANTS a1, a2, n1, n2, n3

LauncherThenExit == [a \in Apply |-> IF a = a1 THEN "launcher" ELSE "exit"]

\* Server processes are interchangeable.
MCSymmetry == Permutations(Server)
=============================================================================

------------------------------ MODULE MCFeeSync ------------------------------
(***************************************************************************)
(* Instances of FeeSync for TLC: two years of three bill numbers, of which *)
(* a gap of two hides the rest.                                            *)
(***************************************************************************)
EXTENDS FeeSync
=============================================================================

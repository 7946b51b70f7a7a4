------------------------- MODULE MCRoadVideoTrack -------------------------
(***************************************************************************)
(* Instances of RoadVideoTrack for TLC.  The videos and the users of each  *)
(* configuration are model values; the liveness of the run forbids the     *)
(* use of symmetry.                                                        *)
(***************************************************************************)
EXTENDS RoadVideoTrack
=============================================================================

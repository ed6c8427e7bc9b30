--------------------------- MODULE MCReplayStore ---------------------------
(***************************************************************************)
(* Instances of ReplayStore for TLC.                                       *)
(***************************************************************************)
EXTENDS ReplayStore
=============================================================================

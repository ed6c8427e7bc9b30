-------------------------- MODULE MCReplayRecorder --------------------------
(***************************************************************************)
(* Instances of ReplayRecorder for TLC.                                    *)
(***************************************************************************)
EXTENDS ReplayRecorder

CONSTANTS a1, a2, l1
=============================================================================

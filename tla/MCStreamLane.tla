---------------------------- MODULE MCStreamLane ----------------------------
(***************************************************************************)
(* Instances of StreamLane for TLC.                                        *)
(***************************************************************************)
EXTENDS StreamLane

CONSTANTS s1, tunnel

NeedTunnel == [s \in Streams |-> tunnel]
=============================================================================

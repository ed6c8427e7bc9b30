----------------------------- MODULE MCLiveView -----------------------------
(***************************************************************************)
(* Instances of LiveView for TLC.                                          *)
(***************************************************************************)
EXTENDS LiveView

CONSTANTS s1, s2, v1
=============================================================================

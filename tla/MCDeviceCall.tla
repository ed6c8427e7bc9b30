---------------------------- MODULE MCDeviceCall ----------------------------
(***************************************************************************)
(* An instance of DeviceCall for TLC: s1 and s2 are ordinary Sends; x1 and *)
(* x2 are SendComputer calls of a caller who chose the id "1" for both, as *)
(* one does who tries a command again.  It is also the number of the first *)
(* Send of every socket.                                                   *)
(***************************************************************************)
EXTENDS DeviceCall

CONSTANTS s1, s2, x1, x2

Mixed    == {s1, s2, x1, x2}
Computed == {x1, x2}
ChosenId == [c \in Computed |-> 1]
=============================================================================

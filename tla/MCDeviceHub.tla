---------------------------- MODULE MCDeviceHub ----------------------------
(***************************************************************************)
(* Instances of DeviceHub for TLC: two or three sockets of one device.     *)
(* Hub entries of different devices never meet except in the sweeper's     *)
(* list, so one device is enough for the hub; three sockets let a second   *)
(* eviction start while the first displaced socket is still closing.       *)
(***************************************************************************)
EXTENDS DeviceHub

CONSTANTS d1, a1, a2

OneDevice == {d1}
TwoSockets == {a1, a2}
OwnerOf2 == [c \in TwoSockets |-> d1]
=============================================================================

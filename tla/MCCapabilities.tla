--------------------------- MODULE MCCapabilities ---------------------------
(***************************************************************************)
(* An instance of Capabilities for TLC: a composite of a click and a key   *)
(* press, the stop of a live view, a stream of the jump host and one of    *)
(* /connect.  "later" is a capability this build of the device does not    *)
(* know.                                                                   *)
(***************************************************************************)
EXTENDS Capabilities

CONSTANTS mix, stop, jump, net, odd

AllCaps   == {"composite", "click", "press_keys", "vnc", "ssh", "tunnel", "later"}
KnownCaps == AllCaps \ {"later"}
FourCalls == {mix, stop, jump, net, odd}
KindOf    == [c \in FourCalls |->
                CASE c \in {mix, odd} -> "command" [] c = stop -> "stop" [] c = jump -> "sshd" [] c = net -> "other"]
NeedOf    == [c \in FourCalls |->
                CASE c = mix  -> <<"composite", "click", "press_keys">>
                  [] c = odd  -> <<"composite", "click">>
                  [] c = stop -> <<"vnc">>
                  [] c = jump -> <<"ssh">>
                  [] c = net  -> <<"tunnel">>]
BrokenCalls == {odd}

TwoGrants == {NewCapabilitySet({"composite", "click"}), NewCapabilitySet({"composite", "press_keys", "ssh"})}
TwoEdits  == {[op |-> "disable", names |-> {"press_keys", "tunnel"}],
              [op |-> "only", names |-> {"ssh"}], [op |-> "all", names |-> {}]}
=============================================================================

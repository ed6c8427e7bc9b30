--------------------------- MODULE MCAgentDispatch ---------------------------
(***************************************************************************)
(* An instance of AgentDispatch for TLC: screenshots, input, a composite   *)
(* that may fail halfway, a capped recording with its stop and status, and *)
(* a file pushed, in four orders of arrival.                               *)
(***************************************************************************)
EXTENDS AgentDispatch

CONSTANTS shot1, shot2, chord, text, comp, odd, rec1, rec2, stop1, poll, push

WorkCmds == {shot1, shot2, chord, text, comp, odd, rec1, rec2, stop1, poll, push}
WorkArrivals == {<<shot1, text, comp, shot2, rec1, stop1>>, <<odd, shot1, stop1, chord, shot2>>,
                 <<rec1, shot1, stop1, rec2, poll, shot2>>, <<stop1, rec2, poll, rec1, push, shot2>>}
CappedStarts == {rec1}

VerbOf ==
  [c \in Cmds |->
     CASE c \in {shot1, shot2} -> "screenshot" [] c = chord -> "chord" [] c = text -> "text"
       [] c \in {comp, odd} -> "composite" [] c \in {rec1, rec2} -> "start" [] c = stop1 -> "stop"
       [] c = poll -> "status" [] c = push -> "transfer"]

WorkKeys == {"key", "Shift", "spare", "mapping", "Ctrl", "c", "d", "left"}

\* comp may fail halfway, with the button down; odd does, at an op that only the
\* relay knows.
InputOf ==
  [c \in Cmds \cap {chord, text, comp, odd} |->
     CASE c = chord -> [mods |-> <<"Ctrl">>, mains |-> <<"c", "d">>]
       [] c = text  -> <<"plain", "shift", "remap">>
       [] c = comp  -> <<[op |-> "pointer_down", key |-> "left"], [op |-> "screenshot"],
                         [op |-> "pointer_up", key |-> "left"],
                         [op |-> "pointer_move"], [op |-> "type", char |-> "shift"],
                         [op |-> "click", click |-> [mods |-> <<"Ctrl", "Shift">>, button |-> "left"]]>>
       [] c = odd   -> <<[op |-> "pointer_down", key |-> "left"], [op |-> "drag"]>>]
=============================================================================

----------------------------- MODULE RemoteCall -----------------------------
(***************************************************************************)
(* What DeviceConn.Send and SendComputer promise a tool call               *)
(* (relay/conn.go:398-403): the command reaches the device at most once,   *)
(* and the call returns at most once, with the device's reply to that      *)
(* command or with an error.  An error says nothing about whether the      *)
(* command was carried out, unless it was turned down before it was sent.  *)
(*                                                                         *)
(* A reply is told from another by the id of its command alone.  The lane  *)
(* gives each id it makes itself to one command of a link; it says nothing *)
(* of ids that callers choose, and starts again on the next link.  So a    *)
(* call may be told of another command, of the same id, over the same link *)
(* if a caller chose that id, or over an earlier one.  That much is all    *)
(* the promise leaves open.                                                *)
(***************************************************************************)
EXTENDS Naturals

CONSTANTS
  Calls,
  Chosen,    \* those whose callers choose the id
  Links      \* in order of dialing

VARIABLES
  status,    \* status[c]: what the caller of c has been told
  handled,   \* handled[c]: how often the device carried out or refused c
  link,      \* link[c]: the link c was sent over, 0 before that
  id         \* id[c]: its id there, 0 before that

vars == <<status, handled, link, id>>

Init ==
  /\ status = [c \in Calls |-> "idle"]
  /\ handled = [c \in Calls |-> 0]
  /\ link = [c \in Calls |-> 0]
  /\ id = [c \in Calls |-> 0]

\* An id the lane makes is new among those it made on that link.
Begin(c) ==
  /\ status[c] = "idle"
  /\ status' = [status EXCEPT ![c] = "active"]
  /\ \E l \in Links : link' = [link EXCEPT ![c] = l]
  /\ id' = [id EXCEPT ![c] = id'[c]] /\ id'[c] # 0
  /\ c \notin Chosen =>
       \A b \in Calls \ Chosen : link[b] = link'[c] => id[b] # id'[c]
  /\ UNCHANGED handled

\* The device may get to a command after its caller has given up.
Handle(c) ==
  /\ id[c] # 0 /\ handled[c] = 0
  /\ handled' = [handled EXCEPT ![c] = 1]
  /\ UNCHANGED <<status, link, id>>

Return(c, from, what) ==
  /\ status[c] \in from
  /\ status' = [status EXCEPT ![c] = what]
  /\ UNCHANGED <<handled, link, id>>

Answer(c)  == handled[c] = 1 /\ Return(c, {"active"}, "answered")
Fail(c)    == Return(c, {"idle", "active"}, "failed")
Mistake(c) ==
  /\ \E b \in Calls \ {c} : handled[b] = 1 /\ id[b] = id[c] /\ link[b] <= link[c]
  /\ Return(c, {"active"}, "mistaken")

Next == \E c \in Calls : Begin(c) \/ Handle(c) \/ Answer(c) \/ Fail(c) \/ Mistake(c)

Spec == Init /\ [][Next]_vars
=============================================================================

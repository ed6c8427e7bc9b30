---------------------------- MODULE Capabilities ----------------------------
(***************************************************************************)
(* What a device exposes, narrowed from two sides: the account's grant,    *)
(* kept in the device's row and read by the relay's gate before every      *)
(* command and stream (relay/gate.go, store, main.go), and the device's    *)
(* own ceiling, kept in a file beside the Linux agent, loaded when its     *)
(* process starts, checked before every command it is sent                 *)
(* (linux/internal/agent/capability.go) and reported to the relay on every *)
(* connect, which mirrors it in the same row.                              *)
(*                                                                         *)
(* A call is one Send or OpenStream.  Calls, the owner's updates, the      *)
(* read pumps of old and new sockets, the agent and the command line tool  *)
(* interleave; a read of the row is one step.                              *)
(***************************************************************************)
EXTENDS Naturals, Sequences, FiniteSets

CONSTANTS
  Caps,        \* capability names, those of later versions included
  Known,       \* those this build of the device lists (capability.All)
  Calls,
  Kind,        \* Kind[c]: "command", "stop", or a stream to "sshd" or to "other"
  Need,        \* Need[c]: what the server asks the gate for, in order
  Broken,      \* composites with no steps, too many, an unknown op or a long wait
  Grants,      \* capability sets the owner chooses from in the dashboard
  Edits,       \* edits of the command line tool: [op, names]
  MaxCalls,    \* BOUND: calls that ever begin
  MaxSock,     \* BOUND: sockets the agent ever dials
  MaxEdits,    \* BOUND: runs of the command line tool
  MaxUpdates,  \* BOUND: the owner's updates
  None

ASSUME CapsAssumption == Known \subseteq Caps /\ {"ssh", "tunnel"} \subseteq Caps
ASSUME CallsAssumption ==
  /\ Kind \in [Calls -> {"command", "stop", "sshd", "other"}]
  /\ Need \in [Calls -> Seq(Caps)]
  /\ Broken \subseteq Calls
ASSUME BoundsAssumption == {MaxCalls, MaxSock, MaxEdits, MaxUpdates} \subseteq Nat

-----------------------------------------------------------------------------
(***************************************************************************)
(* Capability sets (protocol/capability.go and linux/internal/capability): *)
(* a wildcard, or exactly the names listed.                                *)
(***************************************************************************)
CapabilitySet == [all : BOOLEAN, set : SUBSET Caps]

AllCapabilities     == [all |-> TRUE, set |-> {}]
NewCapabilitySet(S) == [all |-> FALSE, set |-> S]
Allows(s, cap)      == s.all \/ cap \in s.set

Intersect(a, b) ==
  IF a.all THEN b ELSE IF b.all THEN a ELSE NewCapabilitySet(a.set \cap b.set)

\* Toggle: an edit of the wildcard first spells it out, as this build knows it.
Spelled(s) == IF s.all THEN Known ELSE s.set

Edited(e, s) ==
  CASE e.op = "all"     -> AllCapabilities
    [] e.op = "only"    -> NewCapabilitySet(e.names)
    [] e.op = "enable"  -> NewCapabilitySet(Spelled(s) \cup e.names)
    [] e.op = "disable" -> NewCapabilitySet(Spelled(s) \ e.names)

ASSUME SetsAssumption ==
  /\ \A g \in Grants : g \in CapabilitySet
  /\ \A e \in Edits : e \in [op : {"all", "only", "enable", "disable"}, names : SUBSET Known]
ASSUME NoneAssumption == None \notin CapabilitySet

VARIABLES
  \* the device's row
  account,     \* devices.capabilities
  client,      \* devices.client_capabilities
  \* the relay
  hub,         \* the socket the hub hands out, 0 for none
  pump,        \* pump[k]: "off", "reading" or "done"
  hand,        \* hand[k]: a report read off the socket and not stored yet
  toSrv,       \* toSrv[k]: reports on the wire
  pc, on, idx, \* idx[c]: which need of c is checked next
  \* the device
  ceiling,     \* of the running process, None while none runs
  blind,       \* that process could not read its file
  cur,         \* its socket, 0 for none
  dialed,      \* sockets dialed so far
  toDev,       \* toDev[k]: calls on the wire
  ran, refused,
  file,        \* ~/.config/abacad/capabilities, None if there is none
  tool,        \* the command line tool: [pc, to]
  edits, updates,
  \* history, no program reads it
  seen,        \* seen[c]: what both sides of the row allowed since c began
  wanted,      \* what the owner last asked the device to expose
  under,       \* under[c]: what the owner wanted when the process that ran c started
  booted,      \* wanted, when the running process started
  storedBy,    \* the socket whose report was stored last
  missed       \* a report could not be stored, and none has been since

rowVars    == <<account, client>>
relayVars  == <<hub, pump, hand, toSrv>>
callVars   == <<pc, on, idx>>
deviceVars == <<ceiling, blind, cur, dialed>>
fileVars   == <<file, tool, edits>>
histVars   == <<wanted, under, booted, storedBy, missed>>
vars == <<rowVars, relayVars, callVars, deviceVars, fileVars, toDev, ran, refused, updates, seen, histVars>>

Socks == 1..MaxSock

\* EffectiveDeviceCapabilities: both columns in one query.
Effective == Intersect(client, account)

\* What the row allows from here on is added to what each call has seen.
Watch ==
  seen' = [c \in Calls |->
             IF pc'[c] \in {"idle", "done"} THEN seen[c]
             ELSE seen[c] \cup {cap \in Caps : Allows(Intersect(client', account'), cap)}]

Init ==
  /\ account = AllCapabilities /\ client = AllCapabilities
  /\ hub = 0
  /\ pump = [k \in Socks |-> "off"]
  /\ hand = [k \in Socks |-> None]
  /\ toSrv = [k \in Socks |-> << >>]
  /\ pc = [c \in Calls |-> "idle"]
  /\ on = [c \in Calls |-> 0]
  /\ idx = [c \in Calls |-> 1]
  /\ ceiling = None /\ blind = FALSE /\ cur = 0 /\ dialed = 0
  /\ toDev = [k \in Socks |-> << >>]
  /\ ran = {} /\ refused = {}
  /\ file = None /\ tool = [pc |-> "off", to |-> None]
  /\ edits = 0 /\ updates = 0
  /\ seen = [c \in Calls |-> {}]
  /\ wanted = AllCapabilities
  /\ under = [c \in Calls |-> None]
  /\ booted = AllCapabilities
  /\ storedBy = 0 /\ missed = FALSE

-----------------------------------------------------------------------------
(***************************************************************************)
(* The relay: Send and OpenStream up to the write                          *)
(***************************************************************************)
Begun == {c \in Calls : pc[c] # "idle"}

Begin(c) ==
  /\ pc[c] = "idle" /\ hub # 0 /\ Cardinality(Begun) < MaxCalls
  /\ on' = [on EXCEPT ![c] = hub]
  /\ pc' = [pc EXCEPT ![c] = "checking"]
  /\ UNCHANGED <<rowVars, relayVars, idx, deviceVars, fileVars, toDev, ran, refused, updates, histVars>>
  /\ Watch

\* Mutant: a composite is authorised as a single verb.
BugToCheck(c) == IF Kind[c] = "stop" \/ idx[c] > 1 THEN << >> ELSE Need[c]

\* A stop is never gated; everything else asks the gate need by need.
ToCheck(c) == IF Kind[c] = "stop" THEN << >> ELSE Need[c]

\* One reading of the row.  An error of the query denies as well.
Check(c) ==
  /\ pc[c] = "checking" /\ idx[c] <= Len(ToCheck(c))
  /\ \/ /\ Allows(Effective, ToCheck(c)[idx[c]])
        /\ idx' = [idx EXCEPT ![c] = @ + 1]
        /\ UNCHANGED pc
     \/ /\ pc' = [pc EXCEPT ![c] = "done"]
        /\ UNCHANGED idx
  /\ UNCHANGED <<rowVars, relayVars, on, deviceVars, fileVars, toDev, ran, refused, updates, histVars>>
  /\ Watch

Transmit(c) ==
  /\ pc[c] = "checking" /\ idx[c] > Len(ToCheck(c)) /\ c \notin Broken
  /\ toDev' = [toDev EXCEPT ![on[c]] = IF cur = on[c] THEN Append(@, c) ELSE @]
  /\ pc' = [pc EXCEPT ![c] = "sent"]
  /\ UNCHANGED <<rowVars, relayVars, on, idx, deviceVars, fileVars, ran, refused, updates, histVars>>
  /\ Watch

\* A malformed composite is turned down, at whatever step that shows.
Malformed(c) ==
  /\ pc[c] = "checking" /\ c \in Broken
  /\ pc' = [pc EXCEPT ![c] = "done"]
  /\ UNCHANGED <<rowVars, relayVars, on, idx, deviceVars, fileVars, toDev, ran, refused, updates, histVars>>
  /\ Watch

\* setCapabilities: the dashboard always stores an explicit list.
Update(g) ==
  /\ updates < MaxUpdates
  /\ updates' = updates + 1
  /\ account' = g
  /\ UNCHANGED <<client, relayVars, callVars, deviceVars, fileVars, toDev, ran, refused, histVars>>
  /\ Watch

-----------------------------------------------------------------------------
(***************************************************************************)
(* The relay: a socket's read pump and the reports it carries              *)
(***************************************************************************)
PumpRead(k) ==
  /\ pump[k] = "reading" /\ hand[k] = None /\ toSrv[k] # << >>
  /\ hand' = [hand EXCEPT ![k] = Head(toSrv[k])]
  /\ toSrv' = [toSrv EXCEPT ![k] = Tail(@)]
  /\ UNCHANGED <<rowVars, hub, pump, callVars, deviceVars, fileVars, toDev, ran, refused, updates, seen, histVars>>

\* Mutant: the report is merged into the row instead of replacing it.
BugPumpStore(k) ==
  /\ hand[k] # None
  /\ client' = Intersect(client, hand[k])
  /\ storedBy' = k /\ missed' = FALSE
  /\ hand' = [hand EXCEPT ![k] = None]
  /\ UNCHANGED <<account, hub, pump, toSrv, callVars, deviceVars, fileVars, toDev, ran, refused,
                 updates, wanted, under, booted>>
  /\ Watch

\* recordClientCapabilities replaces the column, by device id: whose socket the
\* report came on is not asked.  A failed statement is only logged.
PumpStore(k) ==
  /\ hand[k] # None
  /\ \/ client' = hand[k] /\ storedBy' = k /\ missed' = FALSE
     \/ missed' = TRUE /\ UNCHANGED <<client, storedBy>>
  /\ hand' = [hand EXCEPT ![k] = None]
  /\ UNCHANGED <<account, hub, pump, toSrv, callVars, deviceVars, fileVars, toDev, ran, refused,
                 updates, wanted, under, booted>>
  /\ Watch

\* Read fails: the link is down, or a newer socket has been registered.
PumpEnds(k) ==
  /\ pump[k] = "reading" /\ hand[k] = None
  /\ cur # k
  /\ pump' = [pump EXCEPT ![k] = "done"]
  /\ toSrv' = [toSrv EXCEPT ![k] = << >>]
  /\ hub' = IF hub = k THEN 0 ELSE hub
  /\ UNCHANGED <<rowVars, hand, callVars, deviceVars, fileVars, toDev, ran, refused, updates, seen, histVars>>

-----------------------------------------------------------------------------
(***************************************************************************)
(* The device                                                              *)
(***************************************************************************)
Load(f) == IF f = None THEN AllCapabilities ELSE f

\* main: the file is read before anything else; if that fails, everything
\* is exposed.
Start ==
  /\ ceiling = None
  /\ \/ ceiling' = Load(file) /\ blind' = FALSE
     \/ ceiling' = AllCapabilities /\ blind' = TRUE
  /\ booted' = wanted
  /\ UNCHANGED <<rowVars, relayVars, callVars, cur, dialed, fileVars, toDev, ran, refused, updates, seen,
                 wanted, under, storedBy, missed>>

\* The full set, first thing on every socket.
Connect ==
  /\ ceiling # None /\ cur = 0 /\ dialed < MaxSock
  /\ LET k == dialed + 1
     IN  /\ dialed' = k /\ cur' = k /\ hub' = k
         /\ pump' = [pump EXCEPT ![k] = "reading"]
         /\ toSrv' = [toSrv EXCEPT ![k] = <<ceiling>>]
  /\ UNCHANGED <<rowVars, hand, callVars, ceiling, blind, fileVars, toDev, ran, refused, updates, seen, histVars>>

\* The link drops, with what the server had written on it.
Drop ==
  /\ cur # 0
  /\ toDev' = [toDev EXCEPT ![cur] = << >>]
  /\ cur' = 0
  /\ UNCHANGED <<rowVars, relayVars, callVars, ceiling, blind, dialed, fileVars, ran, refused, updates, seen, histVars>>

\* The process ends; a restart is how an edit of the file takes effect.
Kill ==
  /\ ceiling # None /\ cur = 0
  /\ ceiling' = None /\ blind' = FALSE
  /\ UNCHANGED <<rowVars, relayVars, callVars, cur, dialed, fileVars, toDev, ran, refused, updates, seen, histVars>>

\* Mutant: a composite is checked as a single verb.
BugExposes(c) == Kind[c] = "stop" \/ Allows(ceiling, Need[c][1])

\* checkCapability for a command, checkTunnelTarget for a stream: the device
\* sees a target only, and its own sshd is reached under either name.
Exposes(c) ==
  CASE Kind[c] = "command" -> \A i \in DOMAIN Need[c] : Allows(ceiling, Need[c][i])
    [] Kind[c] = "stop"    -> TRUE
    [] Kind[c] = "sshd"    -> Allows(ceiling, "ssh") \/ Allows(ceiling, "tunnel")
    [] Kind[c] = "other"   -> Allows(ceiling, "tunnel")

Receive ==
  /\ cur # 0 /\ toDev[cur] # << >>
  /\ LET c == Head(toDev[cur])
     IN  IF Exposes(c)
         THEN /\ ran' = ran \cup {c}
              /\ under' = [under EXCEPT ![c] = IF blind THEN AllCapabilities ELSE booted]
              /\ UNCHANGED refused
         ELSE refused' = refused \cup {c} /\ UNCHANGED <<ran, under>>
  /\ toDev' = [toDev EXCEPT ![cur] = Tail(@)]
  /\ UNCHANGED <<rowVars, relayVars, callVars, deviceVars, fileVars, updates, seen, wanted, booted, storedBy, missed>>

-----------------------------------------------------------------------------
(***************************************************************************)
(* The command line tool: load, edit, and a save that truncates the file   *)
(* and then writes it.                                                     *)
(***************************************************************************)
ToolLoad(e) ==
  /\ tool.pc = "off" /\ edits < MaxEdits
  /\ edits' = edits + 1
  /\ tool' = [pc |-> "save", to |-> Edited(e, Load(file))]
  /\ UNCHANGED <<rowVars, relayVars, callVars, deviceVars, file, toDev, ran, refused, updates, seen, histVars>>

ToolTruncate ==
  /\ tool.pc = "save"
  /\ file' = NewCapabilitySet({})
  /\ tool' = [tool EXCEPT !.pc = "write"]
  /\ UNCHANGED <<rowVars, relayVars, callVars, deviceVars, edits, toDev, ran, refused, updates, seen, histVars>>

ToolWrite ==
  /\ tool.pc = "write"
  /\ file' = tool.to
  /\ wanted' = tool.to
  /\ tool' = [pc |-> "off", to |-> None]
  /\ UNCHANGED <<rowVars, relayVars, callVars, deviceVars, edits, toDev, ran, refused, updates, seen,
                 under, booted, storedBy, missed>>

\* Killed before the write, or the disk is full.
ToolDies ==
  /\ tool.pc # "off"
  /\ tool' = [pc |-> "off", to |-> None]
  /\ UNCHANGED <<rowVars, relayVars, callVars, deviceVars, file, edits, toDev, ran, refused, updates, seen, histVars>>

-----------------------------------------------------------------------------
CallStep(c) == Begin(c) \/ Check(c) \/ Transmit(c) \/ Malformed(c)
PumpStep(k) == PumpRead(k) \/ PumpStore(k) \/ PumpEnds(k)
DeviceStep  == Start \/ Connect \/ Drop \/ Kill \/ Receive
ToolStep    == (\E e \in Edits : ToolLoad(e)) \/ ToolTruncate \/ ToolWrite \/ ToolDies

Next ==
  \/ \E c \in Calls : CallStep(c)
  \/ \E g \in Grants : Update(g)
  \/ \E k \in Socks : PumpStep(k)
  \/ DeviceStep
  \/ ToolStep

Spec == Init /\ [][Next]_vars

-----------------------------------------------------------------------------
TypeOK ==
  /\ account \in CapabilitySet /\ client \in CapabilitySet
  /\ hub \in 0..MaxSock /\ cur \in 0..MaxSock /\ dialed \in 0..MaxSock
  /\ pump \in [Socks -> {"off", "reading", "done"}]
  /\ hand \in [Socks -> CapabilitySet \cup {None}]
  /\ toSrv \in [Socks -> Seq(CapabilitySet)]
  /\ pc \in [Calls -> {"idle", "checking", "sent", "done"}]
  /\ on \in [Calls -> 0..MaxSock] /\ \A c \in Calls : pc[c] # "idle" => on[c] # 0
  /\ idx \in [Calls -> Nat \ {0}]
  /\ ceiling \in CapabilitySet \cup {None} /\ blind \in BOOLEAN
  /\ toDev \in [Socks -> Seq(Calls)]
  /\ ran \subseteq Calls /\ refused \subseteq Calls
  /\ file \in CapabilitySet \cup {None}
  /\ tool \in [pc : {"off"}, to : {None}] \cup [pc : {"save", "write"}, to : CapabilitySet]
  /\ edits \in Nat /\ updates \in Nat
  /\ seen \in [Calls -> SUBSET Caps]
  /\ wanted \in CapabilitySet /\ booted \in CapabilitySet
  /\ under \in [Calls -> CapabilitySet \cup {None}]
  /\ storedBy \in 0..MaxSock /\ missed \in BOOLEAN

(***************************************************************************)
(* No call reaches the device on an authorisation the row did not give     *)
(* while the call was being made: each of its needs, every step of a       *)
(* composite included, was allowed by the account and by the device's      *)
(* report together at some moment since the call began.  So a revocation   *)
(* that is stored binds every call that begins after it.                   *)
(***************************************************************************)
Granted ==
  /\ TypeOK
  /\ \A c \in Calls :
       pc[c] = "sent" /\ Kind[c] # "stop" => \A i \in DOMAIN Need[c] : Need[c][i] \in seen[c]

(***************************************************************************)
(* The device has the final say: whatever the relay lets through, with a   *)
(* stale or missing report, nothing runs that the owner had turned off on  *)
(* the device before its agent started.  An edit cut short exposes less,   *)
(* never more.  (An agent that cannot read its file exposes everything.)   *)
(***************************************************************************)
FinalSay ==
  \A c \in ran :
    \/ Kind[c] = "stop"
    \/ Kind[c] = "command" /\ \A i \in DOMAIN Need[c] : Allows(under[c], Need[c][i])
    \/ Kind[c] = "sshd" /\ (Allows(under[c], "ssh") \/ Allows(under[c], "tunnel"))
    \/ Kind[c] = "other" /\ Allows(under[c], "tunnel")

(***************************************************************************)
(* The relay's mirror is the device's ceiling once the current socket's    *)
(* report has been taken in, whatever the row held before.  The two ways   *)
(* it is wrong: the statement failed, or the pump of an older socket still *)
(* held a report and stored it last.                                       *)
(***************************************************************************)
MirrorFollows ==
  cur # 0 /\ hub = cur /\ toSrv[cur] = << >> /\ hand[cur] = None =>
    client = ceiling \/ missed \/ storedBy < cur
=============================================================================

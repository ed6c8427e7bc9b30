------------------------------ MODULE LiveView ------------------------------
(***************************************************************************)
(* The live view of one device: vnc.Manager on the server (vnc/vnc.go),    *)
(* which pairs the device's reverse connection with a browser, and the     *)
(* vncHandler of the Linux agent (linux/internal/agent/vnc.go).            *)
(*                                                                         *)
(* A session is one call of Manager.Start.  The two commands to the device *)
(* travel over the command lane; the agent runs each in a goroutine of its *)
(* own, so they are a set.  RFB bytes are left out.                        *)
(***************************************************************************)
EXTENDS Naturals

CONSTANTS
  Sessions,
  Viewers,        \* browser connections of the owning account
  None

ASSUME NoneAssumption == None \notin Sessions /\ None \notin Viewers

VARIABLES
  \* Manager
  spc, victim,        \* each Start: its step, and the session it replaces
  cool,               \* the cooldown of lastStart runs
  byDevice, byIngress, byTicket,
  \* sessions
  device, viewer,     \* the attached sockets
  linked, closing,    \* session.linked; how far session.close has got
  asked, timer,       \* close was called; the TTL timer is armed
  stops,              \* stop commands that tellDeviceStop has on their way
  vpc,                \* each browser: the session it found
  \* the device
  starts,             \* start commands on their way
  active, starting,   \* vncHandler's session; the start that holds its lock
  ws, pipe            \* per session: ingress WebSocket, pipe goroutine

startVars == <<spc, victim, cool>>
mapVars   == <<byDevice, byIngress, byTicket>>
sessVars  == <<device, viewer, linked, closing, asked, timer, stops, vpc>>
devVars   == <<starts, active, starting, ws, pipe>>
liveVars == <<startVars, mapVars, sessVars, devVars>>

LiveInit ==
  /\ spc = [s \in Sessions |-> "idle"] /\ victim = [s \in Sessions |-> None] /\ cool = FALSE
  /\ byDevice = None /\ byIngress = {} /\ byTicket = {}
  /\ device = {} /\ viewer = [s \in Sessions |-> None]
  /\ linked = {} /\ closing = [s \in Sessions |-> "no"]
  /\ asked = {} /\ timer = {} /\ stops = {}
  /\ vpc = [v \in Viewers |-> None]
  /\ starts = {} /\ active = None /\ starting = None
  /\ ws = [s \in Sessions |-> "no"] /\ pipe = [s \in Sessions |-> "no"]

-----------------------------------------------------------------------------
(***************************************************************************)
(* session.close: once, and later callers wait for the first.  closed and  *)
(* the two sockets are read under the session's lock; then the sockets are *)
(* closed, the session leaves the maps and the device is told, detached.   *)
(***************************************************************************)
Open(s) == closing[s] = "no"
Ended(s) == s # None => closing[s] = "done"   \* None: there is nothing to wait for

\* Manager.remove
Remove(s) ==
  /\ byDevice' = IF byDevice = s THEN None ELSE byDevice
  /\ byIngress' = byIngress \ {s}
  /\ byTicket' = byTicket \ {s}

CloseMark(s) ==
  /\ s \in asked /\ Open(s)
  /\ closing' = [closing EXCEPT ![s] = "marked"]
  /\ UNCHANGED <<startVars, mapVars, device, viewer, linked, asked, timer, stops, vpc, devVars>>

CloseRest(s) ==
  /\ closing[s] = "marked"
  /\ closing' = [closing EXCEPT ![s] = "done"]
  /\ viewer' = [viewer EXCEPT ![s] = None]
  /\ ws' = [ws EXCEPT ![s] = IF s \in device THEN "down" ELSE @]
  /\ device' = device \ {s}
  /\ Remove(s)
  /\ stops' = stops \cup {s}
  /\ UNCHANGED <<startVars, linked, asked, timer, vpc, starts, active, starting, pipe>>

\* tellDeviceStop is best effort.
StopLost(s) ==
  /\ s \in stops
  /\ stops' = stops \ {s}
  /\ UNCHANGED <<startVars, mapVars, device, viewer, linked, closing, asked, timer, vpc, devVars>>

-----------------------------------------------------------------------------
(***************************************************************************)
(* Manager.Start and Stop                                                  *)
(***************************************************************************)

\* The device is on the hub and the last start is long enough ago.
StartCheck(s) ==
  /\ spc[s] = "idle" /\ ~cool
  /\ cool' = TRUE
  /\ spc' = [spc EXCEPT ![s] = "checked"]
  /\ UNCHANGED <<victim, mapVars, sessVars, devVars>>

CoolOff ==
  /\ cool
  /\ cool' = FALSE
  /\ UNCHANGED <<spc, victim, mapVars, sessVars, devVars>>

Ask(s) == asked' = IF s = None THEN asked ELSE asked \cup {s}

StartStop(s) ==
  /\ spc[s] = "checked"
  /\ spc' = [spc EXCEPT ![s] = "stopping"]
  /\ victim' = [victim EXCEPT ![s] = byDevice]
  /\ Ask(byDevice)
  /\ UNCHANGED <<cool, mapVars, device, viewer, linked, closing, timer, stops, vpc, devVars>>


Register(s) ==
  /\ spc[s] = "stopping" /\ Ended(victim[s])
  /\ spc' = [spc EXCEPT ![s] = "registered"]
  /\ byDevice' = s /\ byIngress' = byIngress \cup {s} /\ byTicket' = byTicket \cup {s}
  /\ UNCHANGED <<victim, cool, sessVars, devVars>>

\* The start command, if the gate lets it through.
SendStart(s) ==
  /\ spc[s] = "registered"
  /\ spc' = [spc EXCEPT ![s] = "sent"]
  /\ starts' = starts \cup {s}
  /\ UNCHANGED <<victim, cool, mapVars, sessVars, active, starting, ws, pipe>>

StartOk(s) ==
  /\ spc[s] = "sent" /\ pipe[s] # "no"
  /\ spc' = [spc EXCEPT ![s] = "ok"]
  /\ timer' = timer \cup {s}
  /\ UNCHANGED <<victim, cool, mapVars, device, viewer, linked, closing, asked, stops, vpc, devVars>>

\* Denied, not written, an error from the device, or no reply in time.
StartFails(s) ==
  /\ spc[s] \in {"registered", "sent"}
  /\ spc' = [spc EXCEPT ![s] = "failed"]
  /\ Remove(s)
  /\ UNCHANGED <<victim, cool, sessVars, devVars>>

\* Stop, from the dashboard or from setCapabilities taking live view away.
Stop ==
  /\ byDevice # None /\ Ask(byDevice)
  /\ UNCHANGED <<startVars, mapVars, device, viewer, linked, closing, timer, stops, vpc, devVars>>

\* MUTANT of Expire: the timer stops the device's session instead of its own.
BugExpire(s) ==
  /\ s \in timer
  /\ timer' = timer \ {s}
  /\ Ask(byDevice)
  /\ UNCHANGED <<startVars, mapVars, device, viewer, linked, closing, stops, vpc, devVars>>

Expire(s) ==
  /\ s \in timer
  /\ timer' = timer \ {s}
  /\ Ask(s)
  /\ UNCHANGED <<startVars, mapVars, device, viewer, linked, closing, stops, vpc, devVars>>

-----------------------------------------------------------------------------
(***************************************************************************)
(* ServeIngress, ServeWatch, attach and the pipe                           *)
(***************************************************************************)

\* A dial to the ingress: the token is looked up, then the socket accepted.
IngressLookup(s) ==
  /\ ws[s] = "dialing"
  /\ ws' = [ws EXCEPT ![s] = IF s \in byIngress THEN "accepted" ELSE "refused"]
  /\ UNCHANGED <<startVars, mapVars, sessVars, starts, active, starting, pipe>>

\* The pipe starts when both sides are there.
Link(s) == linked' = IF s \in device' /\ viewer'[s] # None THEN linked \cup {s} ELSE linked

\* MUTANT of AttachDevice: closed is not looked at.
BugAttachDevice(s) ==
  /\ ws[s] = "accepted"
  /\ device' = device \cup {s} /\ ws' = [ws EXCEPT ![s] = "attached"]
  /\ UNCHANGED viewer /\ Link(s)
  /\ UNCHANGED <<startVars, mapVars, closing, asked, timer, stops, vpc,
                 starts, active, starting, pipe>>

AttachDevice(s) ==
  /\ ws[s] = "accepted"
  /\ IF Open(s)
     THEN /\ device' = device \cup {s} /\ ws' = [ws EXCEPT ![s] = "attached"]
     ELSE /\ ws' = [ws EXCEPT ![s] = "down"] /\ UNCHANGED device
  /\ UNCHANGED viewer /\ Link(s)
  /\ UNCHANGED <<startVars, mapVars, closing, asked, timer, stops, vpc,
                 starts, active, starting, pipe>>

\* The ticket, which only a successful Start returns, is consumed ...
Watch(v, s) ==
  /\ vpc[v] = None /\ spc[s] = "ok" /\ s \in byTicket
  /\ byTicket' = byTicket \ {s}
  /\ vpc' = [vpc EXCEPT ![v] = s]
  /\ UNCHANGED <<startVars, byDevice, byIngress, device, viewer, linked, closing, asked,
                 timer, stops, devVars>>

\* ... and the browser attached, unless the session is over.
AttachViewer(v, s) ==
  /\ vpc[v] = s
  /\ Open(s) /\ viewer[s] = None
  /\ viewer' = [viewer EXCEPT ![s] = v]
  /\ UNCHANGED device /\ Link(s)
  /\ UNCHANGED <<startVars, mapVars, closing, asked, timer, stops, vpc, devVars>>

\* A side of the pipe fails: the browser leaves or the device's socket does.
PipeFails(s) ==
  /\ s \in linked
  /\ Ask(s)
  /\ UNCHANGED <<startVars, mapVars, device, viewer, linked, closing, timer, stops, vpc, devVars>>

-----------------------------------------------------------------------------
(***************************************************************************)
(* The agent's vncHandler.  start holds the lock from end to end.          *)
(***************************************************************************)
Unlocked == starting = None
Cut(s) == IF s = None THEN ws ELSE [ws EXCEPT ![s] = "down"]

\* MUTANT of DeviceStart: the running session is left alone.
BugDeviceStart(s) ==
  /\ s \in starts /\ Unlocked
  /\ starts' = starts \ {s}
  /\ starting' = s /\ active' = None
  /\ ws' = [ws EXCEPT ![s] = "dialing"]
  /\ UNCHANGED <<startVars, mapVars, sessVars, pipe>>

\* A running session is stopped, the ingress of the new one is dialed.
DeviceStart(s) ==
  /\ s \in starts /\ Unlocked
  /\ starts' = starts \ {s}
  /\ starting' = s /\ active' = None
  /\ ws' = [Cut(active) EXCEPT ![s] = "dialing"]
  /\ UNCHANGED <<startVars, mapVars, sessVars, pipe>>

\* start returns: with a pipe, or with the server or the local VNC refused.
DeviceStarted(s) ==
  /\ starting = s /\ ws[s] \in {"accepted", "attached", "down", "refused"}
  /\ starting' = None
  /\ \/ /\ ws[s] # "refused"
        /\ active' = s /\ pipe' = [pipe EXCEPT ![s] = "running"]
        /\ UNCHANGED ws
     \/ /\ ws' = Cut(s)
        /\ UNCHANGED <<active, pipe>>
  /\ UNCHANGED <<startVars, mapVars, sessVars, starts>>

StopLocked == active' = None /\ ws' = Cut(active)

DeviceStop(s) ==
  /\ s \in stops /\ Unlocked
  /\ stops' = stops \ {s}
  /\ StopLocked
  /\ UNCHANGED <<startVars, mapVars, device, viewer, linked, closing, asked, timer, vpc, starts, starting, pipe>>

\* The local VNC server ends, or the socket breaks.
LocalEnds(s) ==
  /\ ws[s] = "attached" /\ pipe[s] = "running"
  /\ ws' = Cut(s)
  /\ UNCHANGED <<startVars, mapVars, sessVars, starts, active, starting, pipe>>

PipeEnds(s) ==
  /\ pipe[s] = "running" /\ ws[s] = "down"
  /\ pipe' = [pipe EXCEPT ![s] = "ended"]
  /\ UNCHANGED <<startVars, mapVars, sessVars, starts, active, starting, ws>>

\* The pipe goroutine stops the handler, whichever session it runs by now.
PipeStops(s) ==
  /\ pipe[s] = "ended" /\ Unlocked
  /\ pipe' = [pipe EXCEPT ![s] = "done"]
  /\ StopLocked
  /\ UNCHANGED <<startVars, mapVars, sessVars, starts, starting>>

-----------------------------------------------------------------------------
ServerStep(s) ==
  \/ StartCheck(s) \/ StartStop(s) \/ Register(s) \/ SendStart(s) \/ StartOk(s) \/ StartFails(s)
  \/ Expire(s) \/ CloseMark(s) \/ CloseRest(s) \/ StopLost(s)
  \/ IngressLookup(s) \/ AttachDevice(s) \/ PipeFails(s)
BrowserStep(v) == \E s \in Sessions : Watch(v, s) \/ AttachViewer(v, s)
DeviceStep(s) ==
  \/ DeviceStart(s) \/ DeviceStarted(s) \/ DeviceStop(s)
  \/ LocalEnds(s) \/ PipeEnds(s) \/ PipeStops(s)

LiveNext ==
  \/ \E s \in Sessions : ServerStep(s) \/ DeviceStep(s)
  \/ \E v \in Viewers : BrowserStep(v)
  \/ CoolOff \/ Stop

LiveSpec == LiveInit /\ [][LiveNext]_liveVars

(***************************************************************************)
(* Goroutines run on, commands that were written reach the device, timers  *)
(* fire.  Nobody is obliged to start, watch or stop a session.             *)
(***************************************************************************)
LiveFairness ==
  \A s \in Sessions :
    /\ WF_liveVars(StartStop(s) \/ Register(s) \/ StartOk(s) \/ StartFails(s))
    /\ WF_liveVars(Expire(s)) /\ WF_liveVars(CloseMark(s) \/ CloseRest(s))
    /\ WF_liveVars(ws[s] = "down" /\ PipeFails(s)) /\ WF_liveVars(IngressLookup(s) \/ AttachDevice(s))
    /\ SF_liveVars(DeviceStart(s)) /\ WF_liveVars(DeviceStarted(s))
    /\ WF_liveVars(PipeEnds(s)) /\ SF_liveVars(PipeStops(s))

LiveFairSpec == LiveSpec /\ LiveFairness

-----------------------------------------------------------------------------
SPC == {"idle", "checked", "stopping", "registered", "sent", "ok", "failed"}

LiveTypeOK ==
  /\ spc \in [Sessions -> SPC] /\ victim \in [Sessions -> Sessions \cup {None}]
  /\ cool \in BOOLEAN
  /\ byDevice \in Sessions \cup {None} /\ byIngress \subseteq Sessions /\ byTicket \subseteq Sessions
  /\ device \subseteq Sessions /\ viewer \in [Sessions -> Viewers \cup {None}]
  /\ linked \subseteq Sessions /\ \A s \in linked : Open(s) => s \in device /\ viewer[s] # None
  /\ closing \in [Sessions -> {"no", "marked", "done"}]
  /\ asked \subseteq Sessions /\ timer \subseteq Sessions /\ stops \subseteq Sessions
  /\ vpc \in [Viewers -> Sessions \cup {None}]
  /\ starts \subseteq Sessions
  /\ active \in Sessions \cup {None} /\ starting \in Sessions \cup {None}
  /\ ws \in [Sessions -> {"no", "dialing", "accepted", "refused", "attached", "down"}]
  /\ pipe \in [Sessions -> {"no", "running", "ended", "done"}]

(***************************************************************************)
(* A closed session holds no socket and is in no map, whatever was being   *)
(* accepted or looked up while it closed (vnc.go:244-269, 291-320).        *)
(***************************************************************************)
ClosedIsClean ==
  /\ LiveTypeOK
  /\ \A s \in Sessions : Ended(s) =>
       /\ s \notin device /\ viewer[s] = None
       /\ byDevice # s /\ s \notin byIngress /\ s \notin byTicket

(***************************************************************************)
(* A session is found by Stop as long as it is open and its start has not  *)
(* failed, unless another Start ran beside its own, neither replacing the  *)
(* other: both may have waited for the close of the same session           *)
(* (vnc.go:134-143), and the second then takes the entry of the first.     *)
(***************************************************************************)
Beside(s, t) ==
  t # s /\ spc[t] \in {"registered", "sent", "ok", "failed"} /\ victim[t] # s /\ victim[s] # t
StopFinds ==
  \A s \in Sessions :
    Open(s) /\ spc[s] \in {"registered", "sent", "ok"} /\ (\A t \in Sessions : ~ Beside(s, t)) =>
      byDevice = s

(***************************************************************************)
(* No session is forgotten: one that Start handed out and that is not over *)
(* has its TTL armed or its close called, also when a Start beside it took *)
(* its entry, so that neither Stop nor a later Start finds it any more     *)
(* (vnc.go:134-143, 165).                                                  *)
(***************************************************************************)
NoneForgotten ==
  \A s \in Sessions : spc[s] = "ok" /\ ~ Ended(s) => s \in timer \/ s \in asked

(***************************************************************************)
(* The device serves one session at a time, whichever order the commands   *)
(* of several arrive in (linux/internal/agent/vnc.go:20, 77-79).           *)
(***************************************************************************)
Serves(s) == pipe[s] = "running" /\ ws[s] \in {"accepted", "attached"}
OneAtATime == \A s, t \in Sessions : Serves(s) /\ Serves(t) => s = t

(***************************************************************************)
(* The device lets go: a session that Start handed out is over in the end, *)
(* and once a session is over on the server the device does not go on with *)
(* it, whichever commands about it were late or lost.                      *)
(***************************************************************************)
DeviceLetsGo ==
  \A s \in Sessions :
    spc[s] = "ok" \/ Ended(s) ~> Ended(s) /\ active # s /\ ws[s] # "attached"

(***************************************************************************)
(* vnc.go:28-30: a session is "torn down after" its TTL "even if nobody    *)
(* watched".                                                               *)
(***************************************************************************)
SessionsEnd == \A s \in Sessions : s \in device ~> s \notin device
=============================================================================

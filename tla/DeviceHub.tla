------------------------------ MODULE DeviceHub ------------------------------
(***************************************************************************)
(* The relay's registry of live device sockets: Hub (relay/hub.go), the    *)
(* goroutine that serves one device WebSocket (device/handler.go), the     *)
(* ping loop that gives up on a silent peer (relay/conn.go) and the sweeper *)
(* that kicks devices whose enrollment expired (devicegc/devicegc.go).     *)
(*                                                                         *)
(* A connection c is one accepted WebSocket together with the goroutine    *)
(* that serves it; it belongs to the device Dev[c] for life.  Every        *)
(* critical section of Hub.mu is one action; everything a goroutine does   *)
(* outside the lock is a separate one, so another connection's handler can *)
(* run in between.                                                         *)
(***************************************************************************)
EXTENDS Naturals, FiniteSets

CONSTANTS
  Devices,         \* device ids
  Conns,           \* WebSockets that may ever be accepted
  Dev,             \* the device each of them authenticates as
  NoConn,          \* "no entry" in Hub.conns
  PongMissBudget   \* consecutive missed probes before the ping loop gives up

ASSUME DevAssumption == Dev \in [Conns -> Devices]
ASSUME NoConnAssumption == NoConn \notin Conns
ASSUME BudgetAssumption == PongMissBudget \in Nat \ {0}

VARIABLES
  row,        \* row[d]: what the store says of the device's enrollment
  pc,         \* pc[c]: where the handler goroutine of c is
  hub,        \* hub[d]: Hub.conns[d]
  evictee,    \* evictee[c]: the connection Register(c) displaced (local "old")
  closed,     \* closed[c]: DeviceConn.closed has been closed
  peer,       \* peer[c]: the far end answers, is silent, or the link is gone
  misses,     \* misses[c]: consecutive probes unanswered
  kicks,      \* devices the current sweep still has to kick
  victim      \* the connection Kick got from the hub and will close

vars == <<row, pc, hub, evictee, closed, peer, misses, kicks, victim>>

RowState  == {"valid", "expired", "deleted"}
PeerState == {"up", "silent", "gone"}

(***************************************************************************)
(* The handler goroutine: not started; token resolved and socket accepted; *)
(* registered and closing the displaced connection; in ReadPump, reading   *)
(* or blocked in "ch <- reply"; ReadPump returned but Remove not yet       *)
(* called; finished.                                                       *)
(***************************************************************************)
HandlerState == {"idle", "resolved", "evicting", "reading", "blocked", "ended", "done"}

\* c is past Register and its handler has not yet called Remove.
Pumping(c) == pc[c] \in {"reading", "blocked"}
Serving(c) == Pumping(c) \/ pc[c] \in {"evicting", "ended"}

Init ==
  /\ row = [d \in Devices |-> "valid"]
  /\ pc = [c \in Conns |-> "idle"]
  /\ hub = [d \in Devices |-> NoConn]
  /\ evictee = [c \in Conns |-> NoConn]
  /\ closed = [c \in Conns |-> FALSE]
  /\ peer = [c \in Conns |-> "up"]
  /\ misses = [c \in Conns |-> 0]
  /\ kicks = {}
  /\ victim = NoConn

-----------------------------------------------------------------------------
(***************************************************************************)
(* The handler of one device WebSocket                                     *)
(***************************************************************************)

\* DeviceByTokenHash only resolves an unexpired row; the socket is accepted.
Resolve(c) ==
  /\ pc[c] = "idle"
  /\ row[Dev[c]] = "valid"
  /\ pc' = [pc EXCEPT ![c] = "resolved"]
  /\ UNCHANGED <<row, hub, evictee, closed, peer, misses, kicks, victim>>

\* Hub.Register up to h.mu.Unlock: the new socket takes the entry.
Register(c) ==
  /\ pc[c] = "resolved"
  /\ evictee' = [evictee EXCEPT ![c] = hub[Dev[c]]]
  /\ hub' = [hub EXCEPT ![Dev[c]] = c]
  /\ pc' = [pc EXCEPT ![c] = "evicting"]
  /\ UNCHANGED <<row, closed, peer, misses, kicks, victim>>

\* Mutant: the displaced connection is left open.
BugEvictOld(c) ==
  /\ pc[c] = "evicting"
  /\ pc' = [pc EXCEPT ![c] = "reading"]
  /\ UNCHANGED <<row, hub, evictee, closed, peer, misses, kicks, victim>>

\* The rest of Register: close the displaced connection outside the lock.
EvictOld(c) ==
  /\ pc[c] = "evicting"
  /\ closed' = [o \in Conns |-> closed[o] \/ o = evictee[c]]
  /\ pc' = [pc EXCEPT ![c] = "reading"]
  /\ UNCHANGED <<row, hub, evictee, peer, misses, kicks, victim>>

\* A second reply to an id: the waiter's channel holds one, so the send waits
\* for the waiter, and neither a close nor the context lets it go.
PumpBlocks(c) ==
  /\ pc[c] = "reading" /\ ~closed[c]
  /\ pc' = [pc EXCEPT ![c] = "blocked"]
  /\ UNCHANGED <<row, hub, evictee, closed, peer, misses, kicks, victim>>

\* The waiter took the first reply after all.  It may as well have left.
PumpUnblocks(c) ==
  /\ pc[c] = "blocked"
  /\ pc' = [pc EXCEPT ![c] = "reading"]
  /\ UNCHANGED <<row, hub, evictee, closed, peer, misses, kicks, victim>>

\* ReadPump's Read fails (closed by us, or the link is gone); its deferred
\* c.close() runs on the way out.
PumpEnds(c) ==
  /\ pc[c] = "reading"
  /\ closed[c] \/ peer[c] = "gone"
  /\ closed' = [closed EXCEPT ![c] = TRUE]
  /\ pc' = [pc EXCEPT ![c] = "ended"]
  /\ UNCHANGED <<row, hub, evictee, peer, misses, kicks, victim>>

\* Mutants of Remove: by device id alone; and forgotten on the way out.
BugRemoveAny(c) ==
  /\ pc[c] = "ended"
  /\ hub' = [hub EXCEPT ![Dev[c]] = NoConn]
  /\ pc' = [pc EXCEPT ![c] = "done"]
  /\ UNCHANGED <<row, evictee, closed, peer, misses, kicks, victim>>
\* Hub.Remove: drop the entry only if it is still this very connection.
Remove(c) ==
  /\ pc[c] = "ended"
  /\ hub' = [hub EXCEPT ![Dev[c]] = IF @ = c THEN NoConn ELSE @]
  /\ pc' = [pc EXCEPT ![c] = "done"]
  /\ UNCHANGED <<row, evictee, closed, peer, misses, kicks, victim>>

-----------------------------------------------------------------------------
(***************************************************************************)
(* The ping loop, started by ReadPump                                      *)
(***************************************************************************)

\* The pong is read by the pump, so a blocked one lets every probe fail.
Probing(c) == Pumping(c) /\ ~closed[c]
PongComes(c) == pc[c] = "reading" /\ peer[c] = "up"

PingAnswered(c) ==
  /\ Probing(c)
  /\ PongComes(c)
  /\ misses[c] > 0
  /\ misses' = [misses EXCEPT ![c] = 0]
  /\ UNCHANGED <<row, pc, hub, evictee, closed, peer, kicks, victim>>

\* Mutant: the misses are not accumulated.
BugPingMissed(c) ==
  /\ Probing(c) /\ ~PongComes(c)
  /\ misses' = [misses EXCEPT ![c] = 1]
  /\ UNCHANGED <<row, pc, hub, evictee, closed, peer, kicks, victim>>

\* A probe fails; the one that exhausts the budget closes the socket.
PingMissed(c) ==
  /\ Probing(c)
  /\ ~PongComes(c)
  /\ misses' = [misses EXCEPT ![c] = @ + 1]
  /\ closed' = [closed EXCEPT ![c] = misses[c] + 1 >= PongMissBudget]
  /\ UNCHANGED <<row, pc, hub, evictee, peer, kicks, victim>>

-----------------------------------------------------------------------------
(***************************************************************************)
(* The expiry sweeper: list the expired ids, then Kick each in turn.  Kick *)
(* looks the connection up under the lock and closes it after.             *)
(***************************************************************************)

SweepList ==
  /\ kicks = {} /\ victim = NoConn
  /\ kicks' = {d \in Devices : row[d] = "expired"}
  /\ UNCHANGED <<row, pc, hub, evictee, closed, peer, misses, victim>>

KickGet(d) ==
  /\ victim = NoConn
  /\ d \in kicks
  /\ kicks' = kicks \ {d}
  /\ victim' = hub[d]
  /\ UNCHANGED <<row, pc, hub, evictee, closed, peer, misses>>

KickClose ==
  /\ victim # NoConn
  /\ closed' = [closed EXCEPT ![victim] = TRUE]
  /\ victim' = NoConn
  /\ UNCHANGED <<row, pc, hub, evictee, peer, misses, kicks>>

-----------------------------------------------------------------------------
(***************************************************************************)
(* The environment: the clock, the dashboard and the network               *)
(***************************************************************************)

SetRow(d, s) ==
  /\ row' = [row EXCEPT ![d] = s]
  /\ UNCHANGED <<pc, hub, evictee, closed, peer, misses, kicks, victim>>

\* expires_at passes; "extend" and "make permanent" bring the row back.
Expire(d) == row[d] = "valid" /\ SetRow(d, "expired")
Extend(d) == row[d] = "expired" /\ SetRow(d, "valid")

\* The owner deletes the device, or the sweeper reaps a dormant row.
Delete(d) == row[d] # "deleted" /\ SetRow(d, "deleted")

PeerChange(c, s) ==
  /\ pc[c] \notin {"idle", "done"}
  /\ peer' = [peer EXCEPT ![c] = s]
  /\ UNCHANGED <<row, pc, hub, evictee, closed, misses, kicks, victim>>

PeerSilent(c)  == peer[c] = "up" /\ PeerChange(c, "silent")
PeerResumes(c) == peer[c] = "silent" /\ PeerChange(c, "up")
PeerGone(c)    == peer[c] # "gone" /\ PeerChange(c, "gone")

-----------------------------------------------------------------------------
Handler(c) ==
  \/ Resolve(c) \/ Register(c) \/ EvictOld(c)
  \/ PumpBlocks(c) \/ PumpUnblocks(c) \/ PumpEnds(c) \/ Remove(c)
PingLoop(c) == PingAnswered(c) \/ PingMissed(c)
Sweeper == SweepList \/ (\E d \in Devices : KickGet(d)) \/ KickClose
Environment ==
  \/ \E d \in Devices : Expire(d) \/ Extend(d) \/ Delete(d)
  \/ \E c \in Conns : PeerSilent(c) \/ PeerResumes(c) \/ PeerGone(c)

Next ==
  \/ \E c \in Conns : Handler(c) \/ PingLoop(c)
  \/ Sweeper
  \/ Environment

Spec == Init /\ [][Next]_vars

(***************************************************************************)
(* Goroutines that can run do run: a handler that has been accepted goes   *)
(* on, the ping loop's ticker and the sweeper's sleep come round again.    *)
(* Nothing obliges a device to dial, the environment to act or the waiter  *)
(* a blocked pump needs to be there still.                                 *)
(***************************************************************************)
Fairness ==
  /\ \A c \in Conns : /\ WF_vars(Register(c))
                      /\ WF_vars(EvictOld(c))
                      /\ WF_vars(PumpEnds(c))
                      /\ WF_vars(Remove(c))
                      /\ WF_vars(PingMissed(c))
  /\ WF_vars(SweepList)
  /\ WF_vars(\E d \in Devices : KickGet(d))
  /\ WF_vars(KickClose)

FairSpec == Spec /\ Fairness

-----------------------------------------------------------------------------
TypeOK ==
  /\ row \in [Devices -> RowState]
  /\ pc \in [Conns -> HandlerState]
  /\ hub \in [Devices -> Conns \cup {NoConn}]
  /\ evictee \in [Conns -> Conns \cup {NoConn}]
  /\ closed \in [Conns -> BOOLEAN]
  /\ peer \in [Conns -> PeerState]
  /\ misses \in [Conns -> Nat]
  /\ kicks \subseteq Devices
  /\ victim \in Conns \cup {NoConn}

(***************************************************************************)
(* No ghost: the hub only ever points at a connection of that device whose *)
(* handler is still going to call Remove.  Once a handler has returned,    *)
(* Online(d) can no longer be answered from its socket.                    *)
(***************************************************************************)
NoGhostEntry ==
  \A d \in Devices : hub[d] # NoConn => Dev[hub[d]] = d /\ Serving(hub[d])

(***************************************************************************)
(* One drivable socket per device: a registered connection the hub does    *)
(* not point at is closed already, or the handler that displaced it is     *)
(* about to close it.  Otherwise a reconnect would leave two sockets of    *)
(* one device both running.                                                *)
(***************************************************************************)
DisplacedIsClosing ==
  \A c \in Conns :
    (pc[c] = "evicting" \/ Pumping(c)) /\ hub[Dev[c]] # c =>
      closed[c] \/ \E n \in Conns : pc[n] = "evicting" /\ evictee[n] = c

(***************************************************************************)
(* The freshest registration stays reachable: an entry is only ever        *)
(* replaced by a newer registration, or dropped by its own handler after   *)
(* that very socket closed.  The clean-up of a stale socket (hub.go:47-49) *)
(* or a kick aimed at it never unregisters the one that replaced it.       *)
(***************************************************************************)
EntryLostOnlyByOwner ==
  [][\A c \in Conns :
       hub[Dev[c]] = c /\ hub'[Dev[c]] # c =>
         \/ pc[c] = "ended" /\ pc'[c] = "done" /\ closed[c]
         \/ \E n \in Conns : hub'[Dev[c]] = n /\ pc[n] = "resolved" /\ Dev[n] = Dev[c]]_vars

\* Closed, and its pump in a send that nothing but the waiter ends.
Stuck(c) == pc[c] = "blocked" /\ closed[c]

(***************************************************************************)
(* A socket that is closed, for whichever reason, leaves the hub: kick,    *)
(* eviction and the ping loop all rely on ReadPump returning and calling   *)
(* Remove (hub.go:58-61).  It does not while the pump is blocked on a      *)
(* waiter (conn.go:752); it does once the pump goes on.                    *)
(***************************************************************************)
ClosedLeavesHub == \A c \in Conns : closed[c] /\ ~Stuck(c) ~> hub[Dev[c]] # c

(***************************************************************************)
(* A peer that never answers again is eventually taken offline, however it *)
(* fell silent (conn.go:150-160: "offline" can lag, but must come), or its *)
(* pump is stuck.  A blocked pump reads no pong, so its socket is closed   *)
(* just the same, which at least ends the calls that wait on it.           *)
(***************************************************************************)
SilentGoesOffline ==
  \A c \in Conns : /\ (<>[](peer[c] # "up")) => <>[](hub[Dev[c]] # c \/ Stuck(c))
                   /\ (<>[](pc[c] = "blocked")) => <>[]Stuck(c)

(***************************************************************************)
(* Expiry ends access: a device whose enrollment has lapsed for good is    *)
(* eventually off the hub, even if its socket resolved before the expiry   *)
(* and registered only after the sweep had passed it (devicegc.go:79-80);  *)
(* what is left on it at worst is a closed socket whose pump is stuck.     *)
(***************************************************************************)
ExpiredGoesOffline ==
  \A d \in Devices :
    (<>[](row[d] = "expired")) => <>[](hub[d] = NoConn \/ Stuck(hub[d]))

(***************************************************************************)
(* The hub as every caller relies on it: NoGhostEntry and                  *)
(* DisplacedIsClosing together, with the types.                            *)
(***************************************************************************)
Sound == TypeOK /\ NoGhostEntry /\ DisplacedIsClosing

(***************************************************************************)
(* Every way to lose a device takes it off the hub in the end: its socket  *)
(* was closed, its peer fell silent, its enrollment lapsed; or leaves it   *)
(* there closed, its pump stuck on a waiter.                               *)
(***************************************************************************)
GoesOffline == ClosedLeavesHub /\ SilentGoesOffline /\ ExpiredGoesOffline
=============================================================================

--------------------------- MODULE DeviceHubProofs ---------------------------
(***************************************************************************)
(* The safety properties of DeviceHub for any number of devices, sockets   *)
(* and any miss budget.  Liveness stays with TLC.                          *)
(***************************************************************************)
EXTENDS DeviceHub, TLAPS

\* A handler that has left ReadPump ran its deferred close on the way out.
EndedIsClosed == \A c \in Conns : pc[c] = "ended" => closed[c]

(***************************************************************************)
(* The inductive invariant.  DisplacedIsClosing needs the types only; the  *)
(* action property needs EndedIsClosed and NoGhostEntry, which tells Remove *)
(* that the entry it drops is of its own device.                           *)
(***************************************************************************)
HubInv == TypeOK /\ NoGhostEntry /\ DisplacedIsClosing /\ EndedIsClosed

\* Register, EvictOld and so on leave the types alone: every field of the
\* hub's state keeps its range, whichever goroutine takes the step.
LEMMA TypeStep == TypeOK /\ [Next]_vars => TypeOK'
<1> SUFFICES ASSUME TypeOK, [Next]_vars PROVE TypeOK'
  OBVIOUS
<1> USE DevAssumption, NoConnAssumption, BudgetAssumption DEF TypeOK
<1>1. ASSUME NEW c \in Conns, Handler(c) PROVE TypeOK'
  <2>1. CASE Resolve(c) \/ EvictOld(c) \/ PumpBlocks(c) \/ PumpUnblocks(c) \/ PumpEnds(c)
    BY <2>1 DEF Resolve, EvictOld, PumpBlocks, PumpUnblocks, PumpEnds, HandlerState
  <2>2. CASE Register(c)
    BY <2>2 DEF Register, HandlerState
  <2>3. CASE Remove(c)
    BY <2>3 DEF Remove, HandlerState
  <2>4. QED
    BY <1>1, <2>1, <2>2, <2>3 DEF Handler
<1>2. ASSUME NEW c \in Conns, PingLoop(c) PROVE TypeOK'
  <2>1. CASE PingAnswered(c)
    BY <2>1 DEF PingAnswered
  <2>2. CASE PingMissed(c)
    <3>1. misses' \in [Conns -> Nat]
      BY <2>2 DEF PingMissed
    <3>2. (misses[c] + 1 >= PongMissBudget) \in BOOLEAN
      OBVIOUS
    <3>3. closed' \in [Conns -> BOOLEAN]
      BY <2>2, <3>2, Zenon DEF PingMissed
    <3>4. QED
      BY <2>2, <3>1, <3>3 DEF PingMissed
  <2>3. QED
    BY <1>2, <2>1, <2>2 DEF PingLoop
<1>3. CASE Sweeper
  <2>1. CASE SweepList
    BY <2>1 DEF SweepList
  <2>2. ASSUME NEW d \in Devices, KickGet(d) PROVE TypeOK'
    BY <2>2 DEF KickGet
  <2>3. CASE KickClose
    BY <2>3 DEF KickClose
  <2>4. QED
    BY <1>3, <2>1, <2>2, <2>3 DEF Sweeper
<1>4. CASE Environment
  <2>1. ASSUME NEW d \in Devices, Expire(d) \/ Extend(d) \/ Delete(d) PROVE TypeOK'
    BY <2>1 DEF Expire, Extend, Delete, SetRow, RowState
  <2>2. ASSUME NEW c \in Conns, PeerSilent(c) \/ PeerResumes(c) \/ PeerGone(c) PROVE TypeOK'
    BY <2>2 DEF PeerSilent, PeerResumes, PeerGone, PeerChange, PeerState
  <2>3. QED
    BY <1>4, <2>1, <2>2 DEF Environment
<1>5. CASE UNCHANGED vars
  BY <1>5 DEF vars
<1>6. QED
  BY <1>1, <1>2, <1>3, <1>4, <1>5 DEF Next

\* The clock, the network, the sweeper's bookkeeping and an answered probe
\* touch neither the hub nor a handler, and no step reopens a socket.
QuietStep ==
  /\ UNCHANGED <<pc, hub, evictee>>
  /\ \A c \in Conns : closed[c] => closed'[c]

\* Every step outside the handlers is quiet.
LEMMA QuietSteps ==
  ASSUME TypeOK
  PROVE  /\ \A c \in Conns : PingLoop(c) => QuietStep
         /\ Sweeper => QuietStep
         /\ Environment => QuietStep
         /\ UNCHANGED vars => QuietStep
<1>1. ASSUME NEW c \in Conns, PingLoop(c) PROVE QuietStep
  BY <1>1 DEF TypeOK, PingLoop, PingAnswered, PingMissed, Probing, QuietStep
<1>2. ASSUME Sweeper PROVE QuietStep
  BY <1>2 DEF TypeOK, Sweeper, SweepList, KickGet, KickClose, QuietStep
<1>3. ASSUME Environment PROVE QuietStep
  BY <1>3 DEF Environment, Expire, Extend, Delete, SetRow,
              PeerSilent, PeerResumes, PeerGone, PeerChange, QuietStep
<1>4. ASSUME UNCHANGED vars PROVE QuietStep
  BY <1>4 DEF vars, QuietStep
<1>5. QED
  BY <1>1, <1>2, <1>3, <1>4

\* Each handler step preserves the three parts of the invariant; the quiet
\* steps preserve them because closed only grows.
LEMMA InvStep == HubInv /\ [Next]_vars => HubInv'
<1> SUFFICES ASSUME HubInv, [Next]_vars PROVE HubInv'
  OBVIOUS
<1> USE DevAssumption, NoConnAssumption
<1>0. TypeOK /\ TypeOK'
  BY TypeStep DEF HubInv
<1>1. ASSUME QuietStep PROVE HubInv'
  BY <1>0, <1>1 DEF HubInv, QuietStep, NoGhostEntry, Serving, Pumping, DisplacedIsClosing, EndedIsClosed, TypeOK
<1>2. ASSUME NEW c \in Conns, Resolve(c) PROVE HubInv'
  BY <1>0, <1>2 DEF HubInv, Resolve, NoGhostEntry, Serving, Pumping, DisplacedIsClosing, EndedIsClosed, TypeOK
<1>3. ASSUME NEW c \in Conns, Register(c) PROVE HubInv'
  <2>1. NoGhostEntry'
    BY <1>0, <1>3 DEF HubInv, Register, NoGhostEntry, Serving, Pumping, TypeOK
  <2>2. DisplacedIsClosing'
    <3> SUFFICES ASSUME NEW o \in Conns, pc'[o] = "evicting" \/ Pumping(o)', hub'[Dev[o]] # o
                 PROVE  closed'[o] \/ \E n \in Conns : pc'[n] = "evicting" /\ evictee'[n] = o
      BY DEF DisplacedIsClosing
    <3>1. o # c /\ (pc[o] = "evicting" \/ Pumping(o))
      BY <1>0, <1>3 DEF Register, Pumping, TypeOK
    <3>2. CASE hub[Dev[o]] = o
      <4>1. Dev[o] = Dev[c]
        BY <1>0, <1>3, <3>2 DEF Register, TypeOK
      <4>2. pc'[c] = "evicting" /\ evictee'[c] = o
        BY <1>0, <1>3, <3>2, <4>1 DEF Register, TypeOK
      <4>3. QED
        BY <4>2
    <3>3. CASE hub[Dev[o]] # o
      <4>1. closed[o] \/ \E n \in Conns : pc[n] = "evicting" /\ evictee[n] = o
        BY <3>1, <3>3 DEF HubInv, DisplacedIsClosing
      <4>2. QED
        BY <1>0, <1>3, <4>1 DEF Register, TypeOK
    <3>4. QED
      BY <3>2, <3>3
  <2>3. EndedIsClosed'
    BY <1>0, <1>3 DEF HubInv, Register, EndedIsClosed, TypeOK
  <2>4. QED
    BY <1>0, <2>1, <2>2, <2>3 DEF HubInv
<1>4. ASSUME NEW c \in Conns, EvictOld(c) PROVE HubInv'
  <2>1. NoGhostEntry' /\ EndedIsClosed'
    BY <1>0, <1>4 DEF HubInv, EvictOld, NoGhostEntry, Serving, Pumping, EndedIsClosed, TypeOK
  <2>2. DisplacedIsClosing'
    BY <1>0, <1>4 DEF HubInv, EvictOld, DisplacedIsClosing, Pumping, TypeOK
  <2>3. QED
    BY <1>0, <2>1, <2>2 DEF HubInv
<1>5. ASSUME NEW c \in Conns, PumpBlocks(c) \/ PumpUnblocks(c) \/ PumpEnds(c) PROVE HubInv'
  BY <1>0, <1>5 DEF HubInv, PumpBlocks, PumpUnblocks, PumpEnds, NoGhostEntry, Serving, Pumping, DisplacedIsClosing, EndedIsClosed, TypeOK
<1>6. ASSUME NEW c \in Conns, Remove(c) PROVE HubInv'
  <2>1. NoGhostEntry' /\ EndedIsClosed'
    BY <1>0, <1>6 DEF HubInv, Remove, NoGhostEntry, Serving, Pumping, EndedIsClosed, TypeOK
  <2>2. DisplacedIsClosing'
    BY <1>0, <1>6 DEF HubInv, Remove, DisplacedIsClosing, Pumping, TypeOK
  <2>3. QED
    BY <1>0, <2>1, <2>2 DEF HubInv
<1>7. QED
  BY <1>0, <1>1, <1>2, <1>3, <1>4, <1>5, <1>6, QuietSteps DEF Next, Handler

\* An entry changes only in Register (to the registering socket) and in the
\* owner's own Remove; every other step leaves the hub alone.
LEMMA EntryStep ==
  ASSUME HubInv, [Next]_vars, NEW c \in Conns, hub[Dev[c]] = c, hub'[Dev[c]] # c
  PROVE  \/ pc[c] = "ended" /\ pc'[c] = "done" /\ closed[c]
         \/ \E n \in Conns : hub'[Dev[c]] = n /\ pc[n] = "resolved" /\ Dev[n] = Dev[c]
<1> USE DevAssumption, NoConnAssumption
<1>0. TypeOK
  BY DEF HubInv
<1>1. ASSUME hub' = hub PROVE FALSE
  BY <1>1
<1>2. PICK n \in Conns : Register(n) \/ Remove(n)
  BY <1>0, <1>1, QuietSteps DEF Next, Handler, Resolve, EvictOld, PumpBlocks, PumpUnblocks, PumpEnds, QuietStep
<1>3. CASE Register(n)
  BY <1>0, <1>3 DEF Register, TypeOK
<1>4. CASE Remove(n)
  BY <1>0, <1>4 DEF Remove, TypeOK, HubInv, EndedIsClosed
<1>5. QED
  BY <1>2, <1>3, <1>4

LEMMA InvHolds == Spec => []HubInv
<1>1. Init => HubInv
  BY NoConnAssumption DEF Init, HubInv, TypeOK, RowState, HandlerState, PeerState,
                          NoGhostEntry, DisplacedIsClosing, Pumping, EndedIsClosed
<1>2. QED
  BY <1>1, InvStep, PTL DEF Spec

\* Whatever sockets come and go, the hub's state keeps its types.
THEOREM TypeCorrect == Spec => []TypeOK
BY InvHolds, PTL DEF HubInv

\* The hub never points at a socket whose handler has returned, nor at
\* another device's (Hub.Register and Hub.Remove).
THEOREM NoGhost == Spec => []NoGhostEntry
BY InvHolds, PTL DEF HubInv

\* A reconnect never leaves two running sockets of a device: the displaced
\* one is closed or being closed (Hub.Register's eviction).
THEOREM Displaced == Spec => []DisplacedIsClosing
BY InvHolds, PTL DEF HubInv

\* An entry is lost only to a newer registration or to its own handler
\* (Hub.Remove's identity check).
THEOREM EntryOwnership == Spec => EntryLostOnlyByOwner
<1>1. HubInv /\ [Next]_vars =>
        [\A c \in Conns :
           hub[Dev[c]] = c /\ hub'[Dev[c]] # c =>
             \/ pc[c] = "ended" /\ pc'[c] = "done" /\ closed[c]
             \/ \E n \in Conns : hub'[Dev[c]] = n /\ pc[n] = "resolved" /\ Dev[n] = Dev[c]]_vars
  BY EntryStep
<1>2. QED
  BY <1>1, InvHolds, PTL DEF Spec, EntryLostOnlyByOwner

\* The invariants a caller of the hub relies on, together.
THEOREM HubSound == Spec => []Sound
<1>1. HubInv => Sound
  BY DEF HubInv, Sound
<1>2. QED
  BY <1>1, InvHolds, PTL
=============================================================================

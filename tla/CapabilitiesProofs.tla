------------------------- MODULE CapabilitiesProofs -------------------------
(***************************************************************************)
(* Theorems about Capabilities, for any capabilities, calls, grants, edits *)
(* and bounds: nothing reaches the device unauthorised, the device has the *)
(* final say, and the relay's mirror is wrong only in the two named ways.  *)
(***************************************************************************)
EXTENDS Capabilities, TLAPS

USE CapsAssumption, CallsAssumption, BoundsAssumption, SetsAssumption, NoneAssumption

-----------------------------------------------------------------------------
(***************************************************************************)
(* Capability sets                                                         *)
(***************************************************************************)
\* The empty set, the wildcard and intersections are capability sets.
LEMMA SetTypes ==
  /\ AllCapabilities \in CapabilitySet
  /\ NewCapabilitySet({}) \in CapabilitySet
  /\ \A a, b \in CapabilitySet : Intersect(a, b) \in CapabilitySet
  BY DEF AllCapabilities, NewCapabilitySet, CapabilitySet, Intersect

\* What the tool writes, and what a process loads, is a capability set.
LEMMA FileTypes ==
  /\ \A f \in CapabilitySet \cup {None} : Load(f) \in CapabilitySet
  /\ \A e \in Edits, s \in CapabilitySet : Edited(e, s) \in CapabilitySet
  <1>1. ASSUME NEW f \in CapabilitySet \cup {None} PROVE Load(f) \in CapabilitySet
    BY SetTypes DEF Load
  <1>2. ASSUME NEW e \in Edits, NEW s \in CapabilitySet PROVE Edited(e, s) \in CapabilitySet
    <2>1. e.op \in {"all", "only", "enable", "disable"} /\ e.names \subseteq Caps
      OBVIOUS
    <2>2. Spelled(s) \subseteq Caps
      BY DEF Spelled, CapabilitySet
    <2>3. \A S \in SUBSET Caps : NewCapabilitySet(S) \in CapabilitySet
      BY DEF NewCapabilitySet, CapabilitySet
    <2>4. CASE e.op = "all"     BY <2>4, SetTypes DEF Edited
    <2>5. CASE e.op = "only"    BY <2>1, <2>3, <2>5 DEF Edited
    <2>6. CASE e.op = "enable"  BY <2>1, <2>2, <2>3, <2>6 DEF Edited
    <2>7. CASE e.op = "disable" BY <2>1, <2>2, <2>3, <2>7 DEF Edited
    <2> QED BY <2>1, <2>4, <2>5, <2>6, <2>7
  <1> QED BY <1>1, <1>2

\* Watching keeps the type of seen.
LEMMA WatchType ==
  ASSUME Watch, seen \in [Calls -> SUBSET Caps]
  PROVE  seen' \in [Calls -> SUBSET Caps]
  BY DEF Watch

-----------------------------------------------------------------------------
(***************************************************************************)
(* Types, one action at a time                                             *)
(***************************************************************************)
LEMMA InitType == Init => TypeOK
  <1> SUFFICES ASSUME Init PROVE TypeOK
    OBVIOUS
  <1>1. hand \in [Socks -> CapabilitySet \cup {None}] /\ toSrv \in [Socks -> Seq(CapabilitySet)]
    BY DEF Init
  <1>2. toDev \in [Socks -> Seq(Calls)] /\ pump \in [Socks -> {"off", "reading", "done"}]
    BY DEF Init
  <1>3. /\ pc \in [Calls -> {"idle", "checking", "sent", "done"}]
        /\ on \in [Calls -> 0..MaxSock] /\ \A c \in Calls : pc[c] # "idle" => on[c] # 0
        /\ idx \in [Calls -> Nat \ {0}]
        /\ seen \in [Calls -> SUBSET Caps] /\ under \in [Calls -> CapabilitySet \cup {None}]
    BY DEF Init
  <1>4. tool \in [pc : {"off"}, to : {None}]
    BY DEF Init
  <1>5. hub \in 0..MaxSock /\ cur \in 0..MaxSock /\ dialed \in 0..MaxSock /\ storedBy \in 0..MaxSock
    BY DEF Init
  <1>6. account \in CapabilitySet /\ client \in CapabilitySet /\ wanted \in CapabilitySet
        /\ booted \in CapabilitySet
    BY SetTypes DEF Init
  <1>7. ran \subseteq Calls /\ refused \subseteq Calls /\ edits \in Nat /\ updates \in Nat
        /\ blind \in BOOLEAN /\ missed \in BOOLEAN
    BY DEF Init
  <1>8. ceiling \in CapabilitySet \cup {None} /\ file \in CapabilitySet \cup {None}
    BY DEF Init
  <1> QED BY <1>1, <1>2, <1>3, <1>4, <1>5, <1>6, <1>7, <1>8 DEF TypeOK

LEMMA StepType == TypeOK /\ [Next]_vars => TypeOK'
  <1> SUFFICES ASSUME TypeOK, [Next]_vars PROVE TypeOK'
    OBVIOUS
  <1> USE DEF Socks, histVars, rowVars, relayVars, callVars, deviceVars, fileVars
  <1>1. ASSUME NEW c \in Calls, Begin(c) PROVE TypeOK'
    BY <1>1, WatchType DEF TypeOK, Begin
  <1>2. ASSUME NEW c \in Calls, Check(c) PROVE TypeOK'
    <2>1. seen' \in [Calls -> SUBSET Caps]
      BY <1>2, WatchType DEF TypeOK, Check
    <2>2. CASE idx' = [idx EXCEPT ![c] = @ + 1] /\ UNCHANGED pc
      BY <2>1, <2>2, <1>2 DEF TypeOK, Check
    <2>3. CASE pc' = [pc EXCEPT ![c] = "done"] /\ UNCHANGED idx
      BY <2>1, <2>3, <1>2 DEF TypeOK, Check
    <2> QED BY <2>2, <2>3, <1>2 DEF Check
  <1>3. ASSUME NEW c \in Calls, Transmit(c) PROVE TypeOK'
    BY <1>3, WatchType DEF TypeOK, Transmit
  <1>4. ASSUME NEW c \in Calls, Malformed(c) PROVE TypeOK'
    BY <1>4, WatchType DEF TypeOK, Malformed
  <1>5. ASSUME NEW g \in Grants, Update(g) PROVE TypeOK'
    BY <1>5, WatchType DEF TypeOK, Update
  <1>6. ASSUME NEW k \in Socks, PumpRead(k) PROVE TypeOK'
    <2>1. toSrv[k] \in Seq(CapabilitySet) /\ toSrv[k] # << >>
      BY <1>6 DEF TypeOK, PumpRead
    <2>2. Head(toSrv[k]) \in CapabilitySet /\ Tail(toSrv[k]) \in Seq(CapabilitySet)
      BY <2>1
    <2> QED BY <2>2, <1>6 DEF TypeOK, PumpRead
  <1>7. ASSUME NEW k \in Socks, PumpStore(k) PROVE TypeOK'
    <2>1. seen' \in [Calls -> SUBSET Caps]
      BY <1>7, WatchType DEF TypeOK, PumpStore
    <2>2. client' \in CapabilitySet /\ storedBy' \in 0..MaxSock /\ missed' \in BOOLEAN
      <3>1. CASE client' = hand[k] /\ storedBy' = k /\ missed' = FALSE
        <4>1. hand[k] \in CapabilitySet
          BY <1>7 DEF TypeOK, PumpStore
        <4>2. k \in 0..MaxSock
          OBVIOUS
        <4> QED BY <3>1, <4>1, <4>2
      <3>2. CASE missed' = TRUE /\ UNCHANGED <<client, storedBy>>
        BY <3>2 DEF TypeOK
      <3> QED BY <3>1, <3>2, <1>7 DEF PumpStore
    <2>3. hand' \in [Socks -> CapabilitySet \cup {None}]
      BY <1>7 DEF TypeOK, PumpStore
    <2> QED BY <2>1, <2>2, <2>3, <1>7 DEF TypeOK, PumpStore
  <1>8. ASSUME NEW k \in Socks, PumpEnds(k) PROVE TypeOK'
    BY <1>8 DEF TypeOK, PumpEnds
  <1>9. CASE Start
    BY <1>9, SetTypes, FileTypes DEF TypeOK, Start
  <1>10. CASE Connect
    BY <1>10 DEF TypeOK, Connect
  <1>11. CASE Drop
    BY <1>11 DEF TypeOK, Drop
  <1>12. CASE Kill
    BY <1>12 DEF TypeOK, Kill
  <1>13. CASE Receive
    <2> DEFINE c == Head(toDev[cur])
    <2>1. cur \in 1..MaxSock /\ toDev[cur] \in Seq(Calls) /\ toDev[cur] # << >>
      BY <1>13 DEF TypeOK, Receive
    <2>2. c \in Calls /\ Tail(toDev[cur]) \in Seq(Calls)
      BY <2>1
    <2>3. under' \in [Calls -> CapabilitySet \cup {None}]
      BY <2>2, <1>13, SetTypes DEF TypeOK, Receive
    <2>4. ran' \subseteq Calls /\ refused' \subseteq Calls
      BY <2>2, <1>13 DEF TypeOK, Receive
    <2>5. toDev' \in [Socks -> Seq(Calls)]
      BY <2>1, <2>2, <1>13 DEF TypeOK, Receive
    <2> QED BY <2>3, <2>4, <2>5, <1>13 DEF TypeOK, Receive
  <1>14. ASSUME NEW e \in Edits, ToolLoad(e) PROVE TypeOK'
    <2>1. Edited(e, Load(file)) \in CapabilitySet
      BY FileTypes DEF TypeOK
    <2> QED BY <2>1, <1>14 DEF TypeOK, ToolLoad
  <1>15. CASE ToolTruncate
    BY <1>15, SetTypes DEF TypeOK, ToolTruncate
  <1>16. CASE ToolWrite
    <2>1. tool.to \in CapabilitySet
      BY <1>16 DEF TypeOK, ToolWrite
    <2> QED BY <2>1, <1>16 DEF TypeOK, ToolWrite
  <1>17. CASE ToolDies
    BY <1>17 DEF TypeOK, ToolDies
  <1>18. CASE UNCHANGED vars
    BY <1>18 DEF TypeOK, vars
  <1> QED
    BY <1>1, <1>2, <1>3, <1>4, <1>5, <1>6, <1>7, <1>8, <1>9, <1>10, <1>11, <1>12, <1>13, <1>14,
       <1>15, <1>16, <1>17, <1>18 DEF Next, CallStep, PumpStep, DeviceStep, ToolStep

\* The specification is type-correct, for every value of the constants.
THEOREM TypeCorrect == Spec => []TypeOK
  BY InitType, StepType, PTL DEF Spec

-----------------------------------------------------------------------------
(***************************************************************************)
(* What each call has seen                                                 *)
(***************************************************************************)
\* Needs checked so far, in order.
Passed(c) == \A i \in DOMAIN ToCheck(c) : i < idx[c] => ToCheck(c)[i] \in seen[c]

\* A call under way has its checked needs in seen, all of them once it is sent,
\* and seen holds what the row allows now.
Watched ==
  \A c \in Calls :
    /\ pc[c] \in {"checking", "sent"} => Passed(c)
    /\ pc[c] = "sent" => idx[c] > Len(ToCheck(c))
    /\ pc[c] = "idle" => idx[c] = 1
    /\ pc[c] = "checking" => \A cap \in Caps : Allows(Effective, cap) => cap \in seen[c]

GrantInv == TypeOK /\ Watched

LEMMA GrantInit == Init => GrantInv
  BY InitType DEF Init, GrantInv, Watched, Passed

\* A step that leaves the row, the calls and what they have seen alone.
LEMMA GrantFrame ==
  ASSUME Watched, UNCHANGED <<account, client, pc, idx, seen>>
  PROVE  Watched'
  BY DEF Watched, Passed, Effective

\* A step that watches: seen only grows while a call is under way.
LEMMA GrantWatch ==
  ASSUME TypeOK, Watched, Watch, UNCHANGED idx,
         \A c \in Calls : \/ pc'[c] = pc[c]
                          \/ pc'[c] = "done"
                          \/ pc[c] = "idle" /\ pc'[c] = "checking"
                          \/ pc[c] = "checking" /\ pc'[c] = "sent" /\ idx[c] > Len(ToCheck(c))
  PROVE  Watched'
  <1> SUFFICES ASSUME NEW c \in Calls
               PROVE  /\ pc'[c] \in {"checking", "sent"} => Passed(c)'
                      /\ pc'[c] = "sent" => idx'[c] > Len(ToCheck(c))
                      /\ pc'[c] = "idle" => idx'[c] = 1
                      /\ pc'[c] = "checking" => \A cap \in Caps : Allows(Effective', cap) => cap \in seen'[c]
    BY DEF Watched, ToCheck
  <1>1. pc'[c] \in {"checking", "sent"} =>
          seen'[c] = seen[c] \cup {cap \in Caps : Allows(Effective', cap)}
    BY DEF Watch, Effective
  <1>2. ToCheck(c) \in Seq(Caps) /\ idx[c] \in Nat \ {0}
    BY DEF ToCheck, TypeOK
  <1>3. pc'[c] \in {"checking", "sent"} => Passed(c)'
    <2>1. CASE pc[c] = "idle"
      BY <2>1, <1>2 DEF Watched, Passed, ToCheck
    <2>2. CASE pc[c] \in {"checking", "sent"}
      BY <2>2, <1>1, <1>2 DEF Watched, Passed, ToCheck
    <2>3. CASE pc[c] = "done"
      BY <2>3
    <2> QED BY <2>1, <2>2, <2>3 DEF TypeOK
  <1> QED BY <1>1, <1>3 DEF Watched

LEMMA GrantStep == GrantInv /\ [Next]_vars => GrantInv'
  <1> SUFFICES ASSUME TypeOK, Watched, [Next]_vars PROVE Watched'
    BY StepType DEF GrantInv
  <1> USE DEF rowVars, relayVars, callVars, deviceVars, fileVars, histVars
  <1>1. ASSUME NEW c \in Calls, Begin(c) PROVE Watched'
    BY <1>1, GrantWatch DEF Begin, TypeOK
  <1>2. ASSUME NEW c \in Calls, Check(c) PROVE Watched'
    <2>1. CASE /\ Allows(Effective, ToCheck(c)[idx[c]])
               /\ idx' = [idx EXCEPT ![c] = @ + 1]
               /\ UNCHANGED pc
      <3> DEFINE n == ToCheck(c)[idx[c]]
      <3>1. pc[c] = "checking" /\ idx[c] <= Len(ToCheck(c)) /\ UNCHANGED <<account, client>> /\ Watch
        BY <1>2 DEF Check
      <3>2. ToCheck(c) \in Seq(Caps) /\ idx[c] \in Nat \ {0}
        BY DEF ToCheck, TypeOK
      <3>3. n \in Caps /\ n \in seen[c]
        BY <2>1, <3>1, <3>2 DEF Watched
      <3>4. ASSUME NEW d \in Calls, pc[d] \in {"checking", "sent"}
            PROVE  seen'[d] = seen[d] \cup {cap \in Caps : Allows(Effective, cap)}
        BY <2>1, <3>1, <3>4 DEF Watch, Effective
      <3>5. ASSUME NEW d \in Calls, pc[d] \in {"checking", "sent"}
            PROVE  Passed(d)'
        <4>1. CASE d = c
          BY <4>1, <2>1, <3>1, <3>2, <3>3, <3>4, <3>5 DEF Watched, Passed, ToCheck, TypeOK
        <4>2. CASE d # c
          BY <4>2, <2>1, <3>4, <3>5 DEF Watched, Passed, ToCheck, TypeOK
        <4> QED BY <4>1, <4>2
      <3>6. Effective' = Effective
        BY <3>1 DEF Effective
      <3>7. \A d \in Calls : pc[d] # "checking" => idx'[d] = idx[d]
        BY <2>1, <3>1 DEF TypeOK
      <3>8. ASSUME NEW d \in Calls, pc[d] = "checking", NEW cap \in Caps, Allows(Effective, cap)
            PROVE  cap \in seen'[d]
        BY <3>4, <3>8
      <3> HIDE DEF n
      <3> QED BY <2>1, <3>5, <3>6, <3>7, <3>8 DEF Watched, ToCheck
    <2>2. CASE pc' = [pc EXCEPT ![c] = "done"] /\ UNCHANGED idx
      BY <2>2, <1>2, GrantWatch DEF Check, TypeOK
    <2> QED BY <2>1, <2>2, <1>2 DEF Check
  <1>3. ASSUME NEW c \in Calls, Transmit(c) PROVE Watched'
    BY <1>3, GrantWatch DEF Transmit, TypeOK
  <1>4. ASSUME NEW c \in Calls, Malformed(c) PROVE Watched'
    BY <1>4, GrantWatch DEF Malformed, TypeOK
  <1>5. ASSUME NEW g \in Grants, Update(g) PROVE Watched'
    BY <1>5, GrantWatch DEF Update
  <1>6. ASSUME NEW k \in Socks, PumpStore(k) PROVE Watched'
    BY <1>6, GrantWatch DEF PumpStore
  <1>7. ASSUME NEW k \in Socks, PumpRead(k) \/ PumpEnds(k) PROVE Watched'
    BY <1>7, GrantFrame DEF PumpRead, PumpEnds
  <1>8. CASE DeviceStep
    BY <1>8, GrantFrame DEF DeviceStep, Start, Connect, Drop, Kill, Receive
  <1>9. CASE ToolStep
    BY <1>9, GrantFrame DEF ToolStep, ToolLoad, ToolTruncate, ToolWrite, ToolDies
  <1>10. CASE UNCHANGED vars
    BY <1>10, GrantFrame DEF vars
  <1> QED
    BY <1>1, <1>2, <1>3, <1>4, <1>5, <1>6, <1>7, <1>8, <1>9, <1>10 DEF Next, CallStep, PumpStep

\* Nothing is sent that the row did not allow, need by need, while the call was made.
THEOREM Authorised == Spec => []Granted
  <1>1. GrantInv => Granted
    BY DEF GrantInv, Watched, Passed, Granted, ToCheck, TypeOK
  <1> QED BY <1>1, GrantInit, GrantStep, PTL DEF Spec

-----------------------------------------------------------------------------
(***************************************************************************)
(* The device's own ceiling                                                *)
(***************************************************************************)
Within(a, b) == \A cap \in Caps : Allows(a, cap) => Allows(b, cap)

\* What may be loaded from the file is no more than the owner asked for, and
\* what the running process has, unless it is blind, no more than was asked for
\* when it started.
CeilingOk ==
  /\ Within(Load(file), wanted)
  /\ ceiling # None /\ ~blind => Within(ceiling, booted)

CeilInv == TypeOK /\ (cur # 0 => ceiling # None) /\ CeilingOk /\ FinalSay

LEMMA CeilInit == Init => CeilInv
  BY InitType DEF Init, CeilInv, CeilingOk, Within, Load, FinalSay

LEMMA CeilStep == CeilInv /\ [Next]_vars => CeilInv'
  <1> SUFFICES ASSUME TypeOK, cur # 0 => ceiling # None, CeilingOk, FinalSay, [Next]_vars
               PROVE  (cur' # 0 => ceiling' # None) /\ CeilingOk' /\ FinalSay'
    BY StepType DEF CeilInv
  <1> USE DEF rowVars, relayVars, callVars, deviceVars, fileVars, histVars
  <1>1. ASSUME UNCHANGED <<file, wanted, ceiling, blind, booted, cur, ran, under>>
        PROVE  (cur' # 0 => ceiling' # None) /\ CeilingOk' /\ FinalSay'
    BY <1>1 DEF CeilingOk, FinalSay
  <1>2. ASSUME NEW c \in Calls, CallStep(c)
        PROVE  UNCHANGED <<file, wanted, ceiling, blind, booted, cur, ran, under>>
    BY <1>2 DEF CallStep, Begin, Check, Transmit, Malformed
  <1>3. ASSUME NEW k \in Socks, PumpStep(k)
        PROVE  UNCHANGED <<file, wanted, ceiling, blind, booted, cur, ran, under>>
    BY <1>3 DEF PumpStep, PumpRead, PumpStore, PumpEnds
  <1>4. ASSUME NEW g \in Grants, Update(g)
        PROVE  UNCHANGED <<file, wanted, ceiling, blind, booted, cur, ran, under>>
    BY <1>4 DEF Update
  <1>5. CASE Start
    <2>1. FinalSay' /\ (cur' # 0 => ceiling' # None)
      BY <1>5, SetTypes, FileTypes DEF Start, FinalSay, TypeOK
    <2>2. CeilingOk'
      BY <1>5 DEF Start, CeilingOk
    <2> QED BY <2>1, <2>2
  <1>6. CASE Connect
    BY <1>6 DEF Connect, CeilingOk, FinalSay
  <1>7. CASE Drop \/ Kill
    BY <1>7 DEF Drop, Kill, CeilingOk, FinalSay
  <1>8. CASE Receive
    <2> DEFINE c == Head(toDev[cur])
               u == IF blind THEN AllCapabilities ELSE booted
    <2>1. c \in Calls /\ cur # 0
      BY <1>8 DEF Receive, TypeOK, Socks
    <2>2. CeilingOk' /\ (cur' # 0 => ceiling' # None)
      BY <1>8 DEF Receive, CeilingOk
    <2>3. CASE ~Exposes(c)
      <3>1. ran' = ran /\ under' = under
        BY <2>3, <1>8 DEF Receive
      <3> QED BY <2>2, <3>1 DEF FinalSay
    <2>4. CASE Exposes(c)
      <3>1. Within(ceiling, u)
        BY <2>1 DEF CeilingOk, Within, Allows, AllCapabilities
      <3>2. \/ Kind[c] = "stop"
            \/ Kind[c] = "command" /\ \A i \in DOMAIN Need[c] : Allows(u, Need[c][i])
            \/ Kind[c] = "sshd" /\ (Allows(u, "ssh") \/ Allows(u, "tunnel"))
            \/ Kind[c] = "other" /\ Allows(u, "tunnel")
        <4>1. \A i \in DOMAIN Need[c] : Need[c][i] \in Caps
          BY <2>1
        <4>2. Kind[c] \in {"command", "stop", "sshd", "other"}
          BY <2>1
        <4> HIDE DEF c, u
        <4>3. CASE Kind[c] = "command"
          BY <4>1, <4>3, <2>4, <3>1 DEF Exposes, Within
        <4>4. CASE Kind[c] = "sshd"
          BY <4>4, <2>4, <3>1 DEF Exposes, Within
        <4>5. CASE Kind[c] = "other"
          BY <4>5, <2>4, <3>1 DEF Exposes, Within
        <4> QED BY <4>2, <4>3, <4>4, <4>5
      <3>3. ran' = ran \cup {c} /\ under' = [under EXCEPT ![c] = u]
        BY <2>4, <1>8 DEF Receive
      <3>4. under'[c] = u /\ \A d \in ran : d # c => under'[d] = under[d]
        BY <2>1, <3>3 DEF TypeOK
      <3> HIDE DEF c, u
      <3>5. ASSUME NEW d \in ran', d # c PROVE d \in ran /\ under'[d] = under[d]
        BY <3>3, <3>4, <3>5
      <3>6. ASSUME NEW d \in ran'
            PROVE  \/ Kind[d] = "stop"
                   \/ Kind[d] = "command" /\ \A i \in DOMAIN Need[d] : Allows(under'[d], Need[d][i])
                   \/ Kind[d] = "sshd" /\ (Allows(under'[d], "ssh") \/ Allows(under'[d], "tunnel"))
                   \/ Kind[d] = "other" /\ Allows(under'[d], "tunnel")
        <4>1. CASE d = c
          BY <3>2, <3>4, <4>1 DEF Allows
        <4>2. CASE d # c
          BY <3>5, <4>2 DEF FinalSay
        <4> QED BY <4>1, <4>2
      <3> QED BY <2>2, <3>6 DEF FinalSay, Allows
    <2> QED BY <2>2, <2>3, <2>4
  <1>9. ASSUME NEW e \in Edits, ToolLoad(e)
        PROVE  UNCHANGED <<file, wanted, ceiling, blind, booted, cur, ran, under>>
    BY <1>9 DEF ToolLoad
  <1>10. CASE ToolTruncate
    <2>1. NewCapabilitySet({}) # None
      BY SetTypes
    <2> QED BY <2>1, <1>10 DEF ToolTruncate, CeilingOk, FinalSay, Within, Load, Allows, NewCapabilitySet
  <1>11. CASE ToolWrite
    <2>1. tool.to \in CapabilitySet
      BY <1>11 DEF ToolWrite, TypeOK
    <2>2. file' = wanted' /\ file' # None
      BY <2>1, <1>11 DEF ToolWrite
    <2> QED BY <2>2, <1>11 DEF ToolWrite, CeilingOk, FinalSay, Within, Load
  <1>12. CASE ToolDies
    BY <1>12, <1>1 DEF ToolDies
  <1>13. CASE UNCHANGED vars
    BY <1>13, <1>1 DEF vars
  <1> QED
    BY <1>1, <1>2, <1>3, <1>4, <1>5, <1>6, <1>7, <1>8, <1>9, <1>10, <1>11, <1>12, <1>13
       DEF Next, DeviceStep, ToolStep

\* Nothing runs on the device that its owner had turned off before its agent started.
THEOREM DeviceHasFinalSay == Spec => []FinalSay
  <1>1. CeilInv => FinalSay
    BY DEF CeilInv
  <1> QED BY <1>1, CeilInit, CeilStep, PTL DEF Spec

-----------------------------------------------------------------------------
(***************************************************************************)
(* The relay's mirror                                                      *)
(***************************************************************************)
\* Sockets not dialed yet are empty; the agent's socket is the last dialed.
Dialed ==
  /\ cur # 0 => cur = dialed /\ ceiling # None
  /\ \A k \in Socks : k > dialed => hand[k] = None /\ toSrv[k] = << >>

\* The report of the current socket is on the wire, in the pump's hand, or in
\* the row, but for the two ways it may have been passed over.
Report ==
  cur # 0 /\ hub = cur =>
    \/ toSrv[cur] = <<ceiling>> /\ hand[cur] = None
    \/ toSrv[cur] = << >> /\ hand[cur] = ceiling
    \/ toSrv[cur] = << >> /\ hand[cur] = None /\ (client = ceiling \/ missed \/ storedBy < cur)

MirrorInv == TypeOK /\ Dialed /\ Report

LEMMA MirrorInit == Init => MirrorInv
  BY InitType DEF Init, MirrorInv, Dialed, Report, Socks

LEMMA MirrorStep == MirrorInv /\ [Next]_vars => MirrorInv'
  <1> SUFFICES ASSUME TypeOK, Dialed, Report, [Next]_vars PROVE Dialed' /\ Report'
    BY StepType DEF MirrorInv
  <1> USE DEF rowVars, relayVars, callVars, deviceVars, fileVars, histVars, Socks
  <1>1. ASSUME UNCHANGED <<cur, dialed, ceiling, hand, toSrv, hub, client, missed, storedBy>>
        PROVE  Dialed' /\ Report'
    BY <1>1 DEF Dialed, Report
  <1>2. ASSUME NEW c \in Calls, CallStep(c) PROVE Dialed' /\ Report'
    BY <1>1, <1>2 DEF CallStep, Begin, Check, Transmit, Malformed
  <1>3. ASSUME NEW g \in Grants, Update(g) PROVE Dialed' /\ Report'
    BY <1>1, <1>3 DEF Update
  <1>4. CASE ToolStep
    BY <1>1, <1>4 DEF ToolStep, ToolLoad, ToolTruncate, ToolWrite, ToolDies
  <1>5. ASSUME NEW k \in Socks, PumpRead(k) PROVE Dialed' /\ Report'
    <2>1. Dialed'
      BY <1>5 DEF PumpRead, Dialed, TypeOK
    <2>2. CASE k = cur
      <3>1. hub = cur => toSrv[cur] = <<ceiling>>
        BY <2>2, <1>5 DEF PumpRead, Report, TypeOK
      <3>2. hub = cur => Head(toSrv[cur]) = ceiling /\ Tail(toSrv[cur]) = << >>
        <4>1. \A x : Head(<<x>>) = x /\ Tail(<<x>>) = << >>
          OBVIOUS
        <4> QED BY <3>1, <4>1
      <3>3. cur \in DOMAIN hand /\ cur \in DOMAIN toSrv
        BY <2>2 DEF TypeOK
      <3> QED BY <2>1, <2>2, <3>2, <3>3, <1>5 DEF PumpRead, Report
    <2>3. CASE k # cur
      BY <2>1, <2>3, <1>5 DEF PumpRead, Report, TypeOK
    <2> QED BY <2>2, <2>3
  <1>6. ASSUME NEW k \in Socks, PumpStore(k) PROVE Dialed' /\ Report'
    <2>1. Dialed'
      BY <1>6 DEF PumpStore, Dialed, TypeOK
    <2>2. CASE k = cur
      BY <2>1, <2>2, <1>6 DEF PumpStore, Report, TypeOK
    <2>3. CASE k # cur /\ cur # 0
      <3>1. k < cur
        BY <2>3, <1>6 DEF PumpStore, Dialed, TypeOK
      <3> QED BY <2>1, <2>3, <3>1, <1>6 DEF PumpStore, Report, TypeOK
    <2>4. CASE cur = 0
      BY <2>1, <2>4, <1>6 DEF PumpStore, Report
    <2> QED BY <2>2, <2>3, <2>4
  <1>7. ASSUME NEW k \in Socks, PumpEnds(k) PROVE Dialed' /\ Report'
    BY <1>7 DEF PumpEnds, Dialed, Report, TypeOK
  <1>8. CASE Start \/ Kill \/ Drop
    BY <1>8 DEF Start, Kill, Drop, Dialed, Report
  <1>9. CASE Connect
    <2>1. dialed + 1 \in Socks /\ hand[dialed + 1] = None
      BY <1>9 DEF Connect, Dialed, TypeOK
    <2> QED BY <2>1, <1>9 DEF Connect, Dialed, Report, TypeOK
  <1>10. CASE Receive
    BY <1>1, <1>10 DEF Receive
  <1>11. CASE UNCHANGED vars
    BY <1>1, <1>11 DEF vars
  <1> QED
    BY <1>2, <1>3, <1>4, <1>5, <1>6, <1>7, <1>8, <1>9, <1>10, <1>11 DEF Next, PumpStep, DeviceStep

\* The mirror is the current ceiling unless a statement failed or an older pump stored last.
THEOREM MirrorKept == Spec => []MirrorFollows
  <1>1. MirrorInv => MirrorFollows
    BY DEF MirrorInv, Dialed, Report, MirrorFollows
  <1> QED BY <1>1, MirrorInit, MirrorStep, PTL DEF Spec
=============================================================================

-------------------------- MODULE StreamLaneProofs --------------------------
(***************************************************************************)
(* What a tunnel's reader is given, for any number of streams, capability  *)
(* requests, payloads and any buffer: no byte is skipped, and a clean end  *)
(* comes after all of them.  Nobody waits on a stream that is over, and a  *)
(* revoked capability cuts the streams that needed it.                     *)
(***************************************************************************)
EXTENDS StreamLane, TLAPS

USE NeedAssumption, BufferAssumption

-----------------------------------------------------------------------------
(***************************************************************************)
(* Sequences: what appending and taking the head do to the elements        *)
(***************************************************************************)
LEMMA Appended ==
  ASSUME NEW S, NEW q \in Seq(S), NEW x \in S
  PROVE  /\ Append(q, x) \in Seq(S)
         /\ DOMAIN Append(q, x) = DOMAIN q \cup {Len(q) + 1}
         /\ Append(q, x)[Len(q) + 1] = x
         /\ \A i \in DOMAIN q : Append(q, x)[i] = q[i] /\ i < Len(q) + 1 /\ i \in Nat
         /\ Len(Append(q, x)) = Len(q) + 1
  OBVIOUS

LEMMA Shortened ==
  ASSUME NEW S, NEW q \in Seq(S), q # << >>
  PROVE  /\ Head(q) \in S /\ Head(q) = q[1] /\ Tail(q) \in Seq(S)
         /\ 1 \in DOMAIN q
         /\ \A i \in DOMAIN Tail(q) : i + 1 \in DOMAIN q /\ Tail(q)[i] = q[i + 1] /\ i \in Nat /\ i >= 1
         /\ \A i \in DOMAIN q : i # 1 => i - 1 \in DOMAIN Tail(q) /\ Tail(q)[i - 1] = q[i] /\ i \in Nat /\ i >= 1
         /\ Len(Tail(q)) = Len(q) - 1
  OBVIOUS

-----------------------------------------------------------------------------
(***************************************************************************)
(* Types                                                                   *)
(***************************************************************************)
LEMMA InitType == Init => TypeOK
  <1> SUFFICES ASSUME Init PROVE TypeOK
    OBVIOUS
  <1>1. held \in Busy
    BY DEF Init, Busy
  <1>2. /\ inbox \in [Streams -> Seq(0..MaxData)] /\ \A s \in Streams : Len(inbox[s]) <= Buffer
        /\ got \in [Streams -> 0..MaxData] /\ dsent \in [Streams -> 0..MaxData]
    BY DEF Init
  <1>3. /\ opc \in [Streams -> {"idle", "authorized", "inserted", "open", "failed"}]
        /\ fin \in [Streams -> {"no", "busy", "removed", "done"}]
        /\ cause \in [Streams -> Cause] /\ ended \in [Streams -> Cause]
    BY DEF Init, Cause
  <1>4. /\ apc \in [Admins -> {"idle", "read", "persisted", "sweeping", "done", "failed"}]
        /\ prev \in [Admins -> SUBSET Caps] /\ next \in [Admins -> SUBSET Caps]
        /\ sweep \in [Admins -> SUBSET Streams] /\ found \in [Admins -> SUBSET Streams]
    BY DEF Init
  <1>5. toDev \in Seq(FrameTo) /\ toSrv \in Seq(FrameFrom)
    BY DEF Init
  <1> QED BY <1>1, <1>2, <1>3, <1>4, <1>5 DEF Init, TypeOK

\* Closing a stream keeps the types, whoever does it.
LEMMA FinishType ==
  ASSUME TypeOK, NEW s \in Streams, NEW why \in Cause, NEW b \in BOOLEAN, Finish(s, why, b)
  PROVE  /\ fin' \in [Streams -> {"no", "busy", "removed", "done"}]
         /\ cause' \in [Streams -> Cause]
         /\ toDev' \in Seq(FrameTo)
  <1>1. [t |-> "close", s |-> s] \in FrameTo
    BY DEF FrameTo
  <1>2. Append(toDev, [t |-> "close", s |-> s]) \in Seq(FrameTo)
    BY <1>1, Appended DEF TypeOK
  <1> QED BY <1>2 DEF Finish, TypeOK

LEMMA EmitType ==
  ASSUME TypeOK, NEW t \in {"data", "eof", "error"}, NEW s \in Streams, NEW n \in 0..MaxData, Emit(t, s, n)
  PROVE  toSrv' \in Seq(FrameFrom)
  <1>1. [t |-> t, s |-> s, n |-> n] \in FrameFrom
    BY DEF FrameFrom
  <1>2. Append(toSrv, [t |-> t, s |-> s, n |-> n]) \in Seq(FrameFrom)
    BY <1>1, Appended DEF TypeOK
  <1> QED BY <1>2 DEF Emit, TypeOK

LEMMA StreamType ==
  ASSUME TypeOK, NEW s \in Streams, StreamStep(s) PROVE TypeOK'
  <1> USE DEF adminVars, connVars, streamVars, devVars
  <1>1. CASE Authorize(s)
    BY <1>1 DEF Authorize, TypeOK
  <1>2. CASE Insert(s)
    BY <1>2 DEF Insert, TypeOK
  <1>3. CASE WriteOpen(s)
    <2>1. [t |-> "open", s |-> s] \in FrameTo
      BY DEF FrameTo
    <2>2. Append(toDev, [t |-> "open", s |-> s]) \in Seq(FrameTo)
      BY <2>1, Appended DEF TypeOK
    <2>3. toDev' \in Seq(FrameTo) /\ table' \subseteq Streams
          /\ opc' \in [Streams -> {"idle", "authorized", "inserted", "open", "failed"}]
      BY <2>2, <1>3 DEF WriteOpen, TypeOK
    <2> QED BY <2>3, <1>3 DEF WriteOpen, TypeOK
  <1>4. CASE ReadData(s)
    <2>1. inbox[s] \in Seq(0..MaxData) /\ inbox[s] # << >>
      BY <1>4 DEF ReadData, TypeOK
    <2>2. Head(inbox[s]) \in 0..MaxData /\ Tail(inbox[s]) \in Seq(0..MaxData)
          /\ Len(Tail(inbox[s])) = Len(inbox[s]) - 1
      BY <2>1, Shortened
    <2>3. inbox' \in [Streams -> Seq(0..MaxData)] /\ \A u \in Streams : Len(inbox'[u]) <= Buffer
      BY <2>2, <1>4 DEF ReadData, TypeOK
    <2>4. got' \in [Streams -> 0..MaxData]
      BY <2>2, <1>4 DEF ReadData, TypeOK
    <2> QED BY <2>3, <2>4, <1>4 DEF ReadData, TypeOK
  <1>5. CASE ReadEnd(s)
    BY <1>5 DEF ReadEnd, TypeOK
  <1>6. CASE CloseLocal(s)
    BY <1>6, FinishType DEF CloseLocal, TypeOK, Cause
  <1>7. CASE WriteFails(s)
    BY <1>7, FinishType DEF WriteFails, TypeOK, Cause
  <1>8. CASE FinishRemove(s)
    BY <1>8 DEF FinishRemove, TypeOK
  <1>9. CASE FinishSignal(s)
    BY <1>9 DEF FinishSignal, TypeOK
  <1> QED BY <1>1, <1>2, <1>3, <1>4, <1>5, <1>6, <1>7, <1>8, <1>9 DEF StreamStep

LEMMA PumpType ==
  ASSUME TypeOK, PumpNext PROVE TypeOK'
  <1> USE DEF adminVars, connVars, streamVars, devVars
  <1>1. CASE PumpRead
    <2> DEFINE f == Head(toSrv)
    <2>1. f \in FrameFrom /\ Tail(toSrv) \in Seq(FrameFrom)
      BY <1>1, Shortened DEF PumpRead, TypeOK
    <2>2. f.s \in Streams /\ f.n \in 0..MaxData
      BY <2>1 DEF FrameFrom
    <2>3. held' \in Busy
      BY <2>2, <1>1 DEF PumpRead, Busy
    <2>4. /\ fin' \in [Streams -> {"no", "busy", "removed", "done"}]
          /\ cause' \in [Streams -> Cause] /\ toDev' \in Seq(FrameTo)
      <3>1. CASE UNCHANGED <<fin, cause, toDev>>
        BY <3>1 DEF TypeOK
      <3>2. CASE Finish(f.s, IF f.t = "eof" THEN "eofDevice" ELSE "error", FALSE)
        BY <3>2, <2>2, FinishType DEF Cause
      <3> QED BY <3>1, <3>2, <1>1 DEF PumpRead
    <2>5. pump' \in {"reading", "deliver", "finish", "blocked", "done"}
      BY <1>1 DEF PumpRead, TypeOK
    <2>6. toSrv' \in Seq(FrameFrom)
      BY <2>1, <1>1 DEF PumpRead
    <2>7. UNCHANGED <<adminVars, hub, up, tear, doomed, table, opc, inbox, got, ended, dconns, loops, dsent>>
      BY <1>1 DEF PumpRead
    <2> HIDE DEF f
    <2> QED BY <2>3, <2>4, <2>5, <2>6, <2>7 DEF TypeOK
  <1>2. CASE PumpDeliver
    <2>1. held.s \in Streams /\ held.n \in 0..MaxData
      BY DEF TypeOK, Busy
    <2>2. inbox[held.s] \in Seq(0..MaxData) /\ Len(inbox[held.s]) < Buffer
      BY <2>1, <1>2 DEF PumpDeliver, TypeOK
    <2>3. Append(inbox[held.s], held.n) \in Seq(0..MaxData) /\ Len(Append(inbox[held.s], held.n)) <= Buffer
      BY <2>1, <2>2, Appended
    <2>4. inbox' \in [Streams -> Seq(0..MaxData)] /\ \A u \in Streams : Len(inbox'[u]) <= Buffer
      BY <2>3, <1>2 DEF PumpDeliver, TypeOK
    <2> QED BY <2>4, <1>2 DEF PumpDeliver, TypeOK
  <1>3. CASE PumpDrops \/ PumpFinished \/ PumpEnds \/ PumpBlocks \/ PumpUnblocks
    BY <1>3 DEF PumpDrops, PumpFinished, PumpEnds, PumpBlocks, PumpUnblocks, TypeOK
  <1> QED BY <1>1, <1>2, <1>3 DEF PumpNext, PumpStep

LEMMA TearType ==
  ASSUME TypeOK, TearStep PROVE TypeOK'
  <1> USE DEF adminVars, connVars, streamVars, devVars
  <1>1. CASE TearMark \/ Replaced \/ TearCut \/ TearSnapshot \/ TearDone \/ LinkDrops
    BY <1>1 DEF TearMark, Replaced, TearCut, TearSnapshot, TearDone, LinkDrops, TypeOK
  <1>2. ASSUME NEW s \in Streams, TearStream(s) PROVE TypeOK'
    <2>1. CASE Finish(s, "gone", FALSE) /\ UNCHANGED doomed
      BY <2>1, <1>2, FinishType DEF TearStream, TypeOK, Cause
    <2>2. CASE doomed' = doomed \ {s} /\ UNCHANGED <<fin, cause, toDev>>
      BY <2>2, <1>2 DEF TearStream, TypeOK
    <2> QED BY <2>1, <2>2, <1>2 DEF TearStream
  <1> QED BY <1>1, <1>2 DEF TearStep

LEMMA AdminType ==
  ASSUME TypeOK, NEW a \in Admins, AdminStep(a) PROVE TypeOK'
  <1> USE DEF adminVars, connVars, streamVars, devVars
  <1>1. CASE ReadPrev(a)
    BY <1>1 DEF ReadPrev, TypeOK
  <1>2. CASE Persist(a)
    <2>1. CASE /\ granted' = next[a] /\ found' = [found EXCEPT ![a] = table]
               /\ apc' = [apc EXCEPT ![a] = IF Revokes(a) THEN "persisted" ELSE "done"]
      BY <2>1, <1>2 DEF Persist, TypeOK
    <2>2. CASE apc' = [apc EXCEPT ![a] = "failed"] /\ UNCHANGED <<granted, found>>
      BY <2>2, <1>2 DEF Persist, TypeOK
    <2> QED BY <2>1, <2>2, <1>2 DEF Persist
  <1>3. CASE SweepSnapshot(a)
    BY <1>3 DEF SweepSnapshot, TypeOK
  <1>4. CASE SweepDone(a)
    BY <1>4 DEF SweepDone, TypeOK
  <1>5. ASSUME NEW s \in Streams, SweepStream(a, s) PROVE TypeOK'
    <2>1. CASE Finish(s, "eofLocal", TRUE) /\ UNCHANGED sweep
      BY <2>1, <1>5, FinishType DEF SweepStream, TypeOK, Cause
    <2>2. CASE sweep' = [sweep EXCEPT ![a] = @ \ {s}] /\ UNCHANGED <<fin, cause, toDev>>
      BY <2>2, <1>5 DEF SweepStream, TypeOK
    <2> QED BY <2>1, <2>2, <1>5 DEF SweepStream
  <1> QED BY <1>1, <1>2, <1>3, <1>4, <1>5 DEF AdminStep

LEMMA DeviceType ==
  ASSUME TypeOK, DeviceStep PROVE TypeOK'
  <1> USE DEF adminVars, connVars, streamVars, devVars
  <1>1. CASE DeviceOpen
    <2>1. Head(toDev).s \in Streams /\ Tail(toDev) \in Seq(FrameTo)
      <3>1. Head(toDev) \in FrameTo /\ Tail(toDev) \in Seq(FrameTo)
        BY <1>1, Shortened DEF DeviceOpen, TypeOK
      <3> QED BY <3>1 DEF FrameTo
    <2>2. toSrv' \in Seq(FrameFrom)
      BY <2>1, <1>1, EmitType DEF DeviceOpen, TypeOK
    <2>3. dconns' \subseteq Streams /\ loops' \subseteq Streams
      BY <2>1, <1>1 DEF DeviceOpen, TypeOK
    <2> QED BY <2>1, <2>2, <2>3, <1>1 DEF DeviceOpen, TypeOK
  <1>2. CASE DeviceClose
    <2>1. Tail(toDev) \in Seq(FrameTo)
      BY <1>2, Shortened DEF DeviceClose, TypeOK
    <2> QED BY <2>1, <1>2 DEF DeviceClose, TypeOK
  <1>3. CASE DeviceGone
    <2>1. << >> \in Seq(FrameTo)
      OBVIOUS
    <2> QED BY <2>1, <1>3 DEF DeviceGone, TypeOK
  <1>4. ASSUME NEW s \in Streams, DeviceData(s) PROVE TypeOK'
    <2>1. dsent[s] + 1 \in 0..MaxData
      BY <1>4 DEF DeviceData, TypeOK
    <2>2. toSrv' \in Seq(FrameFrom)
      BY <2>1, <1>4, EmitType DEF DeviceData
    <2>3. dsent' \in [Streams -> 0..MaxData]
      BY <2>1, <1>4 DEF DeviceData, TypeOK
    <2> QED BY <2>2, <2>3, <1>4 DEF DeviceData, TypeOK
  <1>5. ASSUME NEW s \in Streams, DeviceEnds(s) PROVE TypeOK'
    <2>1. toSrv' \in Seq(FrameFrom)
      BY <1>5, EmitType DEF DeviceEnds, TypeOK
    <2> QED BY <2>1, <1>5 DEF DeviceEnds, TypeOK
  <1> QED BY <1>1, <1>2, <1>3, <1>4, <1>5 DEF DeviceStep

LEMMA StepType == TypeOK /\ [Next]_vars => TypeOK'
  <1>1. ASSUME TypeOK, UNCHANGED vars PROVE TypeOK'
    BY <1>1 DEF TypeOK, vars, adminVars, connVars, streamVars, devVars
  <1> QED BY <1>1, StreamType, PumpType, TearType, AdminType, DeviceType DEF Next

\* The specification is type-correct, for every value of the constants.
THEOREM TypeCorrect == Spec => []TypeOK
  BY InitType, StepType, PTL DEF Spec

-----------------------------------------------------------------------------
(***************************************************************************)
(* Where the payloads of a stream are                                      *)
(***************************************************************************)
\* Frames of s on the wire, and OPEN frames on their way to the device.
DataAt(i, s) == i \in DOMAIN toSrv /\ toSrv[i].t = "data" /\ toSrv[i].s = s
EofAt(i, s)  == i \in DOMAIN toSrv /\ toSrv[i].t = "eof" /\ toSrv[i].s = s
OpenAt(i, s) == i \in DOMAIN toDev /\ toDev[i].t = "open" /\ toDev[i].s = s
Quiet(s)     == \A i \in DOMAIN toSrv : toSrv[i].s # s

\* The pump is about to put a payload of s into the buffer.
InHand(s) == pump = "deliver" /\ held.s = s

\* Payloads of s that have left the wire.
Taken(s) == got[s] + Len(inbox[s]) + IF InHand(s) THEN 1 ELSE 0

\* A stream the device has not opened has sent nothing.
Untouched(s) == Quiet(s) /\ ~InHand(s) /\ s \notin loops /\ dsent[s] = 0 /\ got[s] = 0
                /\ inbox[s] = << >> /\ cause[s] # "eofDevice"

\* An OPEN frame is sent once, and nothing of the stream precedes it.
Openings ==
  \A s \in Streams :
    /\ opc[s] # "open" => Untouched(s) /\ \A i \in DOMAIN toDev : ~OpenAt(i, s)
    /\ \A i \in DOMAIN toDev : OpenAt(i, s) => Untouched(s)
    /\ \A i, j \in DOMAIN toDev : OpenAt(i, s) /\ OpenAt(j, s) => i = j
    /\ opc[s] \in {"idle", "authorized"} => s \notin table

\* While a stream is in the table the wire holds, in order and without a hole,
\* what the device sent and the pump has not taken: all of it while the link
\* is up or before an end of stream.
Bounded(s)  == /\ Taken(s) <= dsent[s]
               /\ \A i \in DOMAIN toSrv : DataAt(i, s) => Taken(s) < toSrv[i].n /\ toSrv[i].n <= dsent[s]
Rising(s)   == \A i, j \in DOMAIN toSrv : DataAt(i, s) /\ DataAt(j, s) /\ i < j => toSrv[i].n < toSrv[j].n
NoHole(s)   == \A j \in DOMAIN toSrv : DataAt(j, s) =>
                 \A m \in 1..MaxData : Taken(s) < m /\ m <= toSrv[j].n =>
                   \E i \in DOMAIN toSrv : DataAt(i, s) /\ toSrv[i].n = m /\ i <= j
Complete(s) == up => \A m \in 1..MaxData : Taken(s) < m /\ m <= dsent[s] =>
                       \E i \in DOMAIN toSrv : DataAt(i, s) /\ toSrv[i].n = m
Final(s)    == \A j \in DOMAIN toSrv : EofAt(j, s) =>
                 \A m \in 1..MaxData : Taken(s) < m /\ m <= dsent[s] =>
                   \E i \in DOMAIN toSrv : DataAt(i, s) /\ toSrv[i].n = m /\ i < j
FlowOf(s)   == Bounded(s) /\ Rising(s) /\ NoHole(s) /\ Complete(s) /\ Final(s)
Flow        == \A s \in table : FlowOf(s)

\* After an end of stream the device sends nothing more.
Ends ==
  \A s \in Streams :
    /\ \A j \in DOMAIN toSrv : EofAt(j, s) =>
         s \notin loops /\ \A i \in DOMAIN toSrv : DataAt(i, s) => i < j
    /\ fin[s] = "no" => cause[s] = "none"
    /\ cause[s] = "eofDevice" =>
         /\ s \notin loops /\ ~InHand(s)
         /\ \A i \in DOMAIN toSrv : ~DataAt(i, s)
         /\ got[s] + Len(inbox[s]) = dsent[s]
    /\ ended[s] = "eofDevice" => cause[s] = "eofDevice" /\ inbox[s] = << >>

\* What is in the pump's hand comes next.
Next1 == pump = "deliver" => held.n = got[held.s] + Len(inbox[held.s]) + 1

\* A stream is listed for closing only once it has been in the table, and
\* leaves the table for good when it is closed.
Places ==
  \A s \in Streams :
    /\ opc[s] \in {"idle", "authorized"} =>
         s \notin table /\ s \notin doomed /\ fin[s] = "no" /\ \A a \in Admins : s \notin sweep[a]
    /\ fin[s] \in {"removed", "done"} => s \notin table

Lane == Openings /\ Flow /\ Ends /\ Next1 /\ NoGap /\ Places

OrderInv == TypeOK /\ Lane

LEMMA OrderInit == Init => OrderInv
  <1> SUFFICES ASSUME Init, TypeOK PROVE Lane
    BY InitType DEF OrderInv
  <1>1. Openings /\ Ends
    BY DEF Init, Openings, Ends, Untouched, Quiet, InHand, OpenAt, EofAt, DataAt
  <1>2. Flow /\ Next1 /\ NoGap /\ Places
    BY DEF Init, Flow, Next1, NoGap, Places
  <1> QED BY <1>1, <1>2 DEF Lane

-----------------------------------------------------------------------------
(***************************************************************************)
(* What a step that moves no payload leaves alone                          *)
(***************************************************************************)
LEMMA FlowFrame ==
  ASSUME Flow, UNCHANGED <<toSrv, dsent>>, table' \subseteq table, up' => up,
         \A s \in table' : Taken(s)' = Taken(s)
  PROVE  Flow'
  <1> SUFFICES ASSUME NEW s \in table' PROVE FlowOf(s)'
    BY DEF Flow
  <1>1. FlowOf(s) /\ Taken(s)' = Taken(s)
    BY DEF Flow
  <1>2. \A i : DataAt(i, s)' = DataAt(i, s) /\ EofAt(i, s)' = EofAt(i, s)
    BY DEF DataAt, EofAt
  <1>3. Bounded(s)' /\ Rising(s)' /\ NoHole(s)'
    BY <1>1, <1>2 DEF FlowOf, Bounded, Rising, NoHole
  <1>4. Complete(s)' /\ Final(s)'
    BY <1>1, <1>2 DEF FlowOf, Complete, Final
  <1> QED BY <1>3, <1>4 DEF FlowOf

\* Closing a stream, but for the device's clean end.
LEMMA CloseFrame ==
  ASSUME TypeOK, Lane, NEW s \in Streams, NEW why \in Cause \ {"eofDevice"}, NEW b \in BOOLEAN,
         Finish(s, why, b), opc[s] \notin {"idle", "authorized"},
         UNCHANGED <<toSrv, table, loops, dsent, got, inbox, ended, opc, held, pump, up>>,
         doomed' \subseteq doomed, \A a \in Admins : sweep'[a] \subseteq sweep[a]
  PROVE  Lane'
  <1>1. /\ \A d \in Streams : d # s => fin'[d] = fin[d] /\ cause'[d] = cause[d]
        /\ fin[s] = "no" /\ fin'[s] = "busy" /\ cause'[s] = why
    BY DEF Finish, TypeOK
  <1>2. \A i, d : OpenAt(i, d)' = OpenAt(i, d)
    <2>1. CASE toDev' = toDev
      BY <2>1 DEF OpenAt
    <2>2. CASE toDev' = Append(toDev, [t |-> "close", s |-> s])
      <3>1. [t |-> "close", s |-> s] \in FrameTo
        BY DEF FrameTo
      <3> QED BY <2>2, <3>1, Appended DEF OpenAt, TypeOK
    <2> QED BY <2>1, <2>2 DEF Finish
  <1>3. \A d \in Streams : Untouched(d) => Untouched(d)'
    BY <1>1 DEF Untouched, Quiet, InHand
  <1>4. Openings'
    BY <1>2, <1>3 DEF Lane, Openings, OpenAt
  <1>5. Flow'
    BY FlowFrame DEF Lane, Taken, InHand
  <1>6. Ends'
    BY <1>1 DEF Lane, Ends, EofAt, DataAt, InHand
  <1>7. Next1' /\ NoGap'
    BY DEF Lane, Next1, NoGap
  <1>8. Places'
    BY <1>1 DEF Lane, Places
  <1> QED BY <1>4, <1>5, <1>6, <1>7, <1>8 DEF Lane

\* Steps of the connection and of the requests that close no stream themselves.
LEMMA QuietFrame ==
  ASSUME TypeOK, Lane,
         UNCHANGED <<toSrv, toDev, table, loops, dsent, got, inbox, ended, opc, held, cause>>,
         up' => up, pump' = "deliver" <=> pump = "deliver",
         \A s \in Streams : fin'[s] = fin[s] \/ (fin[s] = "removed" /\ fin'[s] = "done"),
         doomed' \subseteq doomed \cup table, \A a \in Admins : sweep'[a] \subseteq sweep[a] \cup table
  PROVE  Lane'
  <1>1. \A i, d : OpenAt(i, d)' = OpenAt(i, d)
    BY DEF OpenAt
  <1>2. \A d \in Streams : Untouched(d) => Untouched(d)'
    BY DEF Untouched, Quiet, InHand
  <1>3. Openings'
    BY <1>1, <1>2 DEF Lane, Openings, OpenAt
  <1>4. Flow'
    BY FlowFrame DEF Lane, Taken, InHand
  <1>5. Ends'
    BY DEF Lane, Ends, EofAt, DataAt, InHand
  <1>6. Next1' /\ NoGap'
    BY DEF Lane, Next1, NoGap
  <1>7. Places'
    BY DEF Lane, Places
  <1> QED BY <1>3, <1>4, <1>5, <1>6, <1>7 DEF Lane

-----------------------------------------------------------------------------
(***************************************************************************)
(* The steps of a stream, the connection and the requests                  *)
(***************************************************************************)
LEMMA InsertStep ==
  ASSUME TypeOK, Lane, NEW s \in Streams, Insert(s) PROVE Lane'
  <1> USE DEF adminVars, connVars, streamVars, devVars
  <1>1. /\ opc[s] = "authorized" /\ Untouched(s) /\ Untouched(s)'
        /\ \A d \in Streams : d # s => opc'[d] = opc[d] /\ (d \in table' <=> d \in table)
        /\ opc'[s] = "inserted"
    BY DEF Insert, Lane, Openings, TypeOK, Untouched, Quiet, InHand
  <1>2. \A d \in Streams : Untouched(d)' = Untouched(d) /\ Taken(d)' = Taken(d)
    BY DEF Insert, Untouched, Quiet, InHand, Taken
  <1>3. Openings'
    BY <1>1, <1>2 DEF Insert, Lane, Openings, OpenAt
  <1>4. FlowOf(s)'
    <2>1. \A i \in DOMAIN toSrv : ~DataAt(i, s)' /\ ~EofAt(i, s)'
      BY <1>1 DEF Untouched, Quiet, DataAt, EofAt
    <2>2. Taken(s)' = 0 /\ dsent'[s] = 0
      BY <1>1 DEF Untouched, Taken
    <2>3. toSrv' = toSrv
      BY DEF Insert
    <2> QED BY <2>1, <2>2, <2>3 DEF FlowOf, Bounded, Rising, NoHole, Complete, Final
  <1>5. ASSUME NEW d \in table PROVE FlowOf(d)'
    <2>1. FlowOf(d) /\ Taken(d)' = Taken(d)
      BY <1>2 DEF Lane, Flow, TypeOK
    <2>2. \A i : DataAt(i, d)' = DataAt(i, d) /\ EofAt(i, d)' = EofAt(i, d)
      BY DEF Insert, DataAt, EofAt
    <2>3. UNCHANGED <<toSrv, dsent, up>>
      BY DEF Insert
    <2> QED BY <2>1, <2>2, <2>3 DEF FlowOf, Bounded, Rising, NoHole, Complete, Final
  <1>6. Flow'
    BY <1>4, <1>5 DEF Flow, Insert
  <1>7. Ends' /\ Next1' /\ NoGap'
    BY DEF Insert, Lane, Ends, Next1, NoGap, EofAt, DataAt, InHand
  <1>8. Places'
    BY <1>1 DEF Insert, Lane, Places
  <1> QED BY <1>3, <1>6, <1>7, <1>8 DEF Lane

LEMMA WriteOpenStep ==
  ASSUME TypeOK, Lane, NEW s \in Streams, WriteOpen(s) PROVE Lane'
  <1> USE DEF adminVars, connVars, streamVars, devVars
  <1>1. /\ opc[s] = "inserted" /\ Untouched(s) /\ \A i \in DOMAIN toDev : ~OpenAt(i, s)
    BY DEF WriteOpen, Lane, Openings
  <1>2. \A d \in Streams : Untouched(d)' = Untouched(d) /\ Taken(d)' = Taken(d)
    BY DEF WriteOpen, Untouched, Quiet, InHand, Taken
  <1>3. table' \subseteq table /\ UNCHANGED <<toSrv, dsent, up>>
    BY DEF WriteOpen
  <1>4. Flow'
    BY <1>2, <1>3, FlowFrame DEF Lane, TypeOK
  <1>5. Ends' /\ Next1' /\ NoGap'
    BY DEF WriteOpen, Lane, Ends, Next1, NoGap, EofAt, DataAt, InHand
  <1>6. CASE toDev' = Append(toDev, [t |-> "open", s |-> s]) /\ opc' = [opc EXCEPT ![s] = "open"]
    <2> DEFINE x == [t |-> "open", s |-> s]
    <2>1. x \in FrameTo /\ x.t = "open" /\ x.s = s
      BY DEF FrameTo
    <2> HIDE DEF x
    <2>2. /\ DOMAIN toDev' = DOMAIN toDev \cup {Len(toDev) + 1}
          /\ toDev'[Len(toDev) + 1] = x /\ Len(toDev) + 1 \notin DOMAIN toDev
          /\ \A i \in DOMAIN toDev : toDev'[i] = toDev[i]
      BY <1>6, <2>1, Appended DEF TypeOK, x
    <2>3. \A d \in Streams : d # s => \A i : OpenAt(i, d)' = OpenAt(i, d)
      BY <2>1, <2>2 DEF OpenAt
    <2>4. \A i : OpenAt(i, s)' => i = Len(toDev) + 1
      BY <1>1, <2>1, <2>2 DEF OpenAt
    <2>5. \A d \in Streams : d # s => opc'[d] = opc[d] /\ (d \in table' <=> d \in table)
      BY <1>6 DEF WriteOpen, TypeOK
    <2>6. opc'[s] = "open" /\ Untouched(s)'
      BY <1>1, <1>2, <1>6 DEF TypeOK
    <2>7. Openings'
      <3> SUFFICES ASSUME NEW d \in Streams
                   PROVE  /\ opc'[d] # "open" => Untouched(d)' /\ \A i \in DOMAIN toDev' : ~OpenAt(i, d)'
                          /\ \A i \in DOMAIN toDev' : OpenAt(i, d)' => Untouched(d)'
                          /\ \A i, j \in DOMAIN toDev' : OpenAt(i, d)' /\ OpenAt(j, d)' => i = j
                          /\ opc'[d] \in {"idle", "authorized"} => d \notin table'
        BY DEF Openings
      <3>1. CASE d = s
        BY <3>1, <2>4, <2>6
      <3>2. CASE d # s
        <4>1. \A i : OpenAt(i, d) => i \in DOMAIN toDev
          BY DEF OpenAt
        <4> QED BY <3>2, <4>1, <2>3, <2>5, <1>2 DEF Lane, Openings
      <3> QED BY <3>1, <3>2
    <2>8. Places'
      BY <1>6 DEF WriteOpen, Lane, Places, TypeOK
    <2> QED BY <1>4, <1>5, <2>7, <2>8 DEF Lane
  <1>7. CASE table' = table \ {s} /\ opc' = [opc EXCEPT ![s] = "failed"] /\ UNCHANGED toDev
    <2>1. \A d \in Streams : d # s => opc'[d] = opc[d] /\ (d \in table' <=> d \in table)
      BY <1>7 DEF TypeOK
    <2>2. opc'[s] = "failed" /\ \A i, d : OpenAt(i, d)' = OpenAt(i, d)
      BY <1>7 DEF TypeOK, OpenAt
    <2>3. Openings'
      BY <1>1, <1>2, <1>7, <2>1, <2>2 DEF Lane, Openings
    <2>4. Places'
      BY <1>7, <2>1, <2>2 DEF WriteOpen, Lane, Places
    <2> QED BY <1>4, <1>5, <2>3, <2>4 DEF Lane
  <1> QED BY <1>6, <1>7 DEF WriteOpen

LEMMA ReadDataStep ==
  ASSUME TypeOK, Lane, NEW s \in Streams, ReadData(s) PROVE Lane'
  <1> USE DEF adminVars, connVars, streamVars, devVars
  <1>1. /\ inbox[s] \in Seq(0..MaxData) /\ inbox[s] # << >> /\ opc[s] = "open" /\ ended[s] = "none"
        /\ got'[s] = Head(inbox[s]) /\ inbox'[s] = Tail(inbox[s])
        /\ \A d \in Streams : d # s => got'[d] = got[d] /\ inbox'[d] = inbox[d]
    BY DEF ReadData, TypeOK
  <1>2. /\ got'[s] = got[s] + 1 /\ Len(inbox'[s]) = Len(inbox[s]) - 1 /\ Len(inbox[s]) \in Nat
        /\ got[s] \in Nat
        /\ got'[s] + Len(inbox'[s]) = got[s] + Len(inbox[s])
        /\ \A i \in DOMAIN inbox'[s] : i + 1 \in DOMAIN inbox[s] /\ inbox'[s][i] = inbox[s][i + 1] /\ i \in Nat
    <2>1. /\ Head(inbox[s]) = inbox[s][1] /\ 1 \in DOMAIN inbox[s]
          /\ Len(Tail(inbox[s])) = Len(inbox[s]) - 1
          /\ \A i \in DOMAIN Tail(inbox[s]) : i + 1 \in DOMAIN inbox[s] /\ Tail(inbox[s])[i] = inbox[s][i + 1] /\ i \in Nat
      BY <1>1, Shortened
    <2>2. inbox[s][1] = got[s] + 1 /\ got[s] \in Nat /\ Len(inbox[s]) \in Nat
      BY <1>1, <2>1 DEF Lane, NoGap, TypeOK
    <2>3. \A a, b \in Nat : (a + 1) + (b - 1) = a + b
      OBVIOUS
    <2>4. got'[s] = got[s] + 1 /\ Len(inbox'[s]) = Len(inbox[s]) - 1
      BY <1>1, <2>1, <2>2
    <2> QED BY <1>1, <2>1, <2>2, <2>3, <2>4
  <1>3. \A d \in Streams : Taken(d)' = Taken(d)
    <2>1. UNCHANGED <<pump, held>>
      BY DEF ReadData
    <2>2. \A d \in Streams : InHand(d)' = InHand(d)
      BY <2>1 DEF InHand
    <2>3. \A d \in Streams : got'[d] + Len(inbox'[d]) = got[d] + Len(inbox[d])
      BY <1>1, <1>2
    <2> QED BY <2>2, <2>3 DEF Taken
  <1>4. Flow'
    BY <1>3, FlowFrame DEF ReadData, Lane, TypeOK
  <1>5. NoGap'
    <2>1. ASSUME NEW i \in DOMAIN inbox'[s] PROVE inbox'[s][i] = got'[s] + i
      <3>1. inbox[s][i + 1] = got[s] + (i + 1)
        BY <1>2 DEF Lane, NoGap
      <3>2. \A a \in Nat : a + (i + 1) = (a + 1) + i
        BY <1>2
      <3> QED BY <1>2, <3>1, <3>2
    <2> QED BY <1>1, <2>1 DEF Lane, NoGap
  <1>6. Next1'
    <2>1. UNCHANGED <<pump, held>> /\ held.s \in Streams
      BY DEF ReadData, TypeOK, Busy
    <2>2. got'[held.s] + Len(inbox'[held.s]) = got[held.s] + Len(inbox[held.s])
      BY <1>1, <1>2, <2>1
    <2> QED BY <2>1, <2>2 DEF Lane, Next1
  <1>7. \A d \in Streams : Untouched(d) => d # s
    BY <1>1 DEF Untouched
  <1>8. \A d \in Streams : Untouched(d) => Untouched(d)'
    BY <1>1, <1>7 DEF ReadData, Untouched, Quiet, InHand
  <1>9. Openings'
    BY <1>8 DEF ReadData, Lane, Openings, OpenAt
  <1>10. Ends'
    <2>1. \A d \in Streams : got'[d] + Len(inbox'[d]) = got[d] + Len(inbox[d])
      BY <1>1, <1>2
    <2>2. \A i, d : EofAt(i, d)' = EofAt(i, d) /\ DataAt(i, d)' = DataAt(i, d) /\ InHand(d)' = InHand(d)
      BY DEF ReadData, EofAt, DataAt, InHand
    <2>3. UNCHANGED <<toSrv, loops, fin, cause, ended, dsent>>
      BY DEF ReadData
    <2> QED BY <1>1, <2>1, <2>2, <2>3 DEF Lane, Ends
  <1>11. Places'
    BY DEF ReadData, Lane, Places
  <1> QED BY <1>4, <1>5, <1>6, <1>9, <1>10, <1>11 DEF Lane

LEMMA ReadEndStep ==
  ASSUME TypeOK, Lane, NEW s \in Streams, ReadEnd(s) PROVE Lane'
  <1> USE DEF adminVars, connVars, streamVars, devVars
  <1>1. \A d \in Streams : Untouched(d)' = Untouched(d) /\ Taken(d)' = Taken(d)
    BY DEF ReadEnd, Untouched, Quiet, InHand, Taken
  <1>2. Openings' /\ Places'
    BY <1>1 DEF ReadEnd, Lane, Openings, OpenAt, Places
  <1>3. Flow'
    BY <1>1, FlowFrame DEF ReadEnd, Lane, TypeOK
  <1>4. Ends' /\ Next1' /\ NoGap'
    BY DEF ReadEnd, Lane, Ends, Next1, NoGap, EofAt, DataAt, InHand, TypeOK
  <1> QED BY <1>2, <1>3, <1>4 DEF Lane

LEMMA RemoveStep ==
  ASSUME TypeOK, Lane, NEW s \in Streams, FinishRemove(s) PROVE Lane'
  <1> USE DEF adminVars, connVars, streamVars, devVars
  <1>1. \A d \in Streams : Untouched(d)' = Untouched(d) /\ Taken(d)' = Taken(d)
    BY DEF FinishRemove, Untouched, Quiet, InHand, Taken
  <1>2. Openings' /\ Places'
    BY <1>1 DEF FinishRemove, Lane, Openings, OpenAt, Places, TypeOK
  <1>3. Flow'
    BY <1>1, FlowFrame DEF FinishRemove, Lane, TypeOK
  <1>4. Ends' /\ Next1' /\ NoGap'
    BY DEF FinishRemove, Lane, Ends, Next1, NoGap, EofAt, DataAt, InHand, TypeOK
  <1> QED BY <1>2, <1>3, <1>4 DEF Lane

LEMMA AuthorizeStep ==
  ASSUME TypeOK, Lane, NEW s \in Streams, Authorize(s) PROVE Lane'
  <1> USE DEF adminVars, connVars, streamVars, devVars
  <1>1. \A d \in Streams : Untouched(d)' = Untouched(d) /\ Taken(d)' = Taken(d)
    BY DEF Authorize, Untouched, Quiet, InHand, Taken
  <1>2. opc[s] = "idle" /\ opc'[s] \in {"authorized", "failed"} /\ \A d \in Streams : d # s => opc'[d] = opc[d]
    BY DEF Authorize, TypeOK
  <1>3. Openings' /\ Places'
    BY <1>1, <1>2 DEF Authorize, Lane, Openings, OpenAt, Places
  <1>4. Flow'
    BY <1>1, FlowFrame DEF Authorize, Lane, TypeOK
  <1>5. Ends' /\ Next1' /\ NoGap'
    BY DEF Authorize, Lane, Ends, Next1, NoGap, EofAt, DataAt, InHand
  <1> QED BY <1>3, <1>4, <1>5 DEF Lane

LEMMA StreamLaneStep ==
  ASSUME TypeOK, Lane, NEW s \in Streams, StreamStep(s) PROVE Lane'
  <1> USE DEF adminVars, connVars, streamVars, devVars
  <1>1. CASE CloseLocal(s) \/ WriteFails(s)
    <2>1. "eofLocal" \in Cause \ {"eofDevice"} /\ "gone" \in Cause \ {"eofDevice"}
      BY DEF Cause
    <2> QED BY <1>1, <2>1, CloseFrame DEF CloseLocal, WriteFails
  <1>2. CASE FinishSignal(s)
    BY <1>2, QuietFrame DEF FinishSignal, TypeOK
  <1> QED BY <1>1, <1>2, InsertStep, WriteOpenStep, ReadDataStep, ReadEndStep, RemoveStep, AuthorizeStep
          DEF StreamStep

LEMMA TearLaneStep ==
  ASSUME TypeOK, Lane, TearStep PROVE Lane'
  <1> USE DEF adminVars, connVars, streamVars, devVars
  <1>1. CASE TearMark \/ Replaced \/ TearDone
    BY <1>1, QuietFrame DEF TearMark, Replaced, TearDone
  <1>2. CASE TearCut \/ LinkDrops
    BY <1>2, QuietFrame DEF TearCut, LinkDrops
  <1>3. CASE TearSnapshot
    BY <1>3, QuietFrame DEF TearSnapshot
  <1>4. ASSUME NEW s \in Streams, TearStream(s) PROVE Lane'
    <2>1. CASE Finish(s, "gone", FALSE) /\ UNCHANGED doomed
      <3>1. "gone" \in Cause \ {"eofDevice"} /\ opc[s] \notin {"idle", "authorized"}
        BY <1>4 DEF Cause, TearStream, Lane, Places
      <3> QED BY <2>1, <3>1, <1>4, CloseFrame DEF TearStream
    <2>2. CASE doomed' = doomed \ {s} /\ UNCHANGED <<fin, cause, toDev>>
      BY <2>2, <1>4, QuietFrame DEF TearStream
    <2> QED BY <2>1, <2>2, <1>4 DEF TearStream
  <1> QED BY <1>1, <1>2, <1>3, <1>4 DEF TearStep

LEMMA AdminLaneStep ==
  ASSUME TypeOK, Lane, NEW a \in Admins, AdminStep(a) PROVE Lane'
  <1> USE DEF adminVars, connVars, streamVars, devVars
  <1>1. CASE ReadPrev(a) \/ Persist(a) \/ SweepDone(a)
    BY <1>1, QuietFrame DEF ReadPrev, Persist, SweepDone
  <1>2. CASE SweepSnapshot(a)
    BY <1>2, QuietFrame DEF SweepSnapshot, TypeOK
  <1>3. ASSUME NEW s \in Streams, SweepStream(a, s) PROVE Lane'
    <2>1. CASE Finish(s, "eofLocal", TRUE) /\ UNCHANGED sweep
      <3>1. "eofLocal" \in Cause \ {"eofDevice"} /\ opc[s] \notin {"idle", "authorized"}
        BY <1>3 DEF Cause, SweepStream, Lane, Places
      <3> QED BY <2>1, <3>1, <1>3, CloseFrame DEF SweepStream
    <2>2. CASE sweep' = [sweep EXCEPT ![a] = @ \ {s}] /\ UNCHANGED <<fin, cause, toDev>>
      BY <2>2, <1>3, QuietFrame DEF SweepStream, TypeOK
    <2> QED BY <2>1, <2>2, <1>3 DEF SweepStream
  <1> QED BY <1>1, <1>2, <1>3 DEF AdminStep

-----------------------------------------------------------------------------
(***************************************************************************)
(* The steps of the pump                                                   *)
(***************************************************************************)
LEMMA DeliverStep ==
  ASSUME TypeOK, Lane, PumpDeliver PROVE Lane'
  <1> USE DEF adminVars, connVars, streamVars, devVars
  <1>0. PICK h \in Streams : h = held.s
    BY DEF TypeOK, Busy
  <1>1. held.s = h /\ held.n \in 0..MaxData /\ inbox[h] \in Seq(0..MaxData) /\ pump = "deliver"
    BY <1>0 DEF TypeOK, Busy, PumpDeliver
  <1>2. /\ pump' = "reading" /\ inbox'[h] = Append(inbox[h], held.n)
        /\ \A d \in Streams : d # h => inbox'[d] = inbox[d]
        /\ UNCHANGED <<table, held, opc, fin, cause, got, ended, toDev, toSrv, dconns, loops, dsent, up, doomed, sweep>>
    BY <1>1 DEF PumpDeliver, TypeOK
  <1>3. /\ Len(inbox'[h]) = Len(inbox[h]) + 1 /\ Len(inbox[h]) \in Nat /\ got[h] \in Nat
        /\ DOMAIN inbox'[h] = DOMAIN inbox[h] \cup {Len(inbox[h]) + 1}
        /\ inbox'[h][Len(inbox[h]) + 1] = held.n
        /\ \A i \in DOMAIN inbox[h] : inbox'[h][i] = inbox[h][i]
    BY <1>1, <1>2, Appended DEF TypeOK
  <1>4. InHand(h) /\ \A d \in Streams : d # h => ~InHand(d)
    BY <1>1 DEF InHand
  <1>5. \A d \in Streams : ~InHand(d)'
    BY <1>2 DEF InHand
  <1>6. \A d \in Streams : Taken(d)' = Taken(d)
    <2>1. Taken(h)' = Taken(h)
      <3>1. Taken(h)' = got[h] + Len(inbox'[h]) + 0
        BY <1>1, <1>2, <1>5 DEF Taken
      <3>2. Taken(h) = got[h] + Len(inbox[h]) + 1
        BY <1>4 DEF Taken
      <3>3. \A a, b \in Nat : a + (b + 1) + 0 = a + b + 1
        OBVIOUS
      <3> QED BY <1>3, <3>1, <3>2, <3>3
    <2>2. ASSUME NEW d \in Streams, d # h PROVE Taken(d)' = Taken(d)
      BY <1>2, <1>4, <1>5, <2>2 DEF Taken
    <2> QED BY <2>1, <2>2
  <1>7. Flow'
    BY <1>2, <1>6, FlowFrame DEF Lane, TypeOK
  <1>8. NoGap'
    <2>1. held.n = got[h] + Len(inbox[h]) + 1
      BY <1>1 DEF Lane, Next1
    <2>2. ASSUME NEW i \in DOMAIN inbox'[h] PROVE inbox'[h][i] = got'[h] + i
      <3>1. CASE i \in DOMAIN inbox[h]
        BY <1>1, <1>2, <1>3, <3>1 DEF Lane, NoGap
      <3>2. CASE i = Len(inbox[h]) + 1
        BY <1>2, <1>3, <2>1, <3>2
      <3> QED BY <1>3, <3>1, <3>2
    <2> QED BY <1>2, <2>2 DEF Lane, NoGap
  <1>9. Next1'
    BY <1>2 DEF Next1
  <1>10. \A d \in Streams : Untouched(d) => Untouched(d)'
    BY <1>2, <1>4, <1>5 DEF Untouched, Quiet
  <1>11. Openings'
    BY <1>2, <1>10 DEF Lane, Openings, OpenAt
  <1>12. Ends'
    <2>1. cause[h] # "eofDevice" /\ ended[h] # "eofDevice"
      BY <1>1, <1>4 DEF Lane, Ends
    <2>2. \A i, d : EofAt(i, d)' = EofAt(i, d) /\ DataAt(i, d)' = DataAt(i, d)
      BY <1>2 DEF EofAt, DataAt
    <2> QED BY <1>2, <1>5, <2>1, <2>2 DEF Lane, Ends
  <1>13. Places'
    BY <1>2 DEF Lane, Places
  <1> QED BY <1>7, <1>8, <1>9, <1>11, <1>12, <1>13 DEF Lane

\* A payload given up belonged to a stream that is out of the table.
LEMMA DropStep ==
  ASSUME TypeOK, Lane, PumpDrops PROVE Lane'
  <1> USE DEF adminVars, connVars, streamVars, devVars
  <1>1. held.s \in Streams /\ held.s \notin table /\ pump = "deliver"
    BY DEF TypeOK, Busy, PumpDrops, Lane, Places
  <1>2. \A d \in Streams : ~InHand(d)' /\ (d # held.s => ~InHand(d))
    BY DEF PumpDrops, InHand
  <1>3. \A d \in table : Taken(d)' = Taken(d)
    BY <1>1, <1>2 DEF PumpDrops, Taken, TypeOK
  <1>4. Flow'
    BY <1>3, FlowFrame DEF PumpDrops, Lane
  <1>5. \A d \in Streams : Untouched(d) => Untouched(d)'
    BY <1>2 DEF PumpDrops, Untouched, Quiet
  <1>6. Openings' /\ Places'
    BY <1>5 DEF PumpDrops, Lane, Openings, OpenAt, Places
  <1>7. Ends' /\ Next1' /\ NoGap'
    BY <1>2 DEF PumpDrops, Lane, Ends, Next1, NoGap, EofAt, DataAt
  <1> QED BY <1>4, <1>6, <1>7 DEF Lane

LEMMA ReadStep ==
  ASSUME TypeOK, Lane, PumpRead PROVE Lane'
  <1> DEFINE f == Head(toSrv)
  <1> USE DEF adminVars, connVars, streamVars, devVars
  <1>1. /\ f \in FrameFrom /\ f = toSrv[1] /\ 1 \in DOMAIN toSrv
        /\ \A i \in DOMAIN Tail(toSrv) : i + 1 \in DOMAIN toSrv /\ Tail(toSrv)[i] = toSrv[i + 1] /\ i \in Nat /\ i >= 1
        /\ \A i \in DOMAIN toSrv : i # 1 => i - 1 \in DOMAIN Tail(toSrv) /\ Tail(toSrv)[i - 1] = toSrv[i] /\ i \in Nat /\ i >= 1
    BY Shortened DEF PumpRead, TypeOK
  <1>2. f.s \in Streams /\ f.n \in 0..MaxData /\ f.t \in {"data", "eof", "error"}
    BY <1>1 DEF FrameFrom
  <1>3. /\ toSrv' = Tail(toSrv) /\ pump = "reading" /\ held'.s = f.s /\ held'.n = f.n
        /\ UNCHANGED <<sweep, doomed, up, table, opc, inbox, got, ended, dconns, loops, dsent>>
    BY DEF PumpRead
  <1>4. \A d \in Streams : ~InHand(d)
    BY <1>3 DEF InHand
  <1> HIDE DEF f
  \* frames move up by one
  <1>5. \A i \in DOMAIN toSrv' : /\ i + 1 \in DOMAIN toSrv /\ i \in Nat /\ i >= 1
                                /\ toSrv'[i] = toSrv[i + 1]
                                /\ \A d : (DataAt(i, d)' <=> DataAt(i + 1, d)) /\ (EofAt(i, d)' <=> EofAt(i + 1, d))
    BY <1>1, <1>3 DEF DataAt, EofAt
  <1>6. \A i \in DOMAIN toSrv : i # 1 => /\ i - 1 \in DOMAIN toSrv' /\ i \in Nat /\ i >= 1
                                       /\ toSrv'[i - 1] = toSrv[i]
                                       /\ \A d : DataAt(i - 1, d)' <=> DataAt(i, d)
    BY <1>1, <1>3 DEF DataAt
  <1>7. \A d : (DataAt(1, d) <=> f.t = "data" /\ f.s = d) /\ (EofAt(1, d) <=> f.t = "eof" /\ f.s = d)
    BY <1>1 DEF DataAt, EofAt
  <1>8. \A d \in Streams : Quiet(d) => Quiet(d)' /\ d # f.s
    BY <1>1, <1>5 DEF Quiet
  <1>9. ASSUME NEW d \in table, Taken(d)' = Taken(d), ~DataAt(1, d) PROVE FlowOf(d)'
    <2>1. FlowOf(d)
      BY DEF Lane, Flow
    <2>2. Bounded(d)'
      BY <1>3, <1>5, <1>9, <2>1 DEF FlowOf, Bounded
    <2>3. Rising(d)'
      BY <1>5, <2>1 DEF FlowOf, Rising
    <2>4. ASSUME NEW m \in 1..MaxData, NEW k \in Nat, \E i \in DOMAIN toSrv : DataAt(i, d) /\ toSrv[i].n = m /\ i <= k
          PROVE  \E i \in DOMAIN toSrv' : DataAt(i, d)' /\ toSrv'[i].n = m /\ i <= k - 1
      <3>1. PICK i \in DOMAIN toSrv : DataAt(i, d) /\ toSrv[i].n = m /\ i <= k
        BY <2>4
      <3>2. i # 1
        BY <3>1, <1>9
      <3>3. i - 1 \in DOMAIN toSrv' /\ DataAt(i - 1, d)' /\ toSrv'[i - 1].n = m /\ i - 1 <= k - 1
        BY <1>6, <3>1, <3>2
      <3> QED BY <3>3
    <2>5. NoHole(d)'
      <3> SUFFICES ASSUME NEW j \in DOMAIN toSrv', DataAt(j, d)', NEW m \in 1..MaxData,
                          Taken(d)' < m, m <= toSrv'[j].n
                   PROVE  \E i \in DOMAIN toSrv' : DataAt(i, d)' /\ toSrv'[i].n = m /\ i <= j
        BY DEF NoHole
      <3>1. j + 1 \in DOMAIN toSrv /\ DataAt(j + 1, d) /\ toSrv'[j] = toSrv[j + 1] /\ j \in Nat
        BY <1>5
      <3>2. \E i \in DOMAIN toSrv : DataAt(i, d) /\ toSrv[i].n = m /\ i <= j + 1
        BY <3>1, <2>1, <1>9 DEF FlowOf, NoHole
      <3>3. \E i \in DOMAIN toSrv' : DataAt(i, d)' /\ toSrv'[i].n = m /\ i <= (j + 1) - 1
        BY <2>4, <3>1, <3>2
      <3> QED BY <3>1, <3>3
    <2>6. Complete(d)'
      <3> SUFFICES ASSUME up', NEW m \in 1..MaxData, Taken(d)' < m, m <= dsent'[d]
                   PROVE  \E i \in DOMAIN toSrv' : DataAt(i, d)' /\ toSrv'[i].n = m
        BY DEF Complete
      <3>1. PICK i \in DOMAIN toSrv : DataAt(i, d) /\ toSrv[i].n = m
        BY <1>3, <1>9, <2>1 DEF FlowOf, Complete
      <3>2. i # 1
        BY <3>1, <1>9
      <3>3. i - 1 \in DOMAIN toSrv' /\ DataAt(i - 1, d)' /\ toSrv'[i - 1].n = m
        BY <1>6, <3>1, <3>2
      <3> QED BY <3>3
    <2>7. Final(d)'
      <3> SUFFICES ASSUME NEW j \in DOMAIN toSrv', EofAt(j, d)', NEW m \in 1..MaxData,
                          Taken(d)' < m, m <= dsent'[d]
                   PROVE  \E i \in DOMAIN toSrv' : DataAt(i, d)' /\ toSrv'[i].n = m /\ i < j
        BY DEF Final
      <3>1. j + 1 \in DOMAIN toSrv /\ EofAt(j + 1, d) /\ j \in Nat
        BY <1>5
      <3>2. PICK i \in DOMAIN toSrv : DataAt(i, d) /\ toSrv[i].n = m /\ i < j + 1
        BY <3>1, <2>1, <1>3, <1>9 DEF FlowOf, Final
      <3>3. i # 1 /\ i \in Nat
        BY <3>2, <1>6, <1>9
      <3>4. i - 1 \in DOMAIN toSrv' /\ DataAt(i - 1, d)' /\ toSrv'[i - 1].n = m /\ i - 1 < j
        BY <1>6, <3>1, <3>2, <3>3
      <3> QED BY <3>4
    <2> QED BY <2>2, <2>3, <2>5, <2>6, <2>7 DEF FlowOf
  <1>10. Places' /\ NoGap'
    <2>1. \A d \in Streams : fin'[d] = fin[d] \/ (d = f.s /\ d \in table /\ fin'[d] = "busy" /\ fin[d] = "no")
      BY DEF PumpRead, Finish, TypeOK, f
    <2> QED BY <1>3, <2>1 DEF Lane, Places, NoGap
  <1>11. CASE f.s \notin table /\ UNCHANGED <<pump, fin, cause, toDev>>
    <2>1. \A d \in Streams : ~InHand(d)' /\ Taken(d)' = Taken(d)
      BY <1>3, <1>4, <1>11 DEF Taken, InHand
    <2>2. Flow'
      BY <1>3, <1>7, <1>9, <1>11, <2>1 DEF Flow, TypeOK
    <2>3. \A d \in Streams : Untouched(d) => Untouched(d)'
      BY <1>3, <1>8, <1>11, <2>1 DEF Untouched
    <2>4. Openings'
      BY <1>3, <1>11, <2>3 DEF Lane, Openings, OpenAt
    <2>5. Ends'
      BY <1>3, <1>5, <1>11, <2>1 DEF Lane, Ends
    <2>6. Next1'
      BY <1>3, <1>11 DEF Next1
    <2> QED BY <1>10, <2>2, <2>4, <2>5, <2>6 DEF Lane
  <1>12. CASE f.s \in table /\ f.t = "data" /\ pump' = "deliver" /\ UNCHANGED <<fin, cause, toDev>>
    <2>0. PICK h \in Streams : h = f.s
      BY <1>2
    <2>1. InHand(h)' /\ \A d \in Streams : d # h => ~InHand(d)'
      BY <2>0, <1>3, <1>12 DEF InHand
    <2>2. /\ Taken(h) = got[h] + Len(inbox[h]) /\ Taken(h) \in Nat /\ Taken(h)' = Taken(h) + 1
          /\ \A d \in Streams : d # h => Taken(d)' = Taken(d)
      BY <1>3, <1>4, <2>1 DEF Taken, TypeOK
    <2>3. FlowOf(h) /\ DataAt(1, h) /\ toSrv[1].n = f.n
      BY <1>1, <1>7, <1>12, <2>0 DEF Lane, Flow
    <2>4. f.n = Taken(h) + 1
      <3>1. Taken(h) < f.n /\ f.n \in Nat
        BY <1>1, <1>2, <2>3 DEF FlowOf, Bounded
      <3>2. CASE Taken(h) + 1 < f.n
        <4>1. Taken(h) + 1 \in 1..MaxData /\ Taken(h) < Taken(h) + 1 /\ Taken(h) + 1 <= toSrv[1].n
          BY <1>2, <2>2, <2>3, <3>1, <3>2
        <4>2. \E i \in DOMAIN toSrv : DataAt(i, h) /\ toSrv[i].n = Taken(h) + 1 /\ i <= 1
          BY <1>1, <2>3, <4>1 DEF FlowOf, NoHole
        <4>3. \A i \in DOMAIN toSrv : i <= 1 => i = 1
          BY <1>6
        <4> QED BY <2>3, <3>2, <4>2, <4>3
      <3> QED BY <2>2, <3>1, <3>2
    <2>5. FlowOf(h)'
      <3>1. \A i \in DOMAIN toSrv' : DataAt(i, h)' => f.n < toSrv'[i].n /\ toSrv'[i].n <= dsent[h]
        BY <1>1, <1>5, <2>3 DEF FlowOf, Rising, Bounded
      <3>2. Bounded(h)'
        BY <1>1, <1>3, <2>2, <2>3, <2>4, <3>1 DEF FlowOf, Bounded
      <3>3. Rising(h)'
        BY <1>5, <2>3 DEF FlowOf, Rising
      <3>4. NoHole(h)'
        <4> SUFFICES ASSUME NEW j \in DOMAIN toSrv', DataAt(j, h)', NEW m \in 1..MaxData,
                            Taken(h)' < m, m <= toSrv'[j].n
                     PROVE  \E i \in DOMAIN toSrv' : DataAt(i, h)' /\ toSrv'[i].n = m /\ i <= j
          BY DEF NoHole
        <4>1. j + 1 \in DOMAIN toSrv /\ DataAt(j + 1, h) /\ toSrv'[j] = toSrv[j + 1] /\ j \in Nat
          BY <1>5
        <4>2. PICK i \in DOMAIN toSrv : DataAt(i, h) /\ toSrv[i].n = m /\ i <= j + 1
          BY <4>1, <2>2, <2>3 DEF FlowOf, NoHole
        <4>3. i # 1
          BY <4>2, <2>2, <2>3, <2>4
        <4>4. i - 1 \in DOMAIN toSrv' /\ DataAt(i - 1, h)' /\ toSrv'[i - 1].n = m /\ i - 1 <= j
          BY <1>6, <4>1, <4>2, <4>3
        <4> QED BY <4>4
      <3>5. Complete(h)'
        <4> SUFFICES ASSUME up', NEW m \in 1..MaxData, Taken(h)' < m, m <= dsent'[h]
                     PROVE  \E i \in DOMAIN toSrv' : DataAt(i, h)' /\ toSrv'[i].n = m
          BY DEF Complete
        <4>1. PICK i \in DOMAIN toSrv : DataAt(i, h) /\ toSrv[i].n = m
          BY <1>3, <2>2, <2>3 DEF FlowOf, Complete
        <4>2. i # 1
          BY <4>1, <2>2, <2>3, <2>4
        <4>3. i - 1 \in DOMAIN toSrv' /\ DataAt(i - 1, h)' /\ toSrv'[i - 1].n = m
          BY <1>6, <4>1, <4>2
        <4> QED BY <4>3
      <3>6. Final(h)'
        <4> SUFFICES ASSUME NEW j \in DOMAIN toSrv', EofAt(j, h)', NEW m \in 1..MaxData,
                            Taken(h)' < m, m <= dsent'[h]
                     PROVE  \E i \in DOMAIN toSrv' : DataAt(i, h)' /\ toSrv'[i].n = m /\ i < j
          BY DEF Final
        <4>1. j + 1 \in DOMAIN toSrv /\ EofAt(j + 1, h) /\ j \in Nat
          BY <1>5
        <4>2. PICK i \in DOMAIN toSrv : DataAt(i, h) /\ toSrv[i].n = m /\ i < j + 1
          BY <4>1, <1>3, <2>2, <2>3 DEF FlowOf, Final
        <4>3. i # 1
          BY <4>2, <2>2, <2>3, <2>4
        <4>4. i - 1 \in DOMAIN toSrv' /\ DataAt(i - 1, h)' /\ toSrv'[i - 1].n = m /\ i - 1 < j
          BY <1>6, <4>1, <4>2, <4>3
        <4> QED BY <4>4
      <3> QED BY <3>2, <3>3, <3>4, <3>5, <3>6 DEF FlowOf
    <2>6. Flow'
      <3> SUFFICES ASSUME NEW d \in table PROVE FlowOf(d)'
        BY <1>3 DEF Flow
      <3>1. CASE d = h
        BY <2>5, <3>1
      <3>2. CASE d # h
        BY <2>0, <1>7, <1>9, <2>2, <3>2 DEF TypeOK
      <3> QED BY <3>1, <3>2
    <2>7. Next1'
      BY <1>2, <1>3, <2>0, <2>2, <2>4 DEF Next1
    <2>8. cause[h] # "eofDevice" /\ \A d \in Streams : Untouched(d) => d # h
      BY <1>8, <2>0, <2>3, <1>1 DEF Lane, Ends, Untouched
    <2>9. \A d \in Streams : Untouched(d) => Untouched(d)'
      BY <1>3, <1>8, <1>12, <2>1, <2>8 DEF Untouched
    <2>10. Openings'
      BY <1>3, <1>12, <2>9 DEF Lane, Openings, OpenAt
    <2>11. Ends'
      BY <1>3, <1>5, <1>12, <2>1, <2>8 DEF Lane, Ends
    <2> QED BY <1>10, <2>6, <2>7, <2>10, <2>11 DEF Lane
  <1>13. CASE f.s \in table /\ f.t # "data" /\ pump' = "finish"
    <2>1. \A d \in Streams : ~InHand(d)' /\ Taken(d)' = Taken(d)
      BY <1>3, <1>4, <1>13 DEF Taken, InHand
    <2>2. Flow'
      BY <1>3, <1>7, <1>9, <1>13, <2>1 DEF Flow, TypeOK
    <2>3. toDev' = toDev
      BY <1>13 DEF PumpRead, Finish, f
    <2>4. \/ UNCHANGED <<fin, cause>>
          \/ /\ fin[f.s] = "no" /\ fin'[f.s] = "busy"
             /\ cause'[f.s] = IF f.t = "eof" THEN "eofDevice" ELSE "error"
             /\ \A d \in Streams : d # f.s => fin'[d] = fin[d] /\ cause'[d] = cause[d]
      BY <1>2, <1>13 DEF PumpRead, Finish, TypeOK, f
    <2>5. \A d \in Streams : Untouched(d) => Untouched(d)'
      BY <1>3, <1>8, <2>1, <2>4 DEF Untouched
    <2>6. Openings'
      BY <1>3, <2>3, <2>5 DEF Lane, Openings, OpenAt
    <2>7. Next1'
      BY <1>13 DEF Next1
    <2>8. ASSUME f.t = "eof"
          PROVE  /\ f.s \notin loops /\ \A i \in DOMAIN toSrv : ~DataAt(i, f.s)
                 /\ got[f.s] + Len(inbox[f.s]) = dsent[f.s]
      <3>1. EofAt(1, f.s) /\ FlowOf(f.s)
        BY <1>7, <1>13, <2>8 DEF Lane, Flow
      <3>2. f.s \notin loops /\ \A i \in DOMAIN toSrv : ~DataAt(i, f.s)
        BY <1>1, <1>2, <1>6, <3>1 DEF Lane, Ends
      <3>3. Taken(f.s) <= dsent[f.s] /\ Taken(f.s) = got[f.s] + Len(inbox[f.s]) /\ Taken(f.s) \in Nat
        BY <1>2, <1>4, <3>1 DEF Taken, FlowOf, Bounded, TypeOK
      <3>4. ~(Taken(f.s) < dsent[f.s])
        <4>1. dsent[f.s] \in 0..MaxData
          BY <1>2 DEF TypeOK
        <4>2. SUFFICES ASSUME Taken(f.s) < dsent[f.s] PROVE FALSE
          OBVIOUS
        <4>3. dsent[f.s] \in 1..MaxData
          BY <3>3, <4>1, <4>2
        <4> QED BY <1>1, <3>1, <3>2, <4>2, <4>3 DEF FlowOf, Final
      <3> QED BY <1>2, <3>2, <3>3, <3>4 DEF TypeOK
    <2>9. Ends'
      <3>1. \A d \in Streams : \A j \in DOMAIN toSrv' : EofAt(j, d)' =>
              d \notin loops' /\ \A i \in DOMAIN toSrv' : DataAt(i, d)' => i < j
        BY <1>3, <1>5 DEF Lane, Ends
      <3>2. \A d \in Streams : (\A i \in DOMAIN toSrv : ~DataAt(i, d)) => \A i \in DOMAIN toSrv' : ~DataAt(i, d)'
        BY <1>5
      <3>3. ASSUME NEW d \in Streams, cause'[d] = "eofDevice"
            PROVE  /\ d \notin loops' /\ ~InHand(d)'
                   /\ \A i \in DOMAIN toSrv' : ~DataAt(i, d)'
                   /\ got'[d] + Len(inbox'[d]) = dsent'[d]
        <4>1. CASE cause[d] = "eofDevice"
          BY <1>3, <2>1, <3>2, <4>1 DEF Lane, Ends
        <4>2. CASE cause[d] # "eofDevice"
          <5>1. d = f.s /\ f.t = "eof"
            BY <2>4, <3>3, <4>2
          <5> QED BY <1>3, <2>1, <2>8, <3>2, <5>1
        <4> QED BY <4>1, <4>2
      <3>4. \A d \in Streams : fin'[d] = "no" => cause'[d] = "none"
        BY <1>2, <2>4 DEF Lane, Ends
      <3>5. \A d \in Streams : ended'[d] = "eofDevice" => cause'[d] = "eofDevice" /\ inbox'[d] = << >>
        BY <1>2, <1>3, <2>4 DEF Lane, Ends
      <3> QED BY <3>1, <3>3, <3>4, <3>5 DEF Ends
    <2> QED BY <1>10, <2>2, <2>6, <2>7, <2>9 DEF Lane
  <1> QED BY <1>11, <1>12, <1>13 DEF PumpRead, f

LEMMA PumpLaneStep ==
  ASSUME TypeOK, Lane, PumpNext PROVE Lane'
  <1>1. CASE PumpFinished \/ PumpEnds \/ PumpBlocks \/ PumpUnblocks
    BY <1>1, QuietFrame DEF PumpFinished, PumpEnds, PumpBlocks, PumpUnblocks, adminVars, connVars, streamVars, devVars
  <1> QED BY <1>1, DeliverStep, DropStep, ReadStep DEF PumpNext, PumpStep

-----------------------------------------------------------------------------
(***************************************************************************)
(* The steps of the device                                                 *)
(***************************************************************************)
\* A frame has been added at place k of the wire, behind all others.
Added(k, t, s, n) ==
  /\ DOMAIN toSrv' = DOMAIN toSrv \cup {k} /\ k \notin DOMAIN toSrv
  /\ toSrv'[k].t = t /\ toSrv'[k].s = s /\ toSrv'[k].n = n
  /\ \A i \in DOMAIN toSrv : toSrv'[i] = toSrv[i] /\ i \in Nat /\ i < k

\* A frame the device emits goes to the end of the wire, if the link is up.
LEMMA Emitted ==
  ASSUME TypeOK, NEW t \in {"data", "eof", "error"}, NEW s \in Streams, NEW n \in 0..MaxData, Emit(t, s, n)
  PROVE  /\ ~up => toSrv' = toSrv
         /\ up => \E k \in Nat : Added(k, t, s, n)
  <1> DEFINE x == [t |-> t, s |-> s, n |-> n]
  <1>1. x \in FrameFrom /\ x.t = t /\ x.s = s /\ x.n = n
    BY DEF FrameFrom
  <1>2. up => toSrv' = Append(toSrv, x)
    BY DEF Emit
  <1>3. ~up => toSrv' = toSrv
    BY DEF Emit
  <1> HIDE DEF x
  <1>4. toSrv \in Seq(FrameFrom)
    BY DEF TypeOK
  <1>5. PICK k \in Nat : k = Len(toSrv) + 1 /\ k \notin DOMAIN toSrv
    BY <1>4
  <1>6. CASE up
    <2>1. /\ DOMAIN toSrv' = DOMAIN toSrv \cup {k} /\ toSrv'[k] = x
          /\ \A i \in DOMAIN toSrv : toSrv'[i] = toSrv[i] /\ i \in Nat /\ i < k
      BY <1>1, <1>2, <1>4, <1>5, <1>6, Appended
    <2>2. Added(k, t, s, n)
      BY <1>1, <1>5, <2>1 DEF Added
    <2> QED BY <1>6, <2>2
  <1> QED BY <1>3, <1>6

\* An end or an error at the end of the wire, of a stream that sends nothing more.
LEMMA EndFrame ==
  ASSUME TypeOK, Lane, NEW t \in {"eof", "error"}, NEW s \in Streams, Emit(t, s, 0), s \notin loops',
         loops' \subseteq loops, UNCHANGED <<table, dsent, got, inbox, pump, held, up>>
  PROVE  Flow' /\ \A d \in Streams : \A j \in DOMAIN toSrv' : EofAt(j, d)' =>
           d \notin loops' /\ \A i \in DOMAIN toSrv' : DataAt(i, d)' => i < j
  <1>0. 0 \in 0..MaxData /\ t \in {"data", "eof", "error"}
    BY BufferAssumption
  <1>1. CASE ~up
    <2>1. toSrv' = toSrv
      BY <1>0, <1>1, Emitted
    <2>2. \A d : InHand(d)' = InHand(d) /\ Taken(d)' = Taken(d)
      BY DEF Taken, InHand
    <2>3. Flow'
      BY <2>1, <2>2, FlowFrame DEF Lane
    <2>4. \A i, d : EofAt(i, d)' = EofAt(i, d) /\ DataAt(i, d)' = DataAt(i, d)
      BY <2>1 DEF EofAt, DataAt
    <2> QED BY <2>1, <2>3, <2>4 DEF Lane, Ends
  <1>2. CASE up
    <2>0. PICK k \in Nat : Added(k, t, s, 0)
      BY <1>0, <1>2, Emitted
    <2>1. /\ DOMAIN toSrv' = DOMAIN toSrv \cup {k} /\ k \notin DOMAIN toSrv
          /\ toSrv'[k].t = t /\ toSrv'[k].s = s
          /\ \A i \in DOMAIN toSrv : toSrv'[i] = toSrv[i] /\ i \in Nat /\ i < k
      BY <2>0 DEF Added
    <2>2. \A i \in DOMAIN toSrv : \A d : DataAt(i, d)' = DataAt(i, d) /\ EofAt(i, d)' = EofAt(i, d)
      BY <2>1 DEF DataAt, EofAt
    <2>3. \A d : ~DataAt(k, d)' /\ (EofAt(k, d)' => d = s)
      BY <2>1 DEF DataAt, EofAt
    <2>4. \A d : Taken(d)' = Taken(d)
      BY DEF Taken, InHand
    <2>5. ASSUME NEW d \in table PROVE FlowOf(d)'
      <3>1. FlowOf(d)
        BY DEF Lane, Flow
      <3>2. Bounded(d)' /\ Rising(d)'
        BY <2>1, <2>2, <2>3, <2>4, <3>1 DEF FlowOf, Bounded, Rising
      <3>3. NoHole(d)' /\ Complete(d)'
        BY <2>1, <2>2, <2>3, <2>4, <3>1 DEF FlowOf, NoHole, Complete
      <3>4. Final(d)'
        <4> SUFFICES ASSUME NEW j \in DOMAIN toSrv', EofAt(j, d)', NEW m \in 1..MaxData,
                            Taken(d) < m, m <= dsent[d]
                     PROVE  \E i \in DOMAIN toSrv' : DataAt(i, d)' /\ toSrv'[i].n = m /\ i < j
          BY <2>4 DEF Final
        <4>1. CASE j \in DOMAIN toSrv
          BY <2>1, <2>2, <3>1, <4>1 DEF FlowOf, Final
        <4>2. CASE j = k
          <5>1. PICK i \in DOMAIN toSrv : DataAt(i, d) /\ toSrv[i].n = m
            BY <1>2, <3>1 DEF FlowOf, Complete
          <5> QED BY <2>1, <2>2, <4>2, <5>1
        <4> QED BY <2>1, <4>1, <4>2
      <3> QED BY <3>2, <3>3, <3>4 DEF FlowOf
    <2>6. Flow'
      BY <2>5 DEF Flow
    <2>7. ASSUME NEW d \in Streams, NEW j \in DOMAIN toSrv', EofAt(j, d)'
          PROVE  d \notin loops' /\ \A i \in DOMAIN toSrv' : DataAt(i, d)' => i < j
      <3>1. CASE j \in DOMAIN toSrv
        BY <2>1, <2>2, <2>3, <2>7, <3>1 DEF Lane, Ends
      <3>2. CASE j = k
        BY <2>1, <2>3, <2>7, <3>2
      <3> QED BY <2>1, <3>1, <3>2
    <2> QED BY <2>6, <2>7
  <1> QED BY <1>1, <1>2

LEMMA DeviceDataStep ==
  ASSUME TypeOK, Lane, NEW s \in Streams, DeviceData(s) PROVE Lane'
  <1> USE DEF adminVars, connVars, streamVars, devVars
  <1>1. /\ s \in loops /\ dsent[s] + 1 \in 1..MaxData /\ dsent[s] \in Nat /\ dsent'[s] = dsent[s] + 1
        /\ \A d \in Streams : d # s => dsent'[d] = dsent[d]
        /\ Emit("data", s, dsent[s] + 1)
        /\ UNCHANGED <<sweep, doomed, up, table, opc, inbox, got, ended, toDev, dconns, loops, pump, held, fin, cause>>
    BY DEF DeviceData, TypeOK
  <1>2. \A d : Taken(d)' = Taken(d) /\ InHand(d)' = InHand(d)
    BY <1>1 DEF Taken, InHand
  <1>3. ~Untouched(s) /\ cause[s] # "eofDevice" /\ \A j \in DOMAIN toSrv : ~EofAt(j, s)
    BY <1>1 DEF Untouched, Lane, Ends
  <1>4. \/ ~up /\ toSrv' = toSrv
        \/ up /\ \E k \in Nat : Added(k, "data", s, dsent[s] + 1)
    <2>1. dsent[s] + 1 \in 0..MaxData /\ "data" \in {"data", "eof", "error"}
      BY <1>1
    <2> QED BY <1>1, <2>1, Emitted
  <1>5. /\ DOMAIN toSrv \subseteq DOMAIN toSrv'
        /\ \A i \in DOMAIN toSrv : \A d : /\ toSrv'[i] = toSrv[i]
                                         /\ DataAt(i, d)' = DataAt(i, d) /\ EofAt(i, d)' = EofAt(i, d)
        /\ \A i \in DOMAIN toSrv' : i \notin DOMAIN toSrv =>
             /\ up /\ toSrv'[i].n = dsent[s] + 1 /\ i \in Nat
             /\ \A d : ~EofAt(i, d)' /\ (DataAt(i, d)' <=> d = s)
             /\ \A j \in DOMAIN toSrv' : j = i \/ (j \in DOMAIN toSrv /\ j \in Nat /\ j < i)
        /\ up => \E i \in DOMAIN toSrv' : toSrv'[i].n = dsent[s] + 1 /\ DataAt(i, s)'
    <2>1. CASE ~up /\ toSrv' = toSrv
      BY <2>1 DEF DataAt, EofAt
    <2>2. CASE up
      <3>0. PICK k \in Nat : Added(k, "data", s, dsent[s] + 1)
        BY <1>4, <2>2
      <3>1. /\ DOMAIN toSrv' = DOMAIN toSrv \cup {k} /\ k \notin DOMAIN toSrv
            /\ toSrv'[k].t = "data" /\ toSrv'[k].s = s /\ toSrv'[k].n = dsent[s] + 1
            /\ \A i \in DOMAIN toSrv : toSrv'[i] = toSrv[i] /\ i \in Nat /\ i < k
        BY <3>0 DEF Added
      <3>2. \A i \in DOMAIN toSrv : \A d : DataAt(i, d)' = DataAt(i, d) /\ EofAt(i, d)' = EofAt(i, d)
        BY <3>1 DEF DataAt, EofAt
      <3>3. \A d : ~EofAt(k, d)' /\ (DataAt(k, d)' <=> d = s)
        BY <3>1 DEF DataAt, EofAt
      <3> QED BY <2>2, <3>1, <3>2, <3>3
    <2> QED BY <1>4, <2>1, <2>2
  <1>6. \A d \in Streams : Untouched(d) => Untouched(d)'
    <2> SUFFICES ASSUME NEW d \in Streams, Untouched(d) PROVE Untouched(d)'
      OBVIOUS
    <2>1. d # s
      BY <1>3
    <2>2. Quiet(d)'
      BY <1>4, <2>1 DEF Untouched, Quiet, Added
    <2> QED BY <1>1, <1>2, <2>1, <2>2 DEF Untouched
  <1>7. Openings'
    BY <1>1, <1>6 DEF Lane, Openings, OpenAt
  <1>8. ASSUME NEW d \in table, d # s PROVE FlowOf(d)'
    <2>1. FlowOf(d) /\ dsent'[d] = dsent[d]
      BY <1>1, <1>8 DEF Lane, Flow, TypeOK
    <2>2. \A i \in DOMAIN toSrv' : DataAt(i, d)' \/ EofAt(i, d)' => i \in DOMAIN toSrv
      BY <1>5, <1>8
    <2>3. Bounded(d)' /\ Rising(d)'
      BY <1>2, <1>5, <2>1, <2>2 DEF FlowOf, Bounded, Rising
    <2>4. NoHole(d)' /\ Complete(d)'
      BY <1>1, <1>2, <1>5, <2>1, <2>2 DEF FlowOf, NoHole, Complete
    <2>5. Final(d)'
      BY <1>2, <1>5, <2>1, <2>2 DEF FlowOf, Final
    <2> QED BY <2>3, <2>4, <2>5 DEF FlowOf
  <1>9. ASSUME s \in table PROVE FlowOf(s)'
    <2>1. FlowOf(s) /\ Taken(s) \in Nat
      BY <1>9 DEF Lane, Flow, Taken, TypeOK
    <2>2. Bounded(s)'
      <3>1. Taken(s) <= dsent[s] + 1 /\ Taken(s) < dsent[s] + 1
        BY <1>1, <2>1 DEF FlowOf, Bounded
      <3>2. ASSUME NEW i \in DOMAIN toSrv', DataAt(i, s)' PROVE Taken(s) < toSrv'[i].n /\ toSrv'[i].n <= dsent[s] + 1
        <4>1. CASE i \in DOMAIN toSrv
          <5>1. Taken(s) < toSrv[i].n /\ toSrv[i].n <= dsent[s] /\ toSrv'[i] = toSrv[i]
            BY <1>5, <2>1, <3>2, <4>1 DEF FlowOf, Bounded
          <5>2. toSrv[i] \in FrameFrom
            BY <4>1 DEF TypeOK
          <5>3. toSrv[i].n \in Nat
            BY <5>2 DEF FrameFrom
          <5> QED BY <1>1, <5>1, <5>3
        <4>2. CASE i \notin DOMAIN toSrv
          BY <1>1, <1>5, <3>1, <4>2
        <4> QED BY <4>1, <4>2
      <3> QED BY <1>1, <1>2, <3>1, <3>2 DEF Bounded
    <2>3. Rising(s)'
      <3> SUFFICES ASSUME NEW i \in DOMAIN toSrv', NEW j \in DOMAIN toSrv', DataAt(i, s)', DataAt(j, s)', i < j
                   PROVE  toSrv'[i].n < toSrv'[j].n
        BY DEF Rising
      <3>1. CASE i \in DOMAIN toSrv /\ j \in DOMAIN toSrv
        BY <1>5, <2>1, <3>1 DEF FlowOf, Rising
      <3>2. CASE i \in DOMAIN toSrv /\ j \notin DOMAIN toSrv
        <4>1. toSrv[i].n <= dsent[s]
          BY <1>5, <2>1, <3>2 DEF FlowOf, Bounded
        <4>2. toSrv[i] \in FrameFrom
          BY <3>2 DEF TypeOK
        <4>3. toSrv[i].n \in Nat
          BY <4>2 DEF FrameFrom
        <4> QED BY <1>1, <1>5, <3>2, <4>1, <4>3
      <3>3. CASE i \notin DOMAIN toSrv
        BY <1>5, <3>3
      <3> QED BY <3>1, <3>2, <3>3
    <2>4. Complete(s)'
      <3> SUFFICES ASSUME up, NEW m \in 1..MaxData, Taken(s) < m, m <= dsent[s] + 1
                   PROVE  \E i \in DOMAIN toSrv' : DataAt(i, s)' /\ toSrv'[i].n = m
        BY <1>1, <1>2 DEF Complete
      <3>1. CASE m <= dsent[s]
        BY <1>5, <2>1, <3>1 DEF FlowOf, Complete
      <3>2. CASE m = dsent[s] + 1
        BY <1>5, <3>2
      <3> QED BY <1>1, <3>1, <3>2
    <2>5. NoHole(s)'
      <3> SUFFICES ASSUME NEW j \in DOMAIN toSrv', DataAt(j, s)', NEW m \in 1..MaxData,
                          Taken(s) < m, m <= toSrv'[j].n
                   PROVE  \E i \in DOMAIN toSrv' : DataAt(i, s)' /\ toSrv'[i].n = m /\ i <= j
        BY <1>2 DEF NoHole
      <3>1. CASE j \in DOMAIN toSrv
        BY <1>5, <2>1, <3>1 DEF FlowOf, NoHole
      <3>2. CASE j \notin DOMAIN toSrv
        <4>1. up' /\ m <= dsent'[s]
          BY <1>1, <1>5, <3>2
        <4>2. PICK i \in DOMAIN toSrv' : DataAt(i, s)' /\ toSrv'[i].n = m
          BY <1>2, <2>4, <4>1 DEF Complete
        <4>3. i <= j
          BY <1>5, <3>2, <4>2
        <4> QED BY <4>2, <4>3
      <3> QED BY <3>1, <3>2
    <2>6. Final(s)'
      BY <1>3, <1>5 DEF Final
    <2> QED BY <2>2, <2>3, <2>4, <2>5, <2>6 DEF FlowOf
  <1>10. Flow'
    BY <1>1, <1>8, <1>9 DEF Flow
  <1>11. Ends'
    <2>1. ASSUME NEW d \in Streams, NEW j \in DOMAIN toSrv', EofAt(j, d)'
          PROVE  d \notin loops' /\ \A i \in DOMAIN toSrv' : DataAt(i, d)' => i < j
      <3>1. j \in DOMAIN toSrv /\ EofAt(j, d) /\ d # s
        BY <1>3, <1>5, <2>1
      <3> QED BY <1>1, <1>5, <3>1 DEF Lane, Ends
    <2>2. ASSUME NEW d \in Streams, cause'[d] = "eofDevice"
          PROVE  /\ d \notin loops' /\ ~InHand(d)' /\ \A i \in DOMAIN toSrv' : ~DataAt(i, d)'
                 /\ got'[d] + Len(inbox'[d]) = dsent'[d]
      <3>1. cause[d] = "eofDevice" /\ d # s
        BY <1>1, <1>3, <2>2
      <3> QED BY <1>1, <1>2, <1>5, <3>1 DEF Lane, Ends
    <2> QED BY <1>1, <2>1, <2>2 DEF Lane, Ends
  <1>12. Next1' /\ NoGap' /\ Places'
    BY <1>1 DEF Lane, Next1, NoGap, Places
  <1> QED BY <1>7, <1>10, <1>11, <1>12 DEF Lane

LEMMA DeviceEndsStep ==
  ASSUME TypeOK, Lane, NEW s \in Streams, DeviceEnds(s) PROVE Lane'
  <1> USE DEF adminVars, connVars, streamVars, devVars
  <1>1. /\ s \in loops /\ loops' = loops \ {s}
        /\ UNCHANGED <<sweep, doomed, up, table, opc, inbox, got, ended, toDev, dsent, pump, held, fin, cause>>
    BY DEF DeviceEnds
  <1>2. ~Untouched(s) /\ \A d : InHand(d)' = InHand(d) /\ Taken(d)' = Taken(d)
    BY <1>1 DEF Untouched, InHand, Taken
  <1>3. CASE Emit("eof", s, 0)
    <2>1. Flow' /\ \A d \in Streams : \A j \in DOMAIN toSrv' : EofAt(j, d)' =>
            d \notin loops' /\ \A i \in DOMAIN toSrv' : DataAt(i, d)' => i < j
      BY <1>1, <1>3, EndFrame
    <2>2. \/ toSrv' = toSrv
          \/ \E k \in Nat : Added(k, "eof", s, 0)
      <3>1. 0 \in 0..MaxData /\ "eof" \in {"data", "eof", "error"}
        BY BufferAssumption
      <3> QED BY <1>3, <3>1, Emitted
    <2>3. \A d \in Streams : (Quiet(d) /\ d # s => Quiet(d)')
                           /\ ((\A i \in DOMAIN toSrv : ~DataAt(i, d)) => \A i \in DOMAIN toSrv' : ~DataAt(i, d)')
      BY <2>2 DEF Quiet, DataAt, Added
    <2>4. \A d \in Streams : Untouched(d) => Untouched(d)'
      BY <1>1, <1>2, <2>3 DEF Untouched
    <2>5. Openings'
      BY <1>1, <2>4 DEF Lane, Openings, OpenAt
    <2>6. Ends'
      BY <1>1, <1>2, <2>1, <2>3 DEF Lane, Ends
    <2>7. Next1' /\ NoGap' /\ Places'
      BY <1>1 DEF Lane, Next1, NoGap, Places
    <2> QED BY <2>1, <2>5, <2>6, <2>7 DEF Lane
  <1>4. CASE UNCHANGED toSrv
    <2>1. \A d \in Streams : Untouched(d) => Untouched(d)'
      BY <1>1, <1>2, <1>4 DEF Untouched, Quiet
    <2>2. Openings'
      BY <1>1, <2>1 DEF Lane, Openings, OpenAt
    <2>3. Flow'
      BY <1>1, <1>2, <1>4, FlowFrame DEF Lane
    <2>4. Ends'
      BY <1>1, <1>2, <1>4 DEF Lane, Ends, EofAt, DataAt
    <2>5. Next1' /\ NoGap' /\ Places'
      BY <1>1 DEF Lane, Next1, NoGap, Places
    <2> QED BY <2>2, <2>3, <2>4, <2>5 DEF Lane
  <1> QED BY <1>3, <1>4 DEF DeviceEnds

\* The device takes a frame: the OPEN frames left are those there were, one place on.
LEMMA DeviceOpenStep ==
  ASSUME TypeOK, Lane, DeviceOpen PROVE Lane'
  <1> USE DEF adminVars, connVars, streamVars, devVars
  <1>1. /\ Head(toDev) = toDev[1] /\ 1 \in DOMAIN toDev /\ Head(toDev) \in FrameTo
        /\ \A i \in DOMAIN Tail(toDev) : i + 1 \in DOMAIN toDev /\ Tail(toDev)[i] = toDev[i + 1] /\ i \in Nat /\ i >= 1
    BY Shortened DEF DeviceOpen, TypeOK
  <1>2. PICK s \in Streams : s = Head(toDev).s
    BY <1>1 DEF FrameTo
  <1>3. /\ toDev' = Tail(toDev) /\ OpenAt(1, s)
        /\ UNCHANGED <<sweep, doomed, up, table, opc, inbox, got, ended, dsent, pump, held, fin, cause>>
    BY <1>1, <1>2 DEF DeviceOpen, OpenAt
  <1>4. Untouched(s) /\ opc[s] = "open"
    BY <1>1, <1>3 DEF Lane, Openings
  <1>5. \A i \in DOMAIN toDev' : \A d : OpenAt(i, d)' => i + 1 \in DOMAIN toDev /\ OpenAt(i + 1, d) /\ i \in Nat /\ i >= 1
    BY <1>1, <1>3 DEF OpenAt
  <1>6. \A i \in DOMAIN toDev' : ~OpenAt(i, s)'
    BY <1>1, <1>3, <1>5 DEF Lane, Openings
  <1>7. \A d : InHand(d)' = InHand(d) /\ Taken(d)' = Taken(d)
    BY <1>3 DEF InHand, Taken
  <1>8. ASSUME \A d \in Streams : d # s /\ Untouched(d) => Untouched(d)' PROVE Openings'
    BY <1>3, <1>4, <1>5, <1>6, <1>8 DEF Lane, Openings
  <1>9. Next1' /\ NoGap' /\ Places'
    BY <1>3 DEF Lane, Next1, NoGap, Places
  <1>10. CASE loops' = loops \cup {s} /\ UNCHANGED toSrv
    <2>1. \A d \in Streams : d # s /\ Untouched(d) => Untouched(d)'
      BY <1>3, <1>7, <1>10 DEF Untouched, Quiet
    <2>2. Flow'
      BY <1>3, <1>7, <1>10, FlowFrame DEF Lane
    <2>3. cause[s] # "eofDevice" /\ \A j \in DOMAIN toSrv : ~EofAt(j, s)
      BY <1>4 DEF Untouched, Quiet, EofAt
    <2>4. Ends'
      BY <1>3, <1>7, <1>10, <2>3 DEF Lane, Ends, EofAt, DataAt
    <2> QED BY <1>8, <1>9, <2>1, <2>2, <2>4 DEF Lane
  <1>11. CASE Emit("error", s, 0) /\ UNCHANGED loops
    <2>1. s \notin loops
      BY <1>4 DEF Untouched
    <2>2. Flow' /\ \A d \in Streams : \A j \in DOMAIN toSrv' : EofAt(j, d)' =>
            d \notin loops' /\ \A i \in DOMAIN toSrv' : DataAt(i, d)' => i < j
      BY <1>3, <1>11, <2>1, EndFrame
    <2>3. \/ toSrv' = toSrv
          \/ \E k \in Nat : Added(k, "error", s, 0)
      <3>1. 0 \in 0..MaxData /\ "error" \in {"data", "eof", "error"}
        BY BufferAssumption
      <3> QED BY <1>11, <3>1, Emitted
    <2>4. \A d \in Streams : (Quiet(d) /\ d # s => Quiet(d)')
                           /\ ((\A i \in DOMAIN toSrv : ~DataAt(i, d)) => \A i \in DOMAIN toSrv' : ~DataAt(i, d)')
      BY <2>3 DEF Quiet, DataAt, Added
    <2>5. \A d \in Streams : d # s /\ Untouched(d) => Untouched(d)'
      BY <1>3, <1>7, <1>11, <2>4 DEF Untouched
    <2>6. Ends'
      BY <1>3, <1>7, <1>11, <2>2, <2>4 DEF Lane, Ends
    <2> QED BY <1>8, <1>9, <2>2, <2>5, <2>6 DEF Lane
  <1> QED BY <1>2, <1>10, <1>11 DEF DeviceOpen

\* Frames to the device go, none is added.
LEMMA DeviceTakes ==
  ASSUME TypeOK, Lane, DeviceClose \/ DeviceGone PROVE Lane'
  <1> USE DEF adminVars, connVars, streamVars, devVars
  <1>1. UNCHANGED <<sweep, doomed, up, table, opc, inbox, got, ended, dsent, pump, held, fin, cause, toSrv, loops>>
    BY DEF DeviceClose, DeviceGone
  <1>2. \A d : InHand(d)' = InHand(d) /\ Taken(d)' = Taken(d) /\ Untouched(d)' = Untouched(d)
    BY <1>1 DEF InHand, Taken, Untouched, Quiet
  <1>3. Openings'
    <2>1. CASE DeviceClose
      <3>1. \A i \in DOMAIN Tail(toDev) : i + 1 \in DOMAIN toDev /\ Tail(toDev)[i] = toDev[i + 1] /\ i \in Nat
        BY <2>1, Shortened DEF DeviceClose, TypeOK
      <3>2. \A i \in DOMAIN toDev' : \A d : OpenAt(i, d)' => i + 1 \in DOMAIN toDev /\ OpenAt(i + 1, d) /\ i \in Nat
        BY <2>1, <3>1 DEF DeviceClose, OpenAt
      <3> QED BY <1>1, <1>2, <3>2 DEF Lane, Openings
    <2>2. CASE DeviceGone
      <3>1. DOMAIN toDev' = {}
        BY <2>2 DEF DeviceGone
      <3> QED BY <1>1, <1>2, <3>1 DEF Lane, Openings
    <2> QED BY <2>1, <2>2
  <1>4. Flow'
    BY <1>1, <1>2, FlowFrame DEF Lane
  <1>5. Ends' /\ Next1' /\ NoGap' /\ Places'
    BY <1>1, <1>2 DEF Lane, Ends, Next1, NoGap, Places, EofAt, DataAt
  <1> QED BY <1>3, <1>4, <1>5 DEF Lane

-----------------------------------------------------------------------------
LEMMA OrderStep == OrderInv /\ [Next]_vars => OrderInv'
  <1> SUFFICES ASSUME TypeOK, Lane, [Next]_vars PROVE Lane'
    BY StepType DEF OrderInv
  <1>1. CASE UNCHANGED vars
    BY <1>1, QuietFrame DEF vars, adminVars, connVars, streamVars, devVars
  <1>2. CASE DeviceStep
    BY <1>2, DeviceOpenStep, DeviceTakes, DeviceDataStep, DeviceEndsStep DEF DeviceStep
  <1> QED BY <1>1, <1>2, StreamLaneStep, PumpLaneStep, TearLaneStep, AdminLaneStep DEF Next

\* A reader is given the device's payloads in order and without a gap, and all of them at
\* a clean end, for any number of streams, requests and payloads and any buffer.
THEOREM InOrder == Spec => []Ordered
  <1>1. OrderInv => Ordered
    <2> SUFFICES ASSUME OrderInv PROVE TypeOK /\ NoGap /\ EofIsComplete
      BY DEF Ordered
    <2>1. ASSUME NEW s \in Streams, ended[s] = "eofDevice" PROVE got[s] = dsent[s]
      <3>1. inbox[s] = << >> /\ got[s] + Len(inbox[s]) = dsent[s] /\ got[s] \in Nat
        BY <2>1 DEF OrderInv, Lane, Ends, TypeOK
      <3>2. Len(inbox[s]) = 0
        BY <3>1
      <3> QED BY <3>1, <3>2
    <2> QED BY <2>1 DEF OrderInv, Lane, EofIsComplete
  <1> QED BY <1>1, OrderInit, OrderStep, PTL DEF Spec
-----------------------------------------------------------------------------
(***************************************************************************)
(* What is left behind: by a teardown, by a revocation, on the device      *)
(***************************************************************************)
Standing(s) == fin[s] \in {"no", "busy"}
Cut(s)      == fin[s] \in {"removed", "done"} \/ opc[s] = "failed"

\* A stream that stands is in the table, so the teardown's list, made when no stream
\* can be opened any more, has them all.
Teardown ==
  /\ tear \in {"cut", "sweeping", "done"} => ~ up
  /\ \A s \in Streams : opc[s] \in {"inserted", "open"} /\ Standing(s) => s \in table
  /\ tear \in {"sweeping", "done"} => \A s \in Streams : opc[s] = "open" /\ Standing(s) => s \in doomed
  /\ tear = "done" => doomed = {}

\* Until a revocation is through, what it found is cut, or in the table, or on its list.
Sweeps ==
  \A a \in Admins : \A s \in found[a] :
    /\ apc[a] = "persisted" => s \in table \/ Cut(s)
    /\ apc[a] = "sweeping" => s \in sweep[a] \/ Cut(s) \/ ~ hub
    /\ apc[a] = "done" /\ Revokes(a) => Cut(s) \/ ~ hub

\* The device has read the CLOSE frame, or it comes after whatever would open a socket.
CloseAt(k, s) == k \in DOMAIN toDev /\ toDev[k].t = "close" /\ toDev[k].s = s
Told(s) == \/ \E k \in DOMAIN toDev : CloseAt(k, s) /\ \A i \in DOMAIN toDev : OpenAt(i, s) => i < k
           \/ s \notin dconns /\ \A i \in DOMAIN toDev : ~ OpenAt(i, s)

Unswept == \A a \in Admins : apc[a] \notin {"sweeping", "done"}

\* A socket to the target goes with the end of its stream, or when the device is told.
Sockets ==
  /\ \A s \in Streams : fin[s] # "no" => cause[s] # "none"
  /\ \A s \in Streams : (cause[s] = "eofDevice" \/ \E j \in DOMAIN toSrv : EofAt(j, s)) => s \notin dconns
  /\ up /\ Unswept => \A s \in Streams : cause[s] = "eofLocal" => opc[s] = "open" /\ Told(s)

ReleaseInv == OrderInv /\ Teardown /\ Sweeps /\ Sockets

LEMMA ReleaseInit == Init => ReleaseInv
  <1> SUFFICES ASSUME Init PROVE Teardown /\ Sweeps /\ Sockets
    BY OrderInit DEF ReleaseInv
  <1>1. Teardown /\ Sweeps
    BY DEF Init, Teardown, Sweeps
  <1>2. Sockets
    BY DEF Init, Sockets, EofAt
  <1> QED BY <1>1, <1>2

\* Whoever begins to close a stream leaves it standing: it is in the table until it is removed.
LEMMA FinishStands ==
  ASSUME TypeOK, NEW s \in Streams, NEW why, NEW b, Finish(s, why, b)
  PROVE  /\ \A d \in Streams : Standing(d)' = Standing(d)
         /\ \A d \in Streams : Cut(d) /\ opc' = opc => Cut(d)'
  BY DEF TypeOK, Finish, Standing, Cut

LEMMA TeardownStep ==
  ASSUME TypeOK, Teardown, [Next]_vars
  PROVE  Teardown'
  <1> USE DEF adminVars, connVars, streamVars, devVars, Teardown
  <1>1. CASE UNCHANGED <<up, tear, doomed, table, opc, fin>>
    BY <1>1 DEF Standing
  <1>2. ASSUME NEW s \in Streams, NEW why, NEW b, Finish(s, why, b), UNCHANGED <<up, tear, doomed, table, opc>>
        PROVE  Teardown'
    BY <1>2, FinishStands
  <1>3. ASSUME NEW s \in Streams, StreamStep(s) PROVE Teardown'
    <2>1. CASE Authorize(s) \/ Insert(s)
      BY <2>1 DEF Authorize, Insert, Standing, TypeOK
    <2>2. CASE WriteOpen(s)
      BY <2>2 DEF WriteOpen, Standing, TypeOK
    <2>3. CASE ReadData(s) \/ ReadEnd(s)
      BY <1>1, <2>3 DEF ReadData, ReadEnd
    <2>4. CASE CloseLocal(s) \/ WriteFails(s)
      BY <1>2, <2>4 DEF CloseLocal, WriteFails
    <2>5. CASE FinishRemove(s) \/ FinishSignal(s)
      <3>1. UNCHANGED <<up, tear, doomed, opc>> /\ fin[s] \in {"busy", "removed"}
        BY <2>5 DEF FinishRemove, FinishSignal
      <3>2. /\ fin'[s] \in {"removed", "done"} /\ \A d \in Streams : d # s => fin'[d] = fin[d]
            /\ table \subseteq table' \cup {s}
        BY <2>5 DEF FinishRemove, FinishSignal, TypeOK
      <3> QED BY <3>1, <3>2 DEF Standing
    <2> QED BY <1>3, <2>1, <2>2, <2>3, <2>4, <2>5 DEF StreamStep
  <1>4. CASE PumpNext
    <2>1. CASE PumpRead
      <3>1. Head(toSrv).s \in Streams
        <4>1. Head(toSrv) \in FrameFrom
          BY <2>1, Shortened DEF PumpRead, TypeOK
        <4> QED BY <4>1 DEF FrameFrom
      <3>2. UNCHANGED <<up, tear, doomed, table, opc>>
        BY <2>1 DEF PumpRead
      <3>3. UNCHANGED fin \/ \E why, b : Finish(Head(toSrv).s, why, b)
        BY <2>1 DEF PumpRead
      <3> QED BY <1>1, <1>2, <3>1, <3>2, <3>3
    <2>2. CASE PumpDeliver \/ PumpDrops \/ PumpFinished \/ PumpEnds \/ PumpBlocks \/ PumpUnblocks
      BY <1>1, <2>2 DEF PumpDeliver, PumpDrops, PumpFinished, PumpEnds, PumpBlocks, PumpUnblocks
    <2> QED BY <1>4, <2>1, <2>2 DEF PumpNext, PumpStep
  <1>5. CASE TearStep
    <2>1. CASE TearMark \/ Replaced \/ TearCut \/ TearSnapshot \/ TearDone \/ LinkDrops
      BY <2>1 DEF TearMark, Replaced, TearCut, TearSnapshot, TearDone, LinkDrops, Standing
    <2>2. ASSUME NEW s \in Streams, TearStream(s) PROVE Teardown'
      <3>1. CASE Finish(s, "gone", FALSE) /\ UNCHANGED doomed
        BY <1>2, <2>2, <3>1 DEF TearStream
      <3>2. CASE fin[s] = "done" /\ doomed' = doomed \ {s} /\ UNCHANGED fin
        BY <2>2, <3>2 DEF TearStream, Standing
      <3> QED BY <2>2, <3>1, <3>2 DEF TearStream
    <2> QED BY <1>5, <2>1, <2>2 DEF TearStep
  <1>6. ASSUME NEW a \in Admins, AdminStep(a) PROVE Teardown'
    <2>1. CASE ReadPrev(a) \/ Persist(a) \/ SweepSnapshot(a) \/ SweepDone(a)
      BY <1>1, <2>1 DEF ReadPrev, Persist, SweepSnapshot, SweepDone
    <2>2. ASSUME NEW s \in Streams, SweepStream(a, s) PROVE Teardown'
      BY <1>1, <1>2, <2>2 DEF SweepStream
    <2> QED BY <1>6, <2>1, <2>2 DEF AdminStep
  <1>7. CASE DeviceStep \/ UNCHANGED vars
    BY <1>1, <1>7 DEF DeviceStep, DeviceOpen, DeviceClose, DeviceGone, DeviceData, DeviceEnds, vars
  <1> QED BY <1>3, <1>4, <1>5, <1>6, <1>7 DEF Next

\* A stream that leaves the table is cut, and stays cut.
LEMMA SweepsStep ==
  ASSUME TypeOK, Lane, Sweeps, [Next]_vars
  PROVE  Sweeps'
  <1> USE DEF adminVars, connVars, streamVars, devVars
  <1>0. ASSUME UNCHANGED <<prev, next, sweep, found, apc>>, hub' => hub,
               \A s \in Streams : (Cut(s) => Cut(s)') /\ (s \in table => s \in table' \/ Cut(s)')
        PROVE  Sweeps'
    <2>1. \A a \in Admins : found[a] \subseteq Streams /\ Revokes(a)' = Revokes(a)
      BY <1>0 DEF TypeOK, Revokes
    <2> QED BY <1>0, <2>1 DEF Sweeps
  <1>1. CASE UNCHANGED <<prev, next, sweep, found, apc, table, opc, fin>> /\ (hub' => hub)
    BY <1>0, <1>1 DEF Cut
  <1>2. ASSUME NEW s \in Streams, NEW why, NEW b, Finish(s, why, b),
               UNCHANGED <<prev, next, sweep, found, apc, hub, table, opc>>
        PROVE  Sweeps'
    BY <1>0, <1>2, FinishStands
  <1>3. ASSUME NEW s \in Streams, StreamStep(s) PROVE Sweeps'
    <2>1. CASE Authorize(s)
      <3>1. \A d \in Streams : opc[d] = "failed" => opc'[d] = "failed"
        BY <2>1 DEF Authorize, TypeOK
      <3> QED BY <1>0, <2>1, <3>1 DEF Authorize, Cut
    <2>2. CASE Insert(s)
      <3>1. \A d \in Streams : opc[d] = "failed" => opc'[d] = "failed"
        BY <2>2 DEF Insert, TypeOK
      <3> QED BY <1>0, <2>2, <3>1 DEF Insert, Cut
    <2>3. CASE WriteOpen(s)
      <3>1. \A d \in Streams : opc[d] = "failed" => opc'[d] = "failed"
        BY <2>3 DEF WriteOpen, TypeOK
      <3>2. table' = table \/ (table' = table \ {s} /\ opc'[s] = "failed")
        BY <2>3 DEF WriteOpen, TypeOK
      <3> QED BY <1>0, <2>3, <3>1, <3>2 DEF WriteOpen, Cut
    <2>4. CASE ReadData(s) \/ ReadEnd(s)
      BY <1>1, <2>4 DEF ReadData, ReadEnd
    <2>5. CASE CloseLocal(s) \/ WriteFails(s)
      BY <1>2, <2>5 DEF CloseLocal, WriteFails
    <2>6. CASE FinishRemove(s) \/ FinishSignal(s)
      <3>1. \A d \in Streams : fin[d] \in {"removed", "done"} => fin'[d] \in {"removed", "done"}
        BY <2>6 DEF FinishRemove, FinishSignal, TypeOK
      <3>2. table' = table \/ (table' = table \ {s} /\ fin'[s] = "removed")
        BY <2>6 DEF FinishRemove, FinishSignal, TypeOK
      <3> QED BY <1>0, <2>6, <3>1, <3>2 DEF FinishRemove, FinishSignal, Cut
    <2> QED BY <1>3, <2>1, <2>2, <2>3, <2>4, <2>5, <2>6 DEF StreamStep
  <1>4. CASE PumpNext
    <2>1. CASE PumpRead
      <3>1. Head(toSrv).s \in Streams
        <4>1. Head(toSrv) \in FrameFrom
          BY <2>1, Shortened DEF PumpRead, TypeOK
        <4> QED BY <4>1 DEF FrameFrom
      <3>2. UNCHANGED <<prev, next, sweep, found, apc, hub, table, opc>>
        BY <2>1 DEF PumpRead
      <3>3. UNCHANGED fin \/ \E why, b : Finish(Head(toSrv).s, why, b)
        BY <2>1 DEF PumpRead
      <3> QED BY <1>1, <1>2, <3>1, <3>2, <3>3
    <2>2. CASE PumpDeliver \/ PumpDrops \/ PumpFinished \/ PumpEnds \/ PumpBlocks \/ PumpUnblocks
      BY <1>1, <2>2 DEF PumpDeliver, PumpDrops, PumpFinished, PumpEnds, PumpBlocks, PumpUnblocks
    <2> QED BY <1>4, <2>1, <2>2 DEF PumpNext, PumpStep
  <1>5. CASE TearStep
    <2>1. CASE TearMark \/ Replaced \/ TearCut \/ TearSnapshot \/ TearDone \/ LinkDrops
      BY <1>1, <2>1 DEF TearMark, Replaced, TearCut, TearSnapshot, TearDone, LinkDrops
    <2>2. ASSUME NEW s \in Streams, TearStream(s) PROVE Sweeps'
      BY <1>1, <1>2, <2>2 DEF TearStream
    <2> QED BY <1>5, <2>1, <2>2 DEF TearStep
  <1>6. ASSUME NEW a \in Admins, AdminStep(a) PROVE Sweeps'
    <2>1. UNCHANGED <<hub, table, opc>>
      BY <1>6 DEF AdminStep, ReadPrev, Persist, SweepSnapshot, SweepDone, SweepStream
    <2>2. CASE ReadPrev(a) \/ Persist(a) \/ SweepSnapshot(a) \/ SweepDone(a)
      <3>1. fin' = fin
        BY <2>2 DEF ReadPrev, Persist, SweepSnapshot, SweepDone
      <3>2. \A b \in Admins : b # a => UNCHANGED <<apc[b], prev[b], next[b], sweep[b], found[b]>>
        BY <2>2 DEF ReadPrev, Persist, SweepSnapshot, SweepDone, TypeOK
      <3>3. \A s \in found'[a] : /\ apc'[a] = "persisted" => s \in table \/ Cut(s)
                                 /\ apc'[a] = "sweeping" => s \in sweep'[a] \/ Cut(s) \/ ~ hub
                                 /\ apc'[a] = "done" /\ Revokes(a)' => Cut(s) \/ ~ hub
        <4>1. CASE ReadPrev(a)
          BY <4>1 DEF ReadPrev, TypeOK
        <4>2. CASE Persist(a)
          BY <4>2 DEF Persist, Revokes, TypeOK
        <4>3. CASE SweepSnapshot(a)
          BY <4>3 DEF SweepSnapshot, Sweeps, TypeOK
        <4>4. CASE SweepDone(a)
          BY <4>4 DEF SweepDone, Sweeps, TypeOK
        <4> QED BY <2>2, <4>1, <4>2, <4>3, <4>4
      <3> QED BY <2>1, <3>1, <3>2, <3>3 DEF Sweeps, Cut, Revokes
    <2>3. ASSUME NEW s \in Streams, SweepStream(a, s) PROVE Sweeps'
      <3>1. CASE Finish(s, "eofLocal", TRUE) /\ UNCHANGED sweep
        BY <1>2, <2>3, <3>1 DEF SweepStream
      <3>2. CASE fin[s] = "done" /\ sweep' = [sweep EXCEPT ![a] = @ \ {s}] /\ UNCHANGED fin
        <4>1. UNCHANGED <<prev, next, found, apc>> /\ Cut(s)
          BY <2>3, <3>2 DEF SweepStream, Cut
        <4>2. \A b \in Admins : \A d \in sweep[b] : d \in sweep'[b] \/ d = s
          BY <3>2 DEF TypeOK
        <4> QED BY <2>1, <3>2, <4>1, <4>2 DEF Sweeps, Cut, Revokes
      <3> QED BY <2>3, <3>1, <3>2 DEF SweepStream
    <2> QED BY <1>6, <2>2, <2>3 DEF AdminStep
  <1>7. CASE DeviceStep \/ UNCHANGED vars
    BY <1>1, <1>7 DEF DeviceStep, DeviceOpen, DeviceClose, DeviceGone, DeviceData, DeviceEnds, vars
  <1> QED BY <1>3, <1>4, <1>5, <1>6, <1>7 DEF Next

\* A frame is added: it opens no socket that a CLOSE frame was to release.
LEMMA ToldAppended ==
  ASSUME TypeOK, NEW s \in Streams, NEW d \in Streams, NEW t \in {"open", "close"},
         toDev' = Append(toDev, [t |-> t, s |-> d]), dconns' = dconns,
         t = "open" => Told(s) /\ d # s,
         t = "close" => Told(s) \/ d = s
  PROVE  Told(s)'
  <1>1. [t |-> t, s |-> d] \in FrameTo
    BY DEF FrameTo
  <1>2. PICK k \in Nat :
          /\ DOMAIN toDev' = DOMAIN toDev \cup {k} /\ toDev'[k] = [t |-> t, s |-> d] /\ k \notin DOMAIN toDev
          /\ \A i \in DOMAIN toDev : toDev'[i] = toDev[i] /\ i < k /\ i \in Nat
    <2>1. Len(toDev) + 1 \in Nat /\ Len(toDev) + 1 \notin DOMAIN toDev
      BY DEF TypeOK
    <2>2. toDev \in Seq(FrameTo)
      BY DEF TypeOK
    <2>3. /\ DOMAIN toDev' = DOMAIN toDev \cup {Len(toDev) + 1} /\ toDev'[Len(toDev) + 1] = [t |-> t, s |-> d]
          /\ \A i \in DOMAIN toDev : toDev'[i] = toDev[i] /\ i < Len(toDev) + 1 /\ i \in Nat
      BY <1>1, <2>2, Appended
    <2> QED BY <2>1, <2>3
  <1>3. \A i \in DOMAIN toDev : OpenAt(i, s)' = OpenAt(i, s) /\ CloseAt(i, s)' = CloseAt(i, s)
    BY <1>2 DEF OpenAt, CloseAt
  <1>4. CASE t = "close" /\ d = s
    <2>1. CloseAt(k, s)' /\ ~ OpenAt(k, s)'
      BY <1>2, <1>4 DEF CloseAt, OpenAt
    <2> QED BY <1>2, <1>4, <2>1 DEF Told
  <1>5. CASE Told(s) /\ ~ (t = "close" /\ d = s)
    <2>1. ~ OpenAt(k, s)'
      BY <1>2, <1>5 DEF OpenAt
    <2> QED BY <1>2, <1>3, <1>5, <2>1 DEF Told
  <1> QED BY <1>4, <1>5

\* The device takes a frame: those left are one place on.
LEMMA ToldTaken ==
  ASSUME TypeOK, NEW s \in Streams, toDev # << >>, toDev' = Tail(toDev), Told(s),
         Head(toDev).t = "open" => dconns' \subseteq dconns \cup {Head(toDev).s},
         Head(toDev).t = "close" => dconns' = dconns \ {Head(toDev).s}
  PROVE  Told(s)'
  <1>1. /\ Head(toDev) \in FrameTo /\ Head(toDev) = toDev[1] /\ 1 \in DOMAIN toDev
        /\ \A i \in DOMAIN toDev' : i + 1 \in DOMAIN toDev /\ toDev'[i] = toDev[i + 1] /\ i \in Nat /\ i >= 1
        /\ \A i \in DOMAIN toDev : i # 1 => i - 1 \in DOMAIN toDev' /\ toDev'[i - 1] = toDev[i] /\ i \in Nat /\ i >= 1
    BY Shortened DEF TypeOK
  <1>2. Head(toDev).t \in {"open", "close"}
    BY <1>1 DEF FrameTo
  <1>3. \A i \in DOMAIN toDev' : OpenAt(i, s)' => OpenAt(i + 1, s) /\ i + 1 \in DOMAIN toDev /\ i \in Nat /\ i >= 1
    BY <1>1 DEF OpenAt
  <1>4. ASSUME NEW k \in DOMAIN toDev, CloseAt(k, s), \A i \in DOMAIN toDev : OpenAt(i, s) => i < k PROVE Told(s)'
    <2>1. CASE k = 1
      <3>1. Head(toDev).t = "close" /\ Head(toDev).s = s
        BY <1>1, <1>4, <2>1 DEF CloseAt
      <3>2. \A i \in DOMAIN toDev' : ~ OpenAt(i, s)'
        BY <1>3, <1>4, <2>1
      <3> QED BY <3>1, <3>2 DEF Told
    <2>2. CASE k # 1
      <3>1. CloseAt(k - 1, s)' /\ k - 1 \in DOMAIN toDev' /\ k \in Nat
        BY <1>1, <1>4, <2>2 DEF CloseAt
      <3>2. \A i \in DOMAIN toDev' : OpenAt(i, s)' => i < k - 1
        BY <1>3, <1>4, <3>1
      <3> QED BY <3>1, <3>2 DEF Told
    <2> QED BY <2>1, <2>2
  <1>5. CASE s \notin dconns /\ \A i \in DOMAIN toDev : ~ OpenAt(i, s)
    <2>1. Head(toDev).t = "open" => Head(toDev).s # s
      BY <1>1, <1>5 DEF OpenAt
    <2>2. s \notin dconns'
      BY <1>2, <1>5, <2>1
    <2> QED BY <1>3, <1>5, <2>2 DEF Told
  <1> QED BY <1>4, <1>5 DEF Told

\* Nothing is closed and nothing sent to the device.
LEMMA SocketsStay ==
  ASSUME Sockets, UNCHANGED <<cause, toDev>>, dconns' \subseteq dconns, up' => up, Unswept' => Unswept,
         \A s \in Streams : /\ fin'[s] # "no" => fin[s] # "no"
                            /\ opc[s] = "open" => opc'[s] = "open"
                            /\ \A j \in DOMAIN toSrv' : EofAt(j, s)' =>
                                 s \notin dconns' \/ \E k \in DOMAIN toSrv : EofAt(k, s)
  PROVE  Sockets'
  <1>1. \A s \in Streams : Told(s) => Told(s)'
    BY DEF Told, CloseAt, OpenAt
  <1>2. \A s \in Streams : fin'[s] # "no" => cause'[s] # "none"
    BY DEF Sockets
  <1>3. \A s \in Streams : (cause'[s] = "eofDevice" \/ \E j \in DOMAIN toSrv' : EofAt(j, s)') => s \notin dconns'
    BY DEF Sockets
  <1>4. up' /\ Unswept' => \A s \in Streams : cause'[s] = "eofLocal" => opc'[s] = "open" /\ Told(s)'
    BY <1>1 DEF Sockets
  <1> QED BY <1>2, <1>3, <1>4 DEF Sockets

\* A stream is closed: the device is told, or knows, or the cause says it was not asked.
LEMMA SocketsFinish ==
  ASSUME TypeOK, Lane, Sockets, NEW s \in Streams, NEW why \in Cause \ {"none"}, NEW b \in BOOLEAN,
         Finish(s, why, b), UNCHANGED <<opc, dconns, apc, up>>,
         toSrv' = toSrv \/ (toSrv # << >> /\ toSrv' = Tail(toSrv)),
         why = "eofDevice" => s \notin dconns,
         why = "eofLocal" => b /\ (opc[s] = "open" \/ ~ Unswept)
  PROVE  Sockets'
  <1>1. /\ fin[s] = "no" /\ fin' = [fin EXCEPT ![s] = "busy"] /\ cause' = [cause EXCEPT ![s] = why]
        /\ toDev' = IF b /\ up THEN Append(toDev, [t |-> "close", s |-> s]) ELSE toDev
    BY DEF Finish
  <1>2. cause[s] = "none" /\ cause'[s] = why
        /\ \A d \in Streams : d # s => cause'[d] = cause[d] /\ fin'[d] = fin[d]
    BY <1>1 DEF Lane, Ends, TypeOK
  <1>3. \A d \in Streams : fin'[d] # "no" => cause'[d] # "none"
    BY <1>2 DEF Sockets
  <1>4. \A d \in Streams : \A j \in DOMAIN toSrv' : EofAt(j, d)' => \E k \in DOMAIN toSrv : EofAt(k, d)
    <2>1. CASE toSrv' = toSrv
      BY <2>1 DEF EofAt
    <2>2. CASE toSrv # << >> /\ toSrv' = Tail(toSrv)
      <3>1. \A i \in DOMAIN toSrv' : i + 1 \in DOMAIN toSrv /\ toSrv'[i] = toSrv[i + 1]
        BY <2>2, Shortened DEF TypeOK
      <3> QED BY <3>1 DEF EofAt
    <2> QED BY <2>1, <2>2
  <1>5. \A d \in Streams : (cause'[d] = "eofDevice" \/ \E j \in DOMAIN toSrv' : EofAt(j, d)') => d \notin dconns'
    BY <1>2, <1>4 DEF Sockets
  <1>6. ASSUME up, Unswept, NEW d \in Streams, cause'[d] = "eofLocal" PROVE opc[d] = "open" /\ Told(d)'
    <2>1. CASE d = s
      <3>1. opc[s] = "open" /\ toDev' = Append(toDev, [t |-> "close", s |-> s])
        BY <1>1, <1>2, <1>6, <2>1
      <3> QED BY <2>1, <3>1, ToldAppended
    <2>2. CASE d # s
      <3>1. opc[d] = "open" /\ Told(d)
        BY <1>2, <1>6, <2>2 DEF Sockets
      <3>2. CASE toDev' = toDev
        BY <3>1, <3>2 DEF Told, CloseAt, OpenAt
      <3>3. CASE toDev' = Append(toDev, [t |-> "close", s |-> s])
        BY <3>1, <3>3, ToldAppended
      <3> QED BY <1>1, <3>1, <3>2, <3>3
    <2> QED BY <2>1, <2>2
  <1>7. up' = up /\ Unswept' = Unswept /\ opc' = opc
    BY DEF Unswept
  <1> QED BY <1>3, <1>5, <1>6, <1>7 DEF Sockets

LEMMA StreamSockets ==
  ASSUME TypeOK, Lane, Sockets, NEW s \in Streams, StreamStep(s)
  PROVE  Sockets'
  <1> USE DEF adminVars, connVars, streamVars, devVars
  <1>1. \A j \in DOMAIN toSrv' : \A d \in Streams : toSrv' = toSrv /\ EofAt(j, d)' => EofAt(j, d) /\ j \in DOMAIN toSrv
    BY DEF EofAt
  <1>2. CASE Authorize(s) \/ Insert(s)
    <2>1. \A d \in Streams : opc[d] = "open" => opc'[d] = "open"
      BY <1>2 DEF Authorize, Insert, TypeOK
    <2>2. UNCHANGED <<cause, toDev, dconns, up, apc, fin, toSrv>>
      BY <1>2 DEF Authorize, Insert
    <2> QED BY <1>1, <2>1, <2>2, SocketsStay DEF Unswept
  <1>3. CASE WriteOpen(s)
    <2>1. UNCHANGED <<cause, dconns, up, apc, fin, toSrv>> /\ opc[s] = "inserted"
      BY <1>3 DEF WriteOpen
    <2>2. \A d \in Streams : opc[d] = "open" => opc'[d] = "open"
      BY <1>3 DEF WriteOpen, TypeOK
    <2>3. CASE toDev' = toDev
      BY <1>1, <2>1, <2>2, <2>3, SocketsStay DEF Unswept
    <2>4. CASE toDev' = Append(toDev, [t |-> "open", s |-> s])
      <3>1. ASSUME NEW d \in Streams, up, Unswept, cause[d] = "eofLocal" PROVE opc[d] = "open" /\ Told(d)'
        <4>1. opc[d] = "open" /\ Told(d)
          BY <3>1 DEF Sockets
        <4>2. d # s
          BY <2>1, <4>1
        <4> QED BY <2>1, <2>4, <4>1, <4>2, ToldAppended
      <3>2. \A d \in Streams : fin'[d] # "no" => cause'[d] # "none"
        BY <2>1 DEF Sockets
      <3>3. \A d \in Streams : (cause'[d] = "eofDevice" \/ \E j \in DOMAIN toSrv' : EofAt(j, d)') => d \notin dconns'
        BY <1>1, <2>1 DEF Sockets
      <3> QED BY <2>1, <2>2, <3>1, <3>2, <3>3 DEF Sockets, Unswept
    <2> QED BY <1>3, <2>3, <2>4 DEF WriteOpen
  <1>4. CASE ReadData(s) \/ ReadEnd(s)
    BY <1>1, <1>4, SocketsStay DEF ReadData, ReadEnd, Unswept
  <1>5. CASE CloseLocal(s)
    BY <1>5, SocketsFinish DEF CloseLocal, Cause
  <1>6. CASE WriteFails(s)
    BY <1>6, SocketsFinish DEF WriteFails, Cause
  <1>7. CASE FinishRemove(s) \/ FinishSignal(s)
    <2>1. \A d \in Streams : fin'[d] # "no" => fin[d] # "no"
      BY <1>7 DEF FinishRemove, FinishSignal, TypeOK
    <2>2. UNCHANGED <<cause, toDev, dconns, up, apc, opc, toSrv>>
      BY <1>7 DEF FinishRemove, FinishSignal
    <2> QED BY <1>1, <2>1, <2>2, SocketsStay DEF Unswept
  <1> QED BY <1>2, <1>3, <1>4, <1>5, <1>6, <1>7 DEF StreamStep

LEMMA PumpSockets ==
  ASSUME TypeOK, Lane, Sockets, PumpNext
  PROVE  Sockets'
  <1> USE DEF adminVars, connVars, streamVars, devVars
  <1>1. CASE PumpRead
    <2> DEFINE f == Head(toSrv)
    <2>1. /\ f \in FrameFrom /\ f = toSrv[1] /\ 1 \in DOMAIN toSrv
          /\ \A i \in DOMAIN Tail(toSrv) : i + 1 \in DOMAIN toSrv /\ Tail(toSrv)[i] = toSrv[i + 1]
      BY <1>1, Shortened DEF PumpRead, TypeOK
    <2>2. f.s \in Streams /\ f.t \in {"data", "eof", "error"}
      BY <2>1 DEF FrameFrom
    <2>3. toSrv' = Tail(toSrv) /\ toSrv # << >> /\ UNCHANGED <<opc, dconns, apc, up>>
      BY <1>1 DEF PumpRead
    <2>4. \/ UNCHANGED <<fin, cause, toDev>>
          \/ f.t # "data" /\ Finish(f.s, IF f.t = "eof" THEN "eofDevice" ELSE "error", FALSE)
      BY <1>1 DEF PumpRead
    <2>5. f.t = "eof" => EofAt(1, f.s)
      BY <2>1 DEF EofAt
    <2> HIDE DEF f
    <2>6. CASE UNCHANGED <<fin, cause, toDev>>
      <3>1. \A d \in Streams : \A j \in DOMAIN toSrv' : EofAt(j, d)' => \E k \in DOMAIN toSrv : EofAt(k, d)
        BY <2>1, <2>3 DEF EofAt
      <3> QED BY <2>3, <2>6, <3>1, SocketsStay DEF Unswept
    <2>7. CASE f.t = "eof" /\ Finish(f.s, "eofDevice", FALSE)
      <3>1. f.s \notin dconns
        BY <2>1, <2>2, <2>5, <2>7 DEF Sockets
      <3> QED BY <2>2, <2>3, <2>7, <3>1, SocketsFinish DEF Cause
    <2>8. CASE Finish(f.s, "error", FALSE)
      BY <2>2, <2>3, <2>8, SocketsFinish DEF Cause
    <2> QED BY <2>4, <2>6, <2>7, <2>8
  <1>2. CASE PumpDeliver \/ PumpDrops \/ PumpFinished \/ PumpEnds \/ PumpBlocks \/ PumpUnblocks
    <2>1. UNCHANGED <<cause, toDev, dconns, up, apc, opc, fin, toSrv>>
      BY <1>2 DEF PumpDeliver, PumpDrops, PumpFinished, PumpEnds, PumpBlocks, PumpUnblocks
    <2> QED BY <2>1, SocketsStay DEF Unswept, EofAt
  <1> QED BY <1>1, <1>2 DEF PumpNext, PumpStep

LEMMA TearSockets ==
  ASSUME TypeOK, Lane, Sockets, TearStep
  PROVE  Sockets'
  <1> USE DEF adminVars, connVars, streamVars, devVars
  <1>1. CASE TearMark \/ Replaced \/ TearCut \/ TearSnapshot \/ TearDone \/ LinkDrops
    <2>1. UNCHANGED <<cause, toDev, dconns, apc, opc, fin, toSrv>> /\ (up' => up)
      BY <1>1 DEF TearMark, Replaced, TearCut, TearSnapshot, TearDone, LinkDrops
    <2> QED BY <2>1, SocketsStay DEF Unswept, EofAt
  <1>2. ASSUME NEW s \in Streams, TearStream(s) PROVE Sockets'
    <2>1. UNCHANGED <<dconns, apc, opc, up, toSrv>>
      BY <1>2 DEF TearStream
    <2>2. CASE Finish(s, "gone", FALSE)
      BY <2>1, <2>2, SocketsFinish DEF Cause
    <2>3. CASE UNCHANGED <<fin, cause, toDev>>
      BY <2>1, <2>3, SocketsStay DEF Unswept, EofAt
    <2> QED BY <1>2, <2>2, <2>3 DEF TearStream
  <1> QED BY <1>1, <1>2 DEF TearStep

LEMMA AdminSockets ==
  ASSUME TypeOK, Lane, Sockets, NEW a \in Admins, AdminStep(a)
  PROVE  Sockets'
  <1> USE DEF adminVars, connVars, streamVars, devVars
  <1>1. CASE ReadPrev(a) \/ Persist(a) \/ SweepSnapshot(a) \/ SweepDone(a)
    <2>1. UNCHANGED <<cause, toDev, dconns, up, opc, fin, toSrv>>
      BY <1>1 DEF ReadPrev, Persist, SweepSnapshot, SweepDone
    <2>2. \A b \in Admins : apc[b] \in {"sweeping", "done"} => apc'[b] \in {"sweeping", "done"}
      BY <1>1 DEF ReadPrev, Persist, SweepSnapshot, SweepDone, TypeOK
    <2> QED BY <2>1, <2>2, SocketsStay DEF Unswept, EofAt
  <1>2. ASSUME NEW s \in Streams, SweepStream(a, s) PROVE Sockets'
    <2>1. UNCHANGED <<dconns, apc, opc, up, toSrv>> /\ ~ Unswept
      BY <1>2 DEF SweepStream, Unswept
    <2>2. CASE Finish(s, "eofLocal", TRUE)
      BY <2>1, <2>2, SocketsFinish DEF Cause
    <2>3. CASE UNCHANGED <<fin, cause, toDev>>
      BY <2>1, <2>3, SocketsStay DEF Unswept, EofAt
    <2> QED BY <1>2, <2>2, <2>3 DEF SweepStream
  <1> QED BY <1>1, <1>2 DEF AdminStep

\* On the device: a stream opened has not ended, an end and a CLOSE frame release the socket.
LEMMA DeviceSockets ==
  ASSUME TypeOK, Lane, Sockets, DeviceStep
  PROVE  Sockets'
  <1> USE DEF adminVars, connVars, streamVars, devVars
  <1>1. UNCHANGED <<fin, cause, opc, apc, up>>
    BY DEF DeviceStep, DeviceOpen, DeviceClose, DeviceGone, DeviceData, DeviceEnds
  <1>2. ASSUME NEW t \in {"data", "eof", "error"}, NEW s \in Streams, NEW n \in 0..MaxData, Emit(t, s, n),
               t = "eof" => s \notin dconns'
        PROVE  \A d \in Streams : \A j \in DOMAIN toSrv' : EofAt(j, d)' =>
                 d \notin dconns' \/ \E k \in DOMAIN toSrv : EofAt(k, d)
    <2>1. CASE toSrv' = toSrv
      BY <2>1 DEF EofAt
    <2>2. ASSUME NEW k \in Nat, Added(k, t, s, n)
          PROVE  \A d \in Streams : \A j \in DOMAIN toSrv' : EofAt(j, d)' =>
                   d \notin dconns' \/ \E i \in DOMAIN toSrv : EofAt(i, d)
      BY <1>2, <2>2 DEF EofAt, Added
    <2> QED BY <1>2, <2>1, <2>2, Emitted
  <1>3. CASE DeviceOpen \/ DeviceClose
    <2>1. /\ Head(toDev) \in FrameTo /\ Head(toDev) = toDev[1] /\ 1 \in DOMAIN toDev /\ toDev # << >>
          /\ toDev' = Tail(toDev)
      BY <1>3, Shortened DEF DeviceOpen, DeviceClose, TypeOK
    <2>2. PICK s \in Streams : s = Head(toDev).s
      BY <2>1 DEF FrameTo
    <2>3. \/ Head(toDev).t = "close" /\ dconns' = dconns \ {s} /\ toSrv' = toSrv
          \/ Head(toDev).t = "open" /\ dconns' = dconns \cup {s} /\ toSrv' = toSrv
          \/ Head(toDev).t = "open" /\ dconns' = dconns /\ Emit("error", s, 0)
      BY <1>3, <2>2 DEF DeviceOpen, DeviceClose
    <2>4. \A d \in Streams : Told(d) => Told(d)'
      BY <2>1, <2>2, <2>3, ToldTaken
    <2>5. Head(toDev).t = "open" => cause[s] # "eofDevice" /\ \A j \in DOMAIN toSrv : ~ EofAt(j, s)
      <3>1. Head(toDev).t = "open" => OpenAt(1, s)
        BY <2>1, <2>2 DEF OpenAt
      <3> QED BY <2>1, <3>1 DEF Lane, Openings, Untouched, Quiet, EofAt
    <2>6. \A d \in Streams : \A j \in DOMAIN toSrv' : EofAt(j, d)' =>
            d \notin dconns' \/ \E k \in DOMAIN toSrv : EofAt(k, d)
      <3>1. CASE toSrv' = toSrv
        BY <3>1 DEF EofAt
      <3>2. CASE Emit("error", s, 0)
        BY <1>2, <3>2
      <3> QED BY <2>3, <3>1, <3>2
    <2>7. \A d \in Streams : (cause'[d] = "eofDevice" \/ \E j \in DOMAIN toSrv' : EofAt(j, d)') => d \notin dconns'
      BY <1>1, <2>3, <2>5, <2>6 DEF Sockets
    <2> QED BY <1>1, <2>4, <2>7 DEF Sockets, Unswept
  <1>4. CASE DeviceGone
    BY <1>1, <1>4 DEF DeviceGone, Sockets
  <1>5. ASSUME NEW s \in Streams, DeviceData(s) PROVE Sockets'
    <2>1. UNCHANGED <<dconns, toDev>> /\ Emit("data", s, dsent[s] + 1) /\ dsent[s] + 1 \in 0..MaxData
      BY <1>5 DEF DeviceData, TypeOK
    <2> QED BY <1>1, <1>2, <2>1, SocketsStay DEF Unswept
  <1>6. ASSUME NEW s \in Streams, DeviceEnds(s) PROVE Sockets'
    <2>1. toDev' = toDev /\ dconns' = dconns \ {s} /\ (toSrv' = toSrv \/ Emit("eof", s, 0))
      BY <1>6 DEF DeviceEnds
    <2>2. \A d \in Streams : \A j \in DOMAIN toSrv' : EofAt(j, d)' =>
            d \notin dconns' \/ \E k \in DOMAIN toSrv : EofAt(k, d)
      <3>1. CASE toSrv' = toSrv
        BY <3>1 DEF EofAt
      <3>2. CASE Emit("eof", s, 0)
        BY <1>2, <2>1, <3>2
      <3> QED BY <2>1, <3>1, <3>2
    <2> QED BY <1>1, <2>1, <2>2, SocketsStay DEF Unswept
  <1> QED BY <1>3, <1>4, <1>5, <1>6 DEF DeviceStep

LEMMA ReleaseStep == ReleaseInv /\ [Next]_vars => ReleaseInv'
  <1> SUFFICES ASSUME ReleaseInv, [Next]_vars PROVE ReleaseInv'
    OBVIOUS
  <1>1. OrderInv' /\ TypeOK /\ Lane
    BY OrderStep DEF ReleaseInv, OrderInv
  <1>2. Teardown' /\ Sweeps'
    BY <1>1, TeardownStep, SweepsStep DEF ReleaseInv
  <1>3. CASE UNCHANGED vars
    <2>1. UNCHANGED <<fin, cause, opc, apc, up, dconns, toDev, toSrv>>
      BY <1>3 DEF vars, adminVars, connVars, streamVars, devVars
    <2>2. Sockets'
      BY <2>1, SocketsStay DEF ReleaseInv, Unswept, EofAt
    <2> QED BY <1>1, <1>2, <2>2 DEF ReleaseInv
  <1>4. CASE Next
    BY <1>1, <1>2, <1>4, StreamSockets, PumpSockets, TearSockets, AdminSockets, DeviceSockets DEF ReleaseInv, Next
  <1> QED BY <1>3, <1>4

LEMMA ReleaseAlways == Spec => []ReleaseInv
  BY ReleaseInit, ReleaseStep, PTL DEF Spec

\* Nobody is left holding a stream: after a teardown every stream handed out is closed, even
\* one whose OpenStream overlapped it (conn.go:833-843), and a device that has read what was
\* sent to it bridges no stream that the server has closed (stream.go:97).
THEOREM NobodyHolds == Spec => []Released
  <1>1. ReleaseInv => Released
    <2> SUFFICES ASSUME ReleaseInv PROVE NoOrphanStream /\ DeviceReleased
      BY DEF Released
    <2>1. NoOrphanStream
      BY DEF ReleaseInv, Teardown, Standing, NoOrphanStream, OrderInv, TypeOK
    <2>2. ASSUME up, toDev = << >>, Unswept, NEW s \in dconns, fin[s] = "done"
          PROVE  cause[s] \in {"error", "gone"}
      <3>1. s \in Streams /\ cause[s] \in Cause
        BY DEF ReleaseInv, OrderInv, TypeOK
      <3>2. cause[s] # "none" /\ cause[s] # "eofDevice"
        BY <2>2, <3>1 DEF ReleaseInv, Sockets
      <3>3. cause[s] # "eofLocal"
        <4>1. DOMAIN toDev = {}
          BY <2>2
        <4> QED BY <2>2, <3>1, <4>1 DEF ReleaseInv, Sockets, Told
      <3> QED BY <3>1, <3>2, <3>3 DEF Cause
    <2> QED BY <2>1, <2>2 DEF DeviceReleased, Unswept
  <1> QED BY <1>1, ReleaseAlways, PTL

\* A revocation that has returned has cut every stream that was in the table when it was
\* persisted (api.go:538-546), however openings, other requests and the teardown overlap it.
THEOREM RevokedAreCut == Spec => []RevocationCuts
  <1>1. ReleaseInv => RevocationCuts
    BY DEF ReleaseInv, Sweeps, Cut, RevocationCuts
  <1> QED BY <1>1, ReleaseAlways, PTL

=============================================================================

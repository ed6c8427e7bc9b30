-------------------------- MODULE ViewReplayProofs --------------------------
(***************************************************************************)
(* What users see of a device, live and afterwards.  Live view for any     *)
(* number of sessions and browsers: a closed session holds nothing, Stop   *)
(* finds the open one, and the device serves one.  The recorder for any    *)
(* commands and buffer: a frame follows every action, and off is heeded.   *)
(* The recording at rest for any number of steps, any cap, window and      *)
(* faults: frames are backed, only old steps go.                           *)
(***************************************************************************)
EXTENDS LiveView, ReplayRecorder, ReplayStore, FiniteSetTheorems, TLAPS

-----------------------------------------------------------------------------
(***************************************************************************)
(* Live view: the inductive invariant                                      *)
(***************************************************************************)
USE NoneAssumption

Early(s) == spc[s] \in {"idle", "checked", "stopping"}

\* Nothing of a session exists before it is registered.
Unborn ==
  \A s \in Sessions : Early(s) =>
    /\ byDevice # s /\ s \notin byIngress /\ s \notin byTicket
    /\ s \notin asked /\ s \notin timer /\ s \notin linked /\ s \notin device

\* A session closes because somebody asked, and its close leaves nothing.
Closes ==
  \A s \in Sessions :
    /\ closing[s] # "no" => s \in asked
    /\ closing[s] = "done" =>
         /\ s \notin device /\ viewer[s] = None
         /\ byDevice # s /\ s \notin byIngress /\ s \notin byTicket

\* What a Start replaces was registered before, and is over once it goes on.
Replaces ==
  \A s \in Sessions :
    /\ spc[s] \in {"idle", "checked"} => victim[s] = None
    /\ victim[s] # None => victim[s] # s /\ ~Early(victim[s])
    /\ ~Early(s) => Ended(victim[s])

\* The handler: a start command is sent and worked off once; while it is, no
\* other session is active; a session that is served is the active one.
Handler ==
  /\ \A s \in Sessions :
       /\ Early(s) \/ spc[s] = "registered" \/ s \in starts =>
            pipe[s] = "no" /\ ws[s] = "no" /\ starting # s /\ active # s
       /\ s \in starts => ~Early(s) /\ spc[s] # "registered"
       /\ ws[s] = "dialing" => starting = s
       /\ Serves(s) => active = s
       /\ starting = s => pipe[s] = "no"
       /\ s \in device => ws[s] \in {"attached", "down"}
  /\ starting # None => active = None

ViewInv == LiveTypeOK /\ Unborn /\ Closes /\ Replaces /\ NoneForgotten /\ StopFinds /\ Handler

-----------------------------------------------------------------------------
LEMMA ViewInit == LiveInit => ViewInv
  <1>1. LiveInit => LiveTypeOK
    BY DEF LiveInit, LiveTypeOK, SPC
  <1>2. LiveInit => Unborn /\ Closes /\ Replaces /\ NoneForgotten
    BY DEF LiveInit, Unborn, Early, Closes, Replaces, NoneForgotten, Ended
  <1>3. LiveInit => StopFinds /\ Handler
    BY DEF LiveInit, StopFinds, Handler, Serves, Open, Early
  <1> QED BY <1>1, <1>2, <1>3 DEF ViewInv

\* The steps of Manager.Start leave the sockets and the handler alone.
LEMMA StartSteps ==
  ASSUME ViewInv, NEW s \in Sessions,
         StartCheck(s) \/ StartStop(s) \/ Register(s) \/ SendStart(s) \/ StartOk(s) \/ StartFails(s)
  PROVE  ViewInv'
  <1> USE DEF startVars, mapVars, sessVars, devVars
  <1> USE DEF ViewInv, LiveTypeOK, SPC, Unborn, Early, Closes, Replaces, NoneForgotten, StopFinds, Beside, Handler, Serves, Open, Ended
  <1>1. CASE StartCheck(s)
    BY <1>1 DEF StartCheck
  <1>2. CASE StartStop(s)
    BY <1>2 DEF StartStop, Ask
  <1>3. CASE Register(s)
    BY <1>3 DEF Register
  <1>4. CASE SendStart(s)
    BY <1>4 DEF SendStart
  <1>5. CASE StartOk(s)
    BY <1>5 DEF StartOk
  <1>6. CASE StartFails(s)
    BY <1>6 DEF StartFails, Remove
  <1> QED BY <1>1, <1>2, <1>3, <1>4, <1>5, <1>6

LEMMA SessionSteps ==
  ASSUME ViewInv, NEW s \in Sessions,
         CoolOff \/ Stop \/ Expire(s) \/ CloseMark(s) \/ CloseRest(s) \/ StopLost(s)
           \/ IngressLookup(s) \/ AttachDevice(s) \/ PipeFails(s)
  PROVE  ViewInv'
  <1> USE DEF startVars, mapVars, sessVars, devVars
  <1> USE DEF ViewInv, LiveTypeOK, SPC, Unborn, Early, Closes, Replaces, NoneForgotten, StopFinds, Beside, Handler, Serves, Open, Ended
  <1>1. CASE CoolOff
    BY <1>1 DEF CoolOff
  <1>2. CASE Stop
    BY <1>2 DEF Stop, Ask
  <1>3. CASE Expire(s)
    BY <1>3 DEF Expire, Ask
  <1>4. CASE CloseMark(s)
    BY <1>4 DEF CloseMark
  <1>5. CASE CloseRest(s)
    BY <1>5 DEF CloseRest, Remove
  <1>6. CASE StopLost(s)
    BY <1>6 DEF StopLost
  <1>7. CASE IngressLookup(s)
    BY <1>7 DEF IngressLookup
  <1>8. CASE AttachDevice(s)
    BY <1>8 DEF AttachDevice, Link
  <1>9. CASE PipeFails(s)
    BY <1>9 DEF PipeFails, Ask
  <1> QED BY <1>1, <1>2, <1>3, <1>4, <1>5, <1>6, <1>7, <1>8, <1>9

LEMMA BrowserSteps ==
  ASSUME ViewInv, NEW v \in Viewers, BrowserStep(v) PROVE ViewInv'
  <1> USE DEF startVars, mapVars, sessVars, devVars
  <1> USE DEF ViewInv, LiveTypeOK, SPC, Unborn, Early, Closes, Replaces, NoneForgotten, StopFinds, Beside, Handler, Serves, Open, Ended
  <1> PICK s \in Sessions : Watch(v, s) \/ AttachViewer(v, s)
    BY DEF BrowserStep
  <1>1. CASE Watch(v, s)
    BY <1>1 DEF Watch
  <1>2. CASE AttachViewer(v, s)
    BY <1>2 DEF AttachViewer, Link
  <1> QED BY <1>1, <1>2

LEMMA DeviceSteps ==
  ASSUME ViewInv, NEW s \in Sessions, DeviceStep(s) PROVE ViewInv'
  <1> USE DEF startVars, mapVars, sessVars, devVars
  <1> USE DEF ViewInv, LiveTypeOK, SPC, Unborn, Early, Closes, Replaces, NoneForgotten, StopFinds, Beside, Handler, Serves, Open, Ended
  <1>1. CASE DeviceStart(s)
    BY <1>1 DEF DeviceStart, Unlocked, Cut
  <1>2. CASE DeviceStarted(s)
    BY <1>2 DEF DeviceStarted, Cut
  <1>3. CASE DeviceStop(s)
    BY <1>3 DEF DeviceStop, Unlocked, StopLocked, Cut
  <1>4. CASE LocalEnds(s)
    BY <1>4 DEF LocalEnds, Cut
  <1>5. CASE PipeEnds(s)
    BY <1>5 DEF PipeEnds
  <1>6. CASE PipeStops(s)
    BY <1>6 DEF PipeStops, Unlocked, StopLocked, Cut
  <1> QED BY <1>1, <1>2, <1>3, <1>4, <1>5, <1>6 DEF DeviceStep

LEMMA ViewStep == ViewInv /\ [LiveNext]_liveVars => ViewInv'
  <1> SUFFICES ASSUME ViewInv, [LiveNext]_liveVars PROVE ViewInv'
    OBVIOUS
  <1>1. CASE UNCHANGED liveVars
    BY <1>1 DEF liveVars, startVars, mapVars, sessVars, devVars, ViewInv, LiveTypeOK, Unborn, Early, Closes,
             Replaces, NoneForgotten, StopFinds, Beside, Handler, Serves, Open, Ended
  <1>2. ASSUME NEW s \in Sessions, ServerStep(s) PROVE ViewInv'
    BY <1>2, StartSteps, SessionSteps DEF ServerStep
  <1>3. CASE CoolOff \/ Stop
    <2>1. CASE Sessions # {}
      BY <1>3, <2>1, SessionSteps
    <2>2. CASE Sessions = {}
      BY <1>3, <2>2 DEF CoolOff, Stop, Ask, startVars, mapVars, sessVars, devVars, ViewInv, LiveTypeOK, Unborn, Closes,
             Replaces, NoneForgotten, StopFinds, Handler
    <2> QED BY <2>1, <2>2
  <1> QED BY <1>1, <1>2, <1>3, BrowserSteps, DeviceSteps DEF LiveNext

LEMMA ViewAlways == LiveSpec => []ViewInv
  BY ViewInit, ViewStep, PTL DEF LiveSpec

\* Every variable keeps its type, and the two sides of a session that is open are
\* there while it is linked.
THEOREM LiveTypeCorrect == LiveSpec => []LiveTypeOK
  <1>1. ViewInv => LiveTypeOK
    BY DEF ViewInv
  <1> QED BY <1>1, ViewAlways, PTL

\* A closed session holds no socket and is in no map.
THEOREM CloseCleans == LiveSpec => []ClosedIsClean
  <1>1. ViewInv => ClosedIsClean
    BY DEF ViewInv, Closes, ClosedIsClean, Ended
  <1> QED BY <1>1, ViewAlways, PTL

\* Stop finds a session as long as it is open and no other Start ran beside its own.
THEOREM StopReaches == LiveSpec => []StopFinds
  <1>1. ViewInv => StopFinds
    BY DEF ViewInv
  <1> QED BY <1>1, ViewAlways, PTL

\* A session that Start handed out has its TTL armed or its close called until it
\* is over, whichever Start took its entry.
THEOREM AllHaveAnEnd == LiveSpec => []NoneForgotten
  <1>1. ViewInv => NoneForgotten
    BY DEF ViewInv
  <1> QED BY <1>1, ViewAlways, PTL

\* The device serves one session at a time.
THEOREM ServesOne == LiveSpec => []OneAtATime
  <1>1. ViewInv => OneAtATime
    BY DEF ViewInv, Handler, OneAtATime
  <1> QED BY <1>1, ViewAlways, PTL

HIDE NoneAssumption

-----------------------------------------------------------------------------
(***************************************************************************)
(* The recorder.  A recorded action whose frame is not on the timeline yet *)
(* is the one the writer has in hand, or a capture will show it, or a      *)
(* frame that does is in the channel.                                      *)
(***************************************************************************)
Owed(i) == ~ timeline[i].shot /\ timeline[i].cmd \in Acts /\ timeline[i].pic # Nothing

\* A capture that is due, and not outdone by a frame, or has its picture.
Coming(a, p) ==
  \/ cap[a] \in {"armed", "fired"} /\ capSeq[a] = frameSeq
  \/ cap[a] = "asking"
  \/ cap[a] \in {"shot", "replied"} /\ capPic[a] >= p

UnderWay(i) ==
  \/ hand # Nothing /\ i = Len(timeline)
  \/ \E a \in Acts : Coming(a, timeline[i].pic)
  \/ \E n \in 1 .. Len(queue) : queue[n].shot /\ queue[n].pic >= timeline[i].pic

Covered == ~ lost => \A i \in 1 .. Len(timeline) : Owed(i) => Shown(i) \/ UnderWay(i)

\* Nobody has a picture of what has not happened yet.
Taken(p)   == p # Nothing => p <= screen
Showing(r) == Taken(r.pic) /\ (r.shot => r.pic # Nothing)

Pictures ==
  /\ \A c \in Cmds : Taken(pic[c])
  /\ \A a \in Acts : Taken(capPic[a]) /\ (cap[a] \in {"shot", "replied"} => capPic[a] # Nothing)
  /\ \A n \in 1 .. Len(queue) : Showing(queue[n])
  /\ \A i \in 1 .. Len(timeline) : Showing(timeline[i])

LastRow   == hand # Nothing => Len(timeline) > 0 /\ hand = timeline[Len(timeline)]
LastFrame == lastPic # Nothing => \E j \in 1 .. Len(timeline) : timeline[j].shot /\ timeline[j].pic = lastPic

RecorderInv == RecorderTypeOK /\ Pictures /\ LastRow /\ LastFrame /\ Covered

LEMMA RecorderInitially == RecorderInit => RecorderInv
  <1> SUFFICES ASSUME RecorderInit PROVE RecorderInv
    OBVIOUS
  <1> USE RecorderAssumption DEF RecorderInit, Pics
  <1>1. RecorderTypeOK
    <2>1. /\ setting \in BOOLEAN /\ flag \in BOOLEAN /\ lost \in BOOLEAN
          /\ owner \in {"idle", "stored"} /\ seen \in [Cmds -> BOOLEAN] /\ turn \in [Cmds -> Nat]
      OBVIOUS
    <2>2. switches \in 0 .. MaxSwitches /\ screen \in Nat /\ frameSeq \in Nat /\ capSeq \in [Acts -> Nat]
      OBVIOUS
    <2>3. queue \in Seq(Recs) /\ Len(queue) =< Buffer /\ timeline \in Seq(Recs)
      OBVIOUS
    <2>4. /\ phase \in [Cmds -> {"idle", "resolved", "sent", "answered", "done"}]
          /\ pic \in [Cmds -> Pics] /\ capPic \in [Acts -> Pics] /\ lastPic \in Pics
          /\ hand \in Recs \cup {Nothing} /\ pending \in Acts \cup {Nothing}
          /\ cap \in [Acts -> {"none", "armed", "stopped", "fired", "asking", "shot", "replied", "done"}]
      OBVIOUS
    <2> QED BY <2>1, <2>2, <2>3, <2>4 DEF RecorderTypeOK
  <1>2. Pictures
    BY DEF RecorderInit, Pictures, Taken, Showing
  <1>3. LastRow /\ LastFrame /\ Covered
    BY DEF RecorderInit, LastRow, LastFrame, Covered
  <1> QED BY <1>1, <1>2, <1>3 DEF RecorderInv

\* What is offered to the channel is in it, or lost; the rest stays in order.
LEMMA EnqueueKeeps ==
  ASSUME RecorderTypeOK, NEW r \in Recs, Enqueue(r)
  PROVE  /\ queue' \in Seq(Recs) /\ Len(queue') =< Buffer /\ lost' \in BOOLEAN
         /\ Len(queue) =< Len(queue') /\ \A n \in 1 .. Len(queue) : queue'[n] = queue[n]
         /\ \A n \in 1 .. Len(queue') : n \in 1 .. Len(queue) \/ queue'[n] = r
         /\ lost => lost'
         /\ ~ lost' => \E n \in 1 .. Len(queue') : queue'[n] = r
  <1> USE RecorderAssumption DEF RecorderTypeOK, Enqueue
  <1>1. CASE Len(queue) < Buffer
    <2>1. queue' = Append(queue, r) /\ lost' = lost
      BY <1>1
    <2>2. Len(queue') = Len(queue) + 1 /\ queue'[Len(queue) + 1] = r /\ queue' \in Seq(Recs)
      BY <2>1
    <2>3. \A n \in 1 .. Len(queue) : queue'[n] = queue[n]
      BY <2>1
    <2> QED BY <1>1, <2>1, <2>2, <2>3
  <1>2. CASE ~ (Len(queue) < Buffer)
    <2>1. queue' = queue /\ lost'
      BY <1>2
    <2>2. lost' = TRUE
      BY <1>2
    <2> QED BY <2>1, <2>2
  <1> QED BY <1>1, <1>2

\* The channel and the timeline stay as they are, while the screen moves on.
LEMMA PicturesStay ==
  ASSUME RecorderTypeOK, Pictures, UNCHANGED <<queue, timeline, cap, capPic>>, screen' \in Nat, screen' >= screen,
         pic' \in [Cmds -> Pics], \A c \in Cmds : pic'[c] = pic[c] \/ pic'[c] = screen'
  PROVE  Pictures'
  <1> USE DEF RecorderTypeOK, Pics, Pictures, Taken, Showing
  <1>1. \A p \in Pics : Taken(p) => Taken(p)'
    OBVIOUS
  <1>2. \A c \in Cmds : Taken(pic[c])'
    <2> SUFFICES ASSUME NEW c \in Cmds PROVE Taken(pic[c])'
      OBVIOUS
    <2>1. pic[c] \in Pics /\ Taken(pic[c])
      OBVIOUS
    <2>2. pic'[c] = pic[c] \/ pic'[c] = screen'
      OBVIOUS
    <2> QED BY <1>1, <2>1, <2>2
  <1>3. \A a \in Acts : Taken(capPic[a])' /\ (cap'[a] \in {"shot", "replied"} => capPic'[a] # Nothing)
    BY <1>1
  <1>4. \A r \in Recs : Showing(r) => Showing(r)'
    BY <1>1 DEF Recs
  <1>5. \A n \in 1 .. Len(queue) : queue[n] \in Recs
    OBVIOUS
  <1>6. \A n \in 1 .. Len(timeline) : timeline[n] \in Recs
    OBVIOUS
  <1>7. (\A n \in 1 .. Len(queue) : Showing(queue[n]))' /\ (\A i \in 1 .. Len(timeline) : Showing(timeline[i]))'
    BY <1>4, <1>5, <1>6
  <1> QED BY <1>2, <1>3, <1>7

LEMMA QuietSteps ==
  ASSUME RecorderInv,
         \/ Switch \/ SwitchLive \/ UNCHANGED recorderVars
         \/ \E c \in Cmds : Resolve(c) \/ Mirror(c) \/ Execute(c) \/ CommandFails(c)
  PROVE  RecorderInv'
  <1> USE DEF switchVars, cmdVars, recVars, capVars
  <1>1. UNCHANGED <<recVars, capVars, lost>>
    BY DEF Switch, SwitchLive, Resolve, Mirror, Execute, CommandFails, recorderVars
  <1>2. screen' \in Nat /\ screen' >= screen /\ pic' \in [Cmds -> Pics]
        /\ \A c \in Cmds : pic'[c] = pic[c] \/ pic'[c] = screen'
    <2>0. screen \in Nat /\ pic \in [Cmds -> Pics]
      BY DEF RecorderInv, RecorderTypeOK
    <2>1. CASE UNCHANGED <<screen, pic>>
      BY <2>0, <2>1
    <2>2. ASSUME NEW c \in Cmds, Execute(c), ~ UNCHANGED <<screen, pic>>
          PROVE  screen' \in Nat /\ screen' >= screen /\ pic' = [pic EXCEPT ![c] = screen']
      BY <2>0, <2>2 DEF Execute
    <2>3. UNCHANGED <<screen, pic>> \/ \E c \in Cmds : Execute(c)
      BY DEF Switch, SwitchLive, Resolve, Mirror, CommandFails, recorderVars
    <2> QED BY <2>0, <2>1, <2>2, <2>3 DEF Pics
  <1>3. RecorderTypeOK'
    <2> USE DEF RecorderInv, RecorderTypeOK
    <2>1. CASE Switch
      <3>1. setting' \in BOOLEAN /\ owner' \in {"idle", "stored"}
        BY <2>1 DEF Switch
      <3>2. switches' \in 0 .. MaxSwitches
        BY <2>1, RecorderAssumption DEF Switch
      <3> QED BY <1>1, <2>1, <3>1, <3>2 DEF Switch
    <2>2. CASE SwitchLive \/ UNCHANGED recorderVars
      BY <2>2 DEF SwitchLive, recorderVars
    <2>3. ASSUME NEW c \in Cmds, Resolve(c) \/ Mirror(c) PROVE RecorderTypeOK'
      <3>1. turn' \in [Cmds -> Nat] /\ seen' \in [Cmds -> BOOLEAN]
        <4>1. switches \in Nat
          BY RecorderAssumption
        <4>2. CASE Resolve(c)
          BY <4>1, <4>2 DEF Resolve
        <4>3. CASE Mirror(c)
          BY <4>3 DEF Mirror
        <4> QED BY <2>3, <4>2, <4>3
      <3> QED BY <2>3, <3>1 DEF Resolve, Mirror
    <2>4. ASSUME NEW c \in Cmds, Execute(c) \/ CommandFails(c) PROVE RecorderTypeOK'
      BY <1>2, <2>4 DEF Execute, CommandFails
    <2> QED BY <2>1, <2>2, <2>3, <2>4
  <1>4. Pictures'
    BY <1>1, <1>2, PicturesStay DEF RecorderInv
  <1>5. LastRow' /\ LastFrame'
    BY <1>1 DEF RecorderInv, LastRow, LastFrame
  <1>6. Covered'
    BY <1>1 DEF RecorderInv, Covered, Owed, Shown, UnderWay, Coming
  <1> QED BY <1>3, <1>4, <1>5, <1>6 DEF RecorderInv


\* A record is offered, or not: what was on its way to the timeline still is.
LEMMA OfferKeeps ==
  ASSUME RecorderInv, NEW r \in Recs, Showing(r), Enqueue(r) \/ UNCHANGED <<queue, lost>>,
         UNCHANGED <<screen, pic, hand, timeline, frameSeq, lastPic, capSeq, capPic>>,
         \A a \in Acts : cap'[a] \in {"shot", "replied"} => cap[a] \in {"shot", "replied"},
         \A a \in Acts, p \in Nat : Coming(a, p) =>
           \/ Coming(a, p)' \/ lost'
           \/ \E n \in 1 .. Len(queue') : queue'[n].shot /\ queue'[n].pic >= p
  PROVE  Pictures' /\ LastRow' /\ LastFrame' /\ Covered'
  <1> USE DEF RecorderInv
  <1>1. /\ queue' \in Seq(Recs) /\ Len(queue) =< Len(queue')
        /\ \A n \in 1 .. Len(queue) : queue'[n] = queue[n]
        /\ \A n \in 1 .. Len(queue') : n \in 1 .. Len(queue) \/ queue'[n] = r
        /\ lost => lost'
    BY EnqueueKeeps DEF RecorderTypeOK
  <1>2. Len(queue) \in Nat /\ Len(queue') \in Nat
    BY <1>1 DEF RecorderTypeOK
  <1>3. \A n \in 1 .. Len(queue') : Showing(queue'[n])
    BY <1>1 DEF Pictures
  <1>4. Pictures'
    BY <1>3 DEF Pictures, Showing, Taken
  <1>5. LastRow' /\ LastFrame'
    BY DEF LastRow, LastFrame
  <1>6. ASSUME ~ lost', NEW i \in 1 .. Len(timeline), Owed(i), ~ Shown(i) PROVE UnderWay(i)'
    <2>0. timeline[i] \in Recs
      BY DEF RecorderTypeOK
    <2>1. timeline[i].pic \in Nat
      BY <1>6, <2>0 DEF Recs, Pics, Owed
    <2>2. UnderWay(i)
      BY <1>1, <1>6 DEF Covered
    <2>3. CASE hand # Nothing /\ i = Len(timeline)
      BY <2>3 DEF UnderWay
    <2>4. ASSUME NEW a \in Acts, Coming(a, timeline[i].pic) PROVE UnderWay(i)'
      BY <1>6, <2>1, <2>4 DEF UnderWay
    <2>5. ASSUME NEW n \in 1 .. Len(queue), queue[n].shot /\ queue[n].pic >= timeline[i].pic PROVE UnderWay(i)'
      <3>1. n \in 1 .. Len(queue') /\ queue'[n] = queue[n]
        BY <1>1, <1>2
      <3> QED BY <2>5, <3>1 DEF UnderWay
    <2> QED BY <2>2, <2>3, <2>4, <2>5 DEF UnderWay
  <1>7. Covered'
    BY <1>6 DEF Covered, Owed, Shown
  <1> QED BY <1>4, <1>5, <1>7

LEMMA ObserveKeeps ==
  ASSUME RecorderInv, NEW c \in Cmds, Observe(c)
  PROVE  RecorderInv'
  <1> DEFINE r == Rec(c, "agent", pic[c], c \in Looks /\ pic[c] # Nothing)
  <1> USE DEF RecorderInv
  <1>1. r \in Recs
    BY DEF RecorderTypeOK, Rec, Recs
  <1>2. Showing(r)
    BY DEF Pictures, Showing, Rec
  <1>3. Enqueue(r) \/ UNCHANGED <<queue, lost>>
    BY DEF Observe
  <1>4. UNCHANGED <<switchVars, seen, turn, pic, screen, hand, timeline, frameSeq, lastPic, capVars>>
        /\ phase' = [phase EXCEPT ![c] = "done"]
    BY DEF Observe
  <1> HIDE DEF r
  <1>5. queue' \in Seq(Recs) /\ Len(queue') =< Buffer /\ lost' \in BOOLEAN
    BY <1>1, <1>3, EnqueueKeeps DEF RecorderTypeOK
  <1>6. RecorderTypeOK'
    BY <1>4, <1>5 DEF RecorderTypeOK, switchVars, capVars
  <1>7. \A a \in Acts, p \in Nat : Coming(a, p) => Coming(a, p)'
    BY <1>4 DEF Coming, capVars
  <1>8. Pictures' /\ LastRow' /\ LastFrame' /\ Covered'
    BY <1>1, <1>2, <1>3, <1>4, <1>7, OfferKeeps DEF capVars
  <1> QED BY <1>6, <1>8

LEMMA CaptureOffers ==
  ASSUME RecorderInv, NEW a \in Acts, CaptureObserve(a) \/ CaptureRecord(a)
  PROVE  RecorderInv'
  <1> DEFINE r == Rec(a, "replay", capPic[a], TRUE)
  <1> USE DEF RecorderInv
  <1>0. cap[a] \in {"shot", "replied"} /\ capPic[a] # Nothing
    BY DEF CaptureObserve, CaptureRecord, Pictures
  <1>1. r \in Recs
    BY DEF RecorderTypeOK, Rec, Recs, Cmds
  <1>2. Showing(r) /\ r.shot /\ r.pic = capPic[a]
    BY <1>0 DEF Pictures, Showing, Rec
  <1>3. (cap' = [cap EXCEPT ![a] = "replied"] /\ cap[a] = "shot" /\ (Enqueue(r) \/ UNCHANGED <<queue, lost>>))
        \/ (cap' = [cap EXCEPT ![a] = "done"] /\ Enqueue(r))
    BY DEF CaptureObserve, CaptureRecord, CapGoes
  <1>4. UNCHANGED <<switchVars, cmdVars, hand, timeline, frameSeq, lastPic, pending, capSeq, capPic>>
    BY DEF CaptureObserve, CaptureRecord
  <1> HIDE DEF r
  <1>5. queue' \in Seq(Recs) /\ Len(queue') =< Buffer /\ lost' \in BOOLEAN
    BY <1>1, <1>3, EnqueueKeeps DEF RecorderTypeOK
  <1>6. RecorderTypeOK'
    BY <1>3, <1>4, <1>5 DEF RecorderTypeOK, switchVars, cmdVars
  <1>7. ASSUME NEW b \in Acts, NEW p \in Nat, Coming(b, p), ~ Coming(b, p)', ~ lost'
        PROVE  \E n \in 1 .. Len(queue') : queue'[n].shot /\ queue'[n].pic >= p
    <2>1. b = a /\ cap' = [cap EXCEPT ![a] = "done"] /\ Enqueue(r)
      BY <1>0, <1>3, <1>4, <1>7 DEF Coming, RecorderTypeOK
    <2>2. capPic[a] >= p
      BY <1>0, <1>7, <2>1 DEF Coming
    <2>3. \E n \in 1 .. Len(queue') : queue'[n] = r
      BY <1>1, <1>7, <2>1, EnqueueKeeps
    <2> QED BY <1>2, <2>2, <2>3
  <1>8. \A b \in Acts : cap'[b] \in {"shot", "replied"} => cap[b] \in {"shot", "replied"}
    BY <1>0, <1>3 DEF RecorderTypeOK
  <1>9. Pictures' /\ LastRow' /\ LastFrame' /\ Covered'
    BY <1>1, <1>2, <1>3, <1>4, <1>7, <1>8, OfferKeeps DEF cmdVars
  <1> QED BY <1>6, <1>9


\* The writer takes the oldest record: a row, or a capture that shows what the
\* last frame shows.
LEMMA WriteKeeps ==
  ASSUME RecorderInv, Write
  PROVE  RecorderInv'
  <1> USE DEF RecorderInv
  <1> DEFINE r == Head(queue)
             L == Len(timeline)
  <1>1. /\ hand = Nothing /\ queue # <<>> /\ queue' = Tail(queue)
        /\ UNCHANGED <<switchVars, cmdVars, frameSeq, lastPic, capVars, lost>>
    BY DEF Write
  <1>2. queue \in Seq(Recs) /\ Len(queue) \in Nat \ {0} /\ L \in Nat /\ timeline \in Seq(Recs)
    BY <1>1 DEF RecorderTypeOK
  <1>3. /\ r \in Recs /\ r = queue[1] /\ Showing(r)
        /\ queue' \in Seq(Recs) /\ Len(queue') = Len(queue) - 1
        /\ \A n \in 1 .. Len(queue') : n + 1 \in 1 .. Len(queue) /\ queue'[n] = queue[n + 1]
    BY <1>1, <1>2 DEF Pictures
  <1>4. r # Nothing
    BY <1>3, RecorderAssumption
  <1>5. (hand' = hand /\ timeline' = timeline /\ Repeats(r)) \/ (hand' = r /\ timeline' = Append(timeline, r))
    BY DEF Write
  <1> HIDE DEF r
  <1>6. /\ timeline' \in Seq(Recs) /\ L =< Len(timeline')
        /\ \A i \in 1 .. L : timeline'[i] = timeline[i]
        /\ \A i \in 1 .. Len(timeline') : i \in 1 .. L \/ (i = Len(timeline') /\ timeline'[i] = r /\ hand' = r)
    <2>1. CASE timeline' = timeline
      BY <1>2, <2>1
    <2>2. CASE hand' = r /\ timeline' = Append(timeline, r)
      <3>1. timeline' \in Seq(Recs) /\ Len(timeline') = L + 1 /\ timeline'[L + 1] = r
        BY <1>2, <1>3, <2>2
      <3>2. \A i \in 1 .. L : timeline'[i] = timeline[i]
        BY <1>2, <1>3, <2>2
      <3> QED BY <1>2, <2>2, <3>1, <3>2
    <2> QED BY <1>5, <2>1, <2>2
  <1>7. RecorderTypeOK'
    <2>1. queue' \in Seq(Recs) /\ Len(queue') =< Buffer
      BY <1>2, <1>3, RecorderAssumption DEF RecorderTypeOK
    <2>2. hand' \in Recs \cup {Nothing}
      BY <1>3, <1>5 DEF RecorderTypeOK
    <2> QED BY <1>1, <1>6, <2>1, <2>2 DEF RecorderTypeOK, switchVars, cmdVars, capVars
  <1>8. Pictures'
    <2>1. \A n \in 1 .. Len(queue') : Showing(queue'[n])
      BY <1>3 DEF Pictures
    <2>2. \A i \in 1 .. Len(timeline') : Showing(timeline'[i])
      BY <1>3, <1>6 DEF Pictures
    <2> QED BY <1>1, <2>1, <2>2 DEF Pictures, Showing, Taken, cmdVars, capVars
  <1>9. LastRow'
    BY <1>1, <1>2, <1>5 DEF LastRow
  <1>10. LastFrame'
    BY <1>1, <1>2, <1>6 DEF LastFrame
  <1>11. ASSUME ~ lost, NEW i \in 1 .. Len(timeline'), Owed(i)' PROVE Shown(i)' \/ UnderWay(i)'
    <2>1. CASE i = Len(timeline') /\ hand' = r
      BY <1>4, <2>1 DEF UnderWay
    <2>2. CASE i \in 1 .. L
      <3>1. timeline'[i] = timeline[i] /\ Owed(i) /\ timeline[i] \in Recs
        BY <1>2, <1>6, <1>11, <2>2 DEF Owed
      <3>2. timeline[i].pic \in Nat
        BY <3>1 DEF Recs, Pics, Owed
      <3>3. ASSUME NEW j \in 1 .. L, j # i, timeline[j].shot, timeline[j].pic >= timeline[i].pic PROVE Shown(i)'
        <4>1. j \in 1 .. Len(timeline') /\ timeline'[j] = timeline[j] /\ i \in 1 .. Len(timeline') /\ Len(timeline') \in Nat
          BY <1>2, <1>6, <2>2
        <4> QED BY <3>1, <3>3, <4>1 DEF Shown
      <3>4. CASE Shown(i)
        <4>1. ASSUME NEW j \in i + 1 .. L, timeline[j].shot PROVE Shown(i)'
          <5>1. j \in i + 1 .. Len(timeline') /\ timeline'[j] = timeline[j]
            BY <1>2, <1>6, <2>2
          <5> QED BY <4>1, <5>1 DEF Shown
        <4>2. ASSUME NEW j \in 1 .. i - 1, timeline[j].shot /\ timeline[j].pic >= timeline[i].pic PROVE Shown(i)'
          BY <1>2, <2>2, <3>3, <4>2
        <4> QED BY <3>4, <4>1, <4>2 DEF Shown
      <3>5. ASSUME NEW a \in Acts, Coming(a, timeline[i].pic) PROVE UnderWay(i)'
        BY <1>1, <3>1, <3>5 DEF UnderWay, Coming, capVars
      <3>6. ASSUME NEW n \in 1 .. Len(queue), queue[n].shot /\ queue[n].pic >= timeline[i].pic
            PROVE  Shown(i)' \/ UnderWay(i)'
        <4>1. CASE n # 1
          <5>1. n - 1 \in 1 .. Len(queue') /\ queue'[n - 1] = queue[n]
            BY <1>2, <1>3, <4>1
          <5> QED BY <3>1, <3>6, <5>1 DEF UnderWay
        <4>2. CASE n = 1 /\ timeline' = timeline
          <5>1. lastPic = r.pic /\ r.pic >= timeline[i].pic /\ r.pic # Nothing
            BY <1>3, <1>5, <1>4, <1>1, <3>6, <4>2 DEF Repeats, Showing
          <5>2. PICK j \in 1 .. L : timeline[j].shot /\ timeline[j].pic = lastPic
            BY <5>1 DEF LastFrame
          <5>3. j # i
            BY <3>1, <5>2 DEF Owed
          <5> QED BY <3>3, <5>1, <5>2, <5>3
        <4>3. CASE n = 1 /\ timeline' = Append(timeline, r)
          <5>1. Len(timeline') \in i + 1 .. Len(timeline') /\ timeline'[Len(timeline')].shot
            BY <1>2, <1>3, <2>2, <3>6, <4>3
          <5> QED BY <5>1 DEF Shown
        <4> QED BY <1>5, <4>1, <4>2, <4>3
      <3>7. Shown(i) \/ UnderWay(i)
        BY <1>2, <1>11, <2>2, <3>1 DEF Covered
      <3>8. \/ Shown(i) \/ \E a \in Acts : Coming(a, timeline[i].pic)
            \/ \E n \in 1 .. Len(queue) : queue[n].shot /\ queue[n].pic >= timeline[i].pic
        BY <1>1, <3>7 DEF UnderWay
      <3> QED BY <3>4, <3>5, <3>6, <3>8
    <2> QED BY <1>6, <2>1, <2>2
  <1>12. Covered'
    BY <1>1, <1>11 DEF Covered
  <1> QED BY <1>7, <1>8, <1>9, <1>10, <1>12

\* A frame comes after every row before it.
LEMMA NoteFrameKeeps ==
  ASSUME RecorderInv, NoteFrame
  PROVE  RecorderInv'
  <1> USE DEF RecorderInv
  <1> DEFINE L == Len(timeline)
  <1>1. /\ hand # Nothing /\ hand.shot /\ hand' = Nothing
        /\ frameSeq' = frameSeq + 1 /\ lastPic' = hand.pic
        /\ UNCHANGED <<switchVars, cmdVars, queue, timeline, capVars, lost>>
    BY DEF NoteFrame
  <1>2. L \in Nat \ {0} /\ L \in 1 .. L /\ hand = timeline[L] /\ hand \in Recs
    BY <1>1 DEF LastRow, RecorderTypeOK
  <1>3. hand.pic \in Pics
    BY <1>2 DEF Recs
  <1>4. RecorderTypeOK'
    <2>1. frameSeq' \in Nat
      BY <1>1 DEF RecorderTypeOK
    <2> QED BY <1>1, <1>3, <2>1 DEF RecorderTypeOK, switchVars, cmdVars, capVars
  <1>5. Pictures'
    BY <1>1 DEF Pictures, Showing, Taken, cmdVars, capVars
  <1>6. LastRow' /\ LastFrame'
    BY <1>1, <1>2 DEF LastRow, LastFrame
  <1>7. ASSUME NEW i \in 1 .. Len(timeline'), Owed(i)' PROVE Shown(i)'
    <2>1. timeline' = timeline
      BY <1>1
    <2>2. i # L
      BY <1>1, <1>2, <1>7, <2>1 DEF Owed
    <2>3. L \in i + 1 .. L
      BY <1>2, <2>1, <2>2
    <2> QED BY <1>1, <1>2, <2>1, <2>3 DEF Shown
  <1>8. Covered'
    BY <1>7 DEF Covered
  <1> QED BY <1>4, <1>5, <1>6, <1>8

\* A capture that is scheduled will show every row there is: no frame came since.
LEMMA ScheduleKeeps ==
  ASSUME RecorderInv, Schedule
  PROVE  RecorderInv'
  <1> USE DEF RecorderInv
  <1>1. /\ hand # Nothing /\ ~ hand.shot /\ hand' = Nothing
        /\ UNCHANGED <<switchVars, cmdVars, queue, timeline, frameSeq, lastPic, capPic, lost>>
    BY DEF Schedule
  <1>2. hand \in Recs /\ hand = timeline[Len(timeline)] /\ Len(timeline) \in Nat \ {0}
    BY <1>1 DEF LastRow, RecorderTypeOK
  <1>3. LastRow' /\ LastFrame'
    BY <1>1 DEF LastRow, LastFrame
  <1>4. CASE hand.cmd \in Acts /\ hand.pic # Nothing
    <2> DEFINE h == hand.cmd
    <2>1. /\ cap' = [a \in Acts |-> IF a = h THEN "armed"
                                    ELSE IF a = pending /\ cap[a] = "armed" THEN "stopped"
                                    ELSE cap[a]]
          /\ capSeq' = [capSeq EXCEPT ![h] = frameSeq] /\ pending' = h
      BY <1>4 DEF Schedule
    <2>2. \A a \in Acts : cap'[a] \in {"shot", "replied"} => cap[a] \in {"shot", "replied"}
      BY <2>1
    <2>3. cap'[h] = "armed" /\ capSeq'[h] = frameSeq'
      BY <1>1, <1>4, <2>1 DEF RecorderTypeOK
    <2>4. RecorderTypeOK'
      <3>1. cap' \in [Acts -> {"none", "armed", "stopped", "fired", "asking", "shot", "replied", "done"}]
        BY <2>1 DEF RecorderTypeOK
      <3>2. capSeq' \in [Acts -> Nat] /\ pending' \in Acts \cup {Nothing} /\ hand' \in Recs \cup {Nothing}
        BY <1>1, <1>4, <2>1 DEF RecorderTypeOK
      <3> QED BY <1>1, <3>1, <3>2 DEF RecorderTypeOK, switchVars, cmdVars
    <2>5. Pictures'
      BY <1>1, <2>2 DEF Pictures, Showing, Taken, cmdVars
    <2>6. Covered'
      BY <1>4, <2>3 DEF Covered, UnderWay, Coming
    <2> QED BY <1>3, <2>4, <2>5, <2>6
  <1>5. CASE ~ (hand.cmd \in Acts /\ hand.pic # Nothing)
    <2>1. UNCHANGED <<cap, capSeq, pending>>
      BY <1>5 DEF Schedule
    <2>2. RecorderTypeOK'
      <3>1. hand' \in Recs \cup {Nothing}
        BY <1>1
      <3> QED BY <1>1, <2>1, <3>1 DEF RecorderTypeOK, switchVars, cmdVars
    <2>3. Pictures'
      BY <1>1, <2>1 DEF Pictures, Showing, Taken, cmdVars
    <2>4. ASSUME ~ lost, NEW i \in 1 .. Len(timeline), Owed(i) PROVE Shown(i) \/ UnderWay(i)'
      <3>1. i # Len(timeline)
        BY <1>2, <1>5, <2>4 DEF Owed
      <3>2. Shown(i) \/ UnderWay(i)
        BY <2>4 DEF Covered
      <3> QED BY <1>1, <2>1, <3>1, <3>2 DEF UnderWay, Coming
    <2>5. Covered'
      BY <1>1, <2>1, <2>4 DEF Covered, Owed, Shown
    <2> QED BY <1>3, <2>2, <2>3, <2>5
  <1> QED BY <1>4, <1>5

\* A capture goes on: one that is due and not outdone asks, and what it gets is the
\* screen of that moment, later than every row's.
LEMMA CaptureGoesOn ==
  ASSUME RecorderInv, NEW a \in Acts, Fire(a) \/ CaptureBegin(a) \/ CaptureShot(a) \/ CaptureSkipped(a)
  PROVE  RecorderInv'
  <1> USE DEF RecorderInv
  <1>1. UNCHANGED <<switchVars, cmdVars, recVars, capSeq>>
    BY DEF Fire, CaptureBegin, CaptureShot, CaptureSkipped
  <1>2. pending' \in Acts \cup {Nothing} /\ lost' \in BOOLEAN /\ (lost => lost')
    <2>1. pending' = pending \/ pending' = Nothing
      BY DEF Fire, CaptureBegin, CaptureShot, CaptureSkipped
    <2>2. lost' = lost \/ lost' = TRUE
      BY DEF Fire, CaptureBegin, CaptureShot, CaptureSkipped
    <2>3. pending' \in Acts \cup {Nothing}
      BY <2>1 DEF RecorderTypeOK
    <2>4. lost \in BOOLEAN
      BY DEF RecorderTypeOK
    <2>5. lost' \in BOOLEAN /\ (lost => lost')
      <3>1. CASE lost' = lost
        BY <2>4, <3>1
      <3>2. CASE lost' = TRUE
        BY <3>2
      <3> QED BY <2>2, <3>1, <3>2
    <2> QED BY <2>3, <2>5
  <1>3. \/ cap[a] = "armed" /\ cap' = [cap EXCEPT ![a] = "fired"] /\ capPic' = capPic
        \/ cap[a] = "fired" /\ cap' = [cap EXCEPT ![a] = "asking"] /\ capPic' = capPic
        \/ cap[a] = "fired" /\ cap' = [cap EXCEPT ![a] = "done"] /\ capPic' = capPic /\ capSeq[a] # frameSeq
        \/ cap[a] = "asking" /\ cap' = [cap EXCEPT ![a] = "shot"] /\ capPic' = [capPic EXCEPT ![a] = screen]
        \/ cap[a] = "asking" /\ cap' = [cap EXCEPT ![a] = "done"] /\ capPic' = capPic /\ lost' = TRUE
    BY DEF Fire, CaptureBegin, CaptureShot, CaptureSkipped, CapGoes
  <1>4. screen \in Pics /\ screen # Nothing /\ screen \in Nat /\ Taken(screen)
    BY RecorderAssumption DEF RecorderTypeOK, Pics, Taken
  <1>5. RecorderTypeOK'
    <2>1. cap' \in [Acts -> {"none", "armed", "stopped", "fired", "asking", "shot", "replied", "done"}]
      BY <1>3 DEF RecorderTypeOK
    <2>2. capPic' \in [Acts -> Pics]
      BY <1>3, <1>4 DEF RecorderTypeOK
    <2> QED BY <1>1, <1>2, <2>1, <2>2 DEF RecorderTypeOK, switchVars, cmdVars, recVars
  <1>6. Pictures'
    <2>1. \A b \in Acts : Taken(capPic'[b]) /\ (cap'[b] \in {"shot", "replied"} => capPic'[b] # Nothing)
      BY <1>3, <1>4 DEF RecorderTypeOK, Pictures
    <2> QED BY <1>1, <2>1 DEF Pictures, Showing, Taken, cmdVars, recVars
  <1>7. LastRow' /\ LastFrame'
    BY <1>1 DEF LastRow, LastFrame, recVars
  <1>8. ASSUME NEW b \in Acts, NEW p \in Nat, p =< screen, Coming(b, p) PROVE Coming(b, p)' \/ lost'
    <2>1. CASE b # a
      <3>1. cap'[b] = cap[b] /\ capPic'[b] = capPic[b]
        BY <1>3, <2>1 DEF RecorderTypeOK
      <3> QED BY <1>1, <1>8, <3>1 DEF Coming, recVars
    <2>2. CASE b = a
      <3> USE DEF RecorderTypeOK
      <3>1. CASE cap[a] = "armed"
        BY <1>1, <1>3, <1>8, <2>2, <3>1 DEF Coming, recVars
      <3>2. CASE cap[a] = "fired"
        <4>1. cap'[a] = "asking"
          BY <1>3, <1>8, <2>2, <3>2 DEF Coming
        <4> QED BY <2>2, <4>1 DEF Coming
      <3>3. CASE cap[a] = "asking"
        <4>1. lost' = TRUE \/ (cap'[a] = "shot" /\ capPic'[a] = screen)
          BY <1>3, <3>3
        <4> QED BY <1>4, <1>8, <2>2, <4>1 DEF Coming
      <3> QED BY <1>3, <3>1, <3>2, <3>3
    <2> QED BY <2>1, <2>2
  <1>9. ASSUME ~ lost', NEW i \in 1 .. Len(timeline), Owed(i) PROVE Shown(i) \/ UnderWay(i)'
    <2>1. timeline[i] \in Recs
      BY DEF RecorderTypeOK
    <2>2. timeline[i].pic \in Nat /\ timeline[i].pic =< screen
      BY <1>9, <2>1 DEF Recs, Pics, Owed, Pictures, Showing, Taken
    <2>3. Shown(i) \/ UnderWay(i)
      BY <1>2, <1>9 DEF Covered
    <2>4. ASSUME NEW b \in Acts, Coming(b, timeline[i].pic) PROVE UnderWay(i)'
      <3>1. Coming(b, timeline[i].pic)'
        BY <1>1, <1>8, <1>9, <2>2, <2>4 DEF Coming, recVars
      <3> QED BY <3>1 DEF UnderWay
    <2> QED BY <1>1, <2>3, <2>4 DEF UnderWay, recVars
  <1>10. Covered'
    BY <1>1, <1>9 DEF Covered, Owed, Shown, recVars
  <1> QED BY <1>5, <1>6, <1>7, <1>10

\* A capture that fails leaves a row without a picture, if any, and is lost.
LEMMA CaptureFailsKeeps ==
  ASSUME RecorderInv, NEW a \in Acts, CaptureFails(a)
  PROVE  RecorderInv'
  <1> DEFINE r == Rec(a, "replay", Nothing, FALSE)
  <1> USE DEF RecorderInv
  <1>1. /\ cap' = [cap EXCEPT ![a] = "done"] /\ lost' = TRUE
        /\ queue' = queue \/ (Len(queue) < Buffer /\ queue' = Append(queue, r))
        /\ UNCHANGED <<switchVars, cmdVars, hand, timeline, frameSeq, lastPic, pending, capSeq, capPic>>
    BY DEF CaptureFails, CapGoes
  <1>2. r \in Recs /\ Showing(r)
    BY RecorderAssumption DEF Rec, Recs, Cmds, Pics, Showing, Taken
  <1> HIDE DEF r
  <1>3. /\ queue' \in Seq(Recs) /\ Len(queue') =< Buffer
        /\ \A n \in 1 .. Len(queue') : Showing(queue'[n])
    <2>1. CASE queue' = queue
      BY <2>1 DEF RecorderTypeOK, Pictures
    <2>2. CASE Len(queue) < Buffer /\ queue' = Append(queue, r)
      <3>1. /\ queue' \in Seq(Recs) /\ Len(queue') = Len(queue) + 1 /\ queue'[Len(queue) + 1] = r
            /\ \A n \in 1 .. Len(queue) : queue'[n] = queue[n]
        BY <1>2, <2>2 DEF RecorderTypeOK
      <3> QED BY <1>2, <2>2, <3>1, RecorderAssumption DEF RecorderTypeOK, Pictures
    <2> QED BY <1>1, <2>1, <2>2
  <1>4. RecorderTypeOK'
    <2>1. lost' \in BOOLEAN
      BY <1>1
    <2> QED BY <1>1, <1>3, <2>1 DEF RecorderTypeOK, switchVars, cmdVars
  <1>5. Pictures'
    BY <1>1, <1>3 DEF RecorderTypeOK, Pictures, Showing, Taken, cmdVars
  <1>6. LastRow' /\ LastFrame' /\ Covered'
    BY <1>1 DEF LastRow, LastFrame, Covered
  <1> QED BY <1>4, <1>5, <1>6

LEMMA RecorderStep == RecorderInv /\ [RecorderNext]_recorderVars => RecorderInv'
  <1> SUFFICES ASSUME RecorderInv, [RecorderNext]_recorderVars PROVE RecorderInv'
    OBVIOUS
  <1>1. CASE Switch \/ SwitchLive \/ UNCHANGED recorderVars
    BY <1>1, QuietSteps
  <1>2. ASSUME NEW c \in Cmds, Resolve(c) \/ Mirror(c) \/ Execute(c) \/ CommandFails(c) PROVE RecorderInv'
    BY <1>2, QuietSteps
  <1>3. ASSUME NEW c \in Cmds, Observe(c) PROVE RecorderInv'
    BY <1>3, ObserveKeeps
  <1>4. CASE Writer
    BY <1>4, WriteKeeps, NoteFrameKeeps, ScheduleKeeps DEF Writer
  <1>5. ASSUME NEW a \in Acts, Capture(a) PROVE RecorderInv'
    BY <1>5, CaptureGoesOn, CaptureFailsKeeps, CaptureOffers DEF Capture
  <1> QED BY <1>1, <1>2, <1>3, <1>4, <1>5 DEF RecorderNext, Command

LEMMA RecorderAlways == RecorderSpec => []RecorderInv
  <1> QED BY RecorderInitially, RecorderStep, PTL DEF RecorderSpec

-----------------------------------------------------------------------------
(***************************************************************************)
(* A session reads frame, tap, frame (replay.go:14-18): with nothing lost  *)
(* and nothing on its way, every recorded action has a frame after it, or  *)
(* one before it that already shows what it did.                           *)
(***************************************************************************)
THEOREM FrameAfterTap == RecorderSpec => []FrameFollows
  <1>1. RecorderInv => FrameFollows
    <2> SUFFICES ASSUME RecorderInv, AtRest, ~ lost, NEW i \in 1 .. Len(timeline), Owed(i)
                 PROVE  Shown(i)
      BY DEF RecorderInv, FrameFollows, Owed
    <2>1. Shown(i) \/ UnderWay(i)
      BY DEF RecorderInv, Covered
    <2>2. hand = Nothing /\ Len(queue) = 0 /\ \A a \in Acts, p \in Nat : ~ Coming(a, p)
      BY DEF AtRest, Busy, Coming
    <2>3. timeline[i] \in Recs
      BY DEF RecorderInv, RecorderTypeOK
    <2>4. timeline[i].pic \in Nat
      BY <2>3 DEF Owed, Recs, Pics
    <2> QED BY <2>1, <2>2, <2>4 DEF UnderWay
  <1> QED BY <1>1, RecorderAlways, PTL

-----------------------------------------------------------------------------
(***************************************************************************)
(* The switch.  A command that is past its Resolve read the setting of     *)
(* that moment; once it has set it on the connection, the flag is on       *)
(* against its reading only if something outdid it; and nothing of it is   *)
(* with the recorder but by way of a flag that was on.                     *)
(***************************************************************************)
Outdone(c) == switches > turn[c] \/ Overtaken(c)
Traced(c)  == Recorded(c) \/ (c \in Acts /\ cap[c] # "none")

HeedInv ==
  /\ \A c \in Cmds : phase[c] # "idle" => turn[c] =< switches /\ (turn[c] = switches => seen[c] = setting)
  /\ \A c \in Cmds : Mirrored(c) /\ ~ seen[c] /\ flag => Outdone(c)
  /\ \A c \in Cmds : Traced(c) => Mirrored(c) /\ (seen[c] \/ Outdone(c))

\* The owner's request and the Resolves.
LEMMA SwitchHeeds ==
  ASSUME RecorderTypeOK, HeedInv,
         Switch \/ SwitchLive \/ \E c \in Cmds : Resolve(c) \/ Mirror(c)
  PROVE  HeedInv'
  <1> USE RecorderAssumption DEF recVars, capVars, RecorderTypeOK
  <1>1. \A c \in Cmds : Traced(c)' = Traced(c)
    BY DEF Switch, SwitchLive, Resolve, Mirror, Traced, Recorded
  <1>2. CASE Switch
    BY <1>1, <1>2 DEF Switch, HeedInv, Outdone, Overtaken, Mirrored, cmdVars
  <1>3. CASE SwitchLive
    BY <1>1, <1>3 DEF SwitchLive, HeedInv, Outdone, Overtaken, Mirrored, cmdVars
  <1>4. ASSUME NEW c \in Cmds, Resolve(c) PROVE HeedInv'
    <2>1. /\ phase[c] = "idle" /\ ~ Mirrored(c) /\ ~ Mirrored(c)'
          /\ turn'[c] = switches /\ seen'[c] = setting /\ switches \in Nat
          /\ UNCHANGED <<setting, flag, switches>>
          /\ \A d \in Cmds : d # c => phase'[d] = phase[d] /\ seen'[d] = seen[d] /\ turn'[d] = turn[d]
      BY <1>4 DEF Resolve, switchVars, Mirrored
    <2>2. \A d \in Cmds : Mirrored(d)' => d # c /\ Mirrored(d)
      BY <2>1 DEF Mirrored
    <2>3. \A d \in Cmds : d # c => (Outdone(d) => Outdone(d)')
      BY <2>1 DEF Outdone, Overtaken, Mirrored
    <2>4. \A d \in Cmds : Mirrored(d) => d # c /\ Mirrored(d)'
      BY <2>1 DEF Mirrored
    <2>5. (\A d \in Cmds : phase[d] # "idle" => turn[d] =< switches /\ (turn[d] = switches => seen[d] = setting))'
      <3> SUFFICES ASSUME NEW d \in Cmds, phase'[d] # "idle"
                   PROVE  turn'[d] =< switches' /\ (turn'[d] = switches' => seen'[d] = setting')
        OBVIOUS
      <3>1. CASE d = c
        BY <2>1, <3>1
      <3>2. CASE d # c
        BY <2>1, <3>2 DEF HeedInv
      <3> QED BY <3>1, <3>2
    <2>6. (\A d \in Cmds : Mirrored(d) /\ ~ seen[d] /\ flag => Outdone(d))'
      BY <2>1, <2>2, <2>3 DEF HeedInv
    <2>7. (\A d \in Cmds : Traced(d) => Mirrored(d) /\ (seen[d] \/ Outdone(d)))'
      BY <1>1, <2>1, <2>3, <2>4 DEF HeedInv
    <2> HIDE DEF RecorderTypeOK
    <2> QED BY <2>5, <2>6, <2>7 DEF HeedInv
  <1>5. ASSUME NEW c \in Cmds, Mirror(c) PROVE HeedInv'
    BY <1>1, <1>5 DEF Mirror, HeedInv, Outdone, Overtaken, Mirrored
  <1> QED BY <1>2, <1>3, <1>4, <1>5

\* Every other step: what is newly with the recorder was let in by the flag.
LEMMA OthersHeed ==
  ASSUME HeedInv, UNCHANGED <<setting, flag, switches, seen, turn>>,
         \A c \in Cmds : (phase[c] = "idle" <=> phase'[c] = "idle") /\ (Mirrored(c) <=> Mirrored(c)'),
         \A c \in Cmds : Traced(c)' => Traced(c) \/ (Mirrored(c) /\ flag)
  PROVE  HeedInv'
  <1>1. \A c \in Cmds : Outdone(c) <=> Outdone(c)'
    BY DEF Outdone, Overtaken
  <1> QED BY <1>1 DEF HeedInv

\* A record that may enter the channel.
LEMMA Entering ==
  ASSUME RecorderTypeOK, NEW r \in Recs, NEW c \in Cmds, Recorded(c)', UNCHANGED timeline,
         queue' = queue \/ queue' = Append(queue, r)
  PROVE  Recorded(c) \/ r.cmd = c
  <1>1. queue \in Seq(Recs)
    BY DEF RecorderTypeOK
  <1>2. CASE queue' = queue
    BY <1>2 DEF Recorded
  <1>3. CASE queue' = Append(queue, r)
    <2>1. \A n \in DOMAIN queue' : queue'[n] = r \/ (n \in DOMAIN queue /\ queue'[n] = queue[n])
      BY <1>1, <1>3
    <2> QED BY <2>1 DEF Recorded
  <1> QED BY <1>2, <1>3

\* The writer passes on what the channel held; a follow-up is of a row.
LEMMA WriterTraces ==
  ASSUME RecorderInv, Writer, NEW c \in Cmds, Traced(c)' PROVE Traced(c)
  <1> USE DEF RecorderInv
  <1>1. queue \in Seq(Recs) /\ timeline \in Seq(Recs)
    BY DEF RecorderTypeOK
  <1>2. CASE Write
    <2>1. /\ queue # <<>> /\ queue' = Tail(queue) /\ cap' = cap
          /\ (timeline' = timeline \/ timeline' = Append(timeline, Head(queue)))
      BY <1>2 DEF Write, capVars
    <2>2. /\ 1 \in DOMAIN queue /\ Head(queue) = queue[1] /\ Head(queue) \in Recs
          /\ \A n \in DOMAIN queue' : n + 1 \in DOMAIN queue /\ queue'[n] = queue[n + 1]
      BY <1>1, <2>1
    <2>3. \A i \in DOMAIN timeline' : timeline'[i] = queue[1] \/ (i \in DOMAIN timeline /\ timeline'[i] = timeline[i])
      BY <1>1, <2>1, <2>2
    <2> QED BY <2>1, <2>2, <2>3 DEF Traced, Recorded
  <1>3. CASE NoteFrame
    BY <1>3 DEF NoteFrame, Traced, Recorded, capVars
  <1>4. CASE Schedule
    <2>1. UNCHANGED <<queue, timeline>> /\ hand # Nothing
          /\ (c \in Acts => cap'[c] = "none" \/ cap[c] # "none" \/ hand.cmd = c)
      BY <1>4 DEF Schedule, RecorderTypeOK
    <2>2. Len(timeline) \in DOMAIN timeline /\ hand = timeline[Len(timeline)]
      BY <1>1, <2>1 DEF LastRow
    <2> QED BY <2>1, <2>2 DEF Traced, Recorded
  <1> QED BY <1>2, <1>3, <1>4 DEF Writer

LEMMA CaptureTraces ==
  ASSUME RecorderInv, NEW a \in Acts, Capture(a), NEW c \in Cmds, Traced(c)' PROVE Traced(c)
  <1> USE DEF RecorderInv
  <1>1. cap[a] # "none" /\ \A b \in Acts : b # a => cap'[b] = cap[b]
    BY DEF Capture, Fire, CaptureBegin, CaptureShot, CaptureSkipped, CaptureFails, CaptureObserve, CaptureRecord,
           CapGoes, RecorderTypeOK
  <1>2. ASSUME NEW r \in Recs, r.cmd = a, UNCHANGED timeline, queue' = queue \/ queue' = Append(queue, r)
        PROVE  Traced(c)
    BY <1>1, <1>2, Entering DEF Traced
  <1>3. CASE Fire(a) \/ CaptureBegin(a) \/ CaptureShot(a) \/ CaptureSkipped(a)
    BY <1>1, <1>3 DEF Fire, CaptureBegin, CaptureShot, CaptureSkipped, recVars, Traced, Recorded
  <1>4. CASE CaptureFails(a)
    <2>1. Rec(a, "replay", Nothing, FALSE) \in Recs /\ Rec(a, "replay", Nothing, FALSE).cmd = a
      BY RecorderAssumption DEF Rec, Recs, Cmds, Pics
    <2>2. timeline' = timeline /\ (queue' = queue \/ queue' = Append(queue, Rec(a, "replay", Nothing, FALSE)))
      BY <1>4 DEF CaptureFails
    <2> QED BY <1>2, <2>1, <2>2
  <1>5. CASE CaptureObserve(a) \/ CaptureRecord(a)
    <2>1. Rec(a, "replay", capPic[a], TRUE) \in Recs /\ Rec(a, "replay", capPic[a], TRUE).cmd = a
      BY DEF Rec, Recs, Cmds, RecorderTypeOK
    <2>2. timeline' = timeline /\ (queue' = queue \/ queue' = Append(queue, Rec(a, "replay", capPic[a], TRUE)))
      BY <1>5 DEF CaptureObserve, CaptureRecord, Enqueue
    <2> QED BY <1>2, <2>1, <2>2
  <1> QED BY <1>3, <1>4, <1>5 DEF Capture

LEMMA HeedStep == RecorderInv /\ HeedInv /\ [RecorderNext]_recorderVars => HeedInv'
  <1> SUFFICES ASSUME RecorderInv, HeedInv, [RecorderNext]_recorderVars PROVE HeedInv'
    OBVIOUS
  <1> USE DEF RecorderInv
  <1>1. CASE Switch \/ SwitchLive \/ \E c \in Cmds : Resolve(c) \/ Mirror(c)
    BY <1>1, SwitchHeeds
  <1>2. ASSUME NEW c \in Cmds, Execute(c) \/ CommandFails(c) PROVE HeedInv'
    <2>1. /\ UNCHANGED <<setting, flag, switches, seen, turn, queue, timeline, cap>>
          /\ \A d \in Cmds : (phase[d] = "idle" <=> phase'[d] = "idle") /\ (Mirrored(d) <=> Mirrored(d)')
      BY <1>2 DEF Execute, CommandFails, switchVars, recVars, capVars, Mirrored, RecorderTypeOK
    <2> QED BY <2>1, OthersHeed DEF Traced, Recorded
  <1>3. ASSUME NEW c \in Cmds, Observe(c) PROVE HeedInv'
    <2> DEFINE r == Rec(c, "agent", pic[c], c \in Looks /\ pic[c] # Nothing)
    <2>1. /\ UNCHANGED <<setting, flag, switches, seen, turn, timeline, cap>> /\ Mirrored(c)
          /\ \A d \in Cmds : (phase[d] = "idle" <=> phase'[d] = "idle") /\ (Mirrored(d) <=> Mirrored(d)')
      BY <1>3 DEF Observe, switchVars, capVars, Mirrored, RecorderTypeOK
    <2>2. r \in Recs /\ r.cmd = c
      BY DEF Rec, Recs, RecorderTypeOK
    <2>3. queue' = queue \/ (flag /\ queue' = Append(queue, r))
      BY <1>3 DEF Observe, Enqueue
    <2> HIDE DEF r
    <2>4. ASSUME NEW d \in Cmds, Traced(d)' PROVE Traced(d) \/ (Mirrored(d) /\ flag)
      <3>1. CASE queue' = queue
        BY <2>1, <2>4, <3>1 DEF Traced, Recorded
      <3>2. CASE flag /\ queue' = Append(queue, r)
        <4>1. CASE Recorded(d)'
          BY <2>1, <2>2, <3>2, <4>1, Entering DEF Traced
        <4>2. CASE ~ Recorded(d)'
          BY <2>1, <2>4, <4>2 DEF Traced
        <4> QED BY <4>1, <4>2
      <3> QED BY <2>3, <3>1, <3>2
    <2> QED BY <2>1, <2>4, OthersHeed
  <1>4. CASE Writer
    <2>1. UNCHANGED <<setting, flag, switches, seen, turn, phase>>
      BY <1>4 DEF Writer, Write, NoteFrame, Schedule, switchVars, cmdVars
    <2> QED BY <1>4, <2>1, WriterTraces, OthersHeed DEF Mirrored
  <1>5. ASSUME NEW a \in Acts, Capture(a) PROVE HeedInv'
    <2>1. UNCHANGED <<setting, flag, switches, seen, turn, phase>>
      BY <1>5 DEF Capture, Fire, CaptureBegin, CaptureShot, CaptureSkipped, CaptureFails, CaptureObserve, CaptureRecord,
                  switchVars, cmdVars
    <2> QED BY <1>5, <2>1, CaptureTraces, OthersHeed DEF Mirrored
  <1>6. CASE UNCHANGED recorderVars
    BY <1>6 DEF recorderVars, switchVars, cmdVars, recVars, capVars, HeedInv, Outdone, Overtaken, Mirrored, Traced, Recorded
  <1> QED BY <1>1, <1>2, <1>3, <1>4, <1>5, <1>6 DEF RecorderNext, Command

(***************************************************************************)
(* Off is heeded: a command whose own request found recording off leaves   *)
(* neither a row nor a picture, unless the owner switched since or a       *)
(* command with an older reading overtook it.                              *)
(***************************************************************************)
THEOREM OffRecordsNothing == RecorderSpec => []OffIsHeeded
  <1>1. RecorderInit => HeedInv
    BY DEF RecorderInit, HeedInv, Mirrored, Traced, Recorded
  <1>2. RecorderInv /\ HeedInv => OffIsHeeded
    BY DEF HeedInv, Traced, Outdone, OffIsHeeded
  <1> QED BY <1>1, <1>2, HeedStep, RecorderAlways, PTL DEF RecorderSpec

-----------------------------------------------------------------------------
(***************************************************************************)
(* The recording at rest                                                   *)
(***************************************************************************)
\* A step the writer has an image of is not bare, and its image is no older than its stamp.
Imaged(n) == stage[n] \in {"temp", "saved"} \/ n \in framed
ImageOk == \A n \in Steps : Imaged(n) => n \notin Bare /\ fileAge[n] =< age[n]

\* Rows, and what the deleters hold, are of steps the writer is through with.
Through(S) == \A n \in S : stage[n] = "over"

\* A saved image, with its row or still without, is there as long as its step is in the window.
Backed == \A n \in Steps : (stage[n] = "saved" \/ n \in framed) /\ age[n] =< Window => n \in file

\* Once a deleter removes files, the rows they belonged to are gone.
RowsFirst == \A d \in {gc, forget} : d.pc = "files" => d.ids \cap row = {}

(***************************************************************************)
(* FramesBacked is the framed half of Backed; the other half is what makes *)
(* Insert keep it.  Deleting files keeps it because of RowsFirst, sweeping *)
(* because of ImageOk.                                                     *)
(***************************************************************************)
StoreInv ==
  /\ StoreTypeOK /\ ImageOk /\ Backed /\ RowsFirst
  /\ Through(row) /\ Through(gc.ids) /\ Through(forget.ids)

-----------------------------------------------------------------------------
\* No step of the writer, the deleters, the clock or a crash leaves the types.
LEMMA StoreTypeStep == StoreTypeOK /\ ImageOk /\ [StoreNext]_storeVars => StoreTypeOK'
<1> SUFFICES ASSUME StoreTypeOK, ImageOk, [StoreNext]_storeVars PROVE StoreTypeOK'
  OBVIOUS
<1> USE ReplayAssumption DEF StoreTypeOK, InHand
<1>1. ASSUME NEW n \in Steps, Record(n) PROVE StoreTypeOK'
  BY <1>1 DEF Record, Goes
<1>2. ASSUME NEW n \in Steps, WriterStep(n) PROVE StoreTypeOK'
  <2>1. CASE SaveTemp(n)
    BY <2>1 DEF SaveTemp, IsNext, Goes, Ages
  <2>2. CASE SaveRename(n)
    BY <2>2 DEF SaveRename, Goes, ImageOk, Imaged
  <2>3. CASE SaveFails(n)
    BY <2>3 DEF SaveFails, Goes, Fault
  <2>4. CASE Insert(n)
    <3>1. CASE stage[n] = "saved"
      BY <2>4, <3>1 DEF Insert, Goes, ImageOk, Imaged
    <3>2. CASE stage[n] # "saved"
      BY <2>4, <3>2 DEF Insert, Goes
    <3>3. QED
      BY <3>1, <3>2
  <2>5. CASE InsertFails(n)
    BY <2>5 DEF InsertFails, Goes, Fault
  <2>6. CASE Undo(n)
    BY <2>6 DEF Undo, Goes
  <2>7. QED
    BY <1>2, <2>1, <2>2, <2>3, <2>4, <2>5, <2>6 DEF WriterStep
<1>3. CASE DeleteDevice \/ ExpireDevice
  <2>1. known' = FALSE
    BY <1>3 DEF DeleteDevice, ExpireDevice
  <2>2. CASE DeleteDevice
    BY <2>1, <2>2 DEF DeleteDevice, Deleter
  <2>3. CASE ExpireDevice
    BY <2>1, <2>3 DEF ExpireDevice
  <2>4. QED
    BY <1>3, <2>2, <2>3
<1>4. CASE Forget
  <2>1. CASE ForgetSelect
    BY <2>1 DEF ForgetSelect, Deleter
  <2>2. CASE ForgetDelete
    BY <2>2 DEF ForgetDelete, Delete, Deleter
  <2>3. ASSUME NEW n \in Steps, ForgetFile(n) PROVE StoreTypeOK'
    BY <2>3 DEF ForgetFile, DeleteFile
  <2>4. CASE ForgetDone \/ ForgetFails
    BY <2>4 DEF ForgetDone, ForgetFails, Deleter, Fault
  <2>5. QED
    BY <1>4, <2>1, <2>2, <2>3, <2>4 DEF Forget
<1>5. CASE Gc
  <2>1. CASE GcSelect
    BY <2>1 DEF GcSelect, Deleter, Surplus
  <2>2. CASE GcDelete
    BY <2>2 DEF GcDelete, Delete, Deleter
  <2>3. ASSUME NEW n \in Steps, GcFile(n) PROVE StoreTypeOK'
    BY <2>3 DEF GcFile, DeleteFile
  <2>4. CASE GcPartDone
    BY <2>4 DEF GcPartDone, NextPart, Deleter
  <2>5. CASE GcPartFails
    BY <2>5 DEF GcPartFails, NextPart, Deleter, Fault
  <2>6. CASE Sweep
    BY <2>6 DEF Sweep
  <2>7. QED
    BY <1>5, <2>1, <2>2, <2>3, <2>4, <2>5, <2>6 DEF Gc
<1>6. CASE RemoveFails
  <2>1. ASSUME NEW n \in Steps, DeleteFile(gc, gc', n), UNCHANGED forget PROVE StoreTypeOK'
    BY <1>6, <2>1 DEF RemoveFails, DeleteFile, Fault
  <2>2. ASSUME NEW n \in Steps, DeleteFile(forget, forget', n), UNCHANGED gc PROVE StoreTypeOK'
    BY <1>6, <2>2 DEF RemoveFails, DeleteFile, Fault
  <2>3. QED
    BY <1>6, <2>1, <2>2 DEF RemoveFails
<1>7. CASE Crash
  BY <1>7 DEF Crash, Deleter, Fault
<1>8. CASE Tick
  BY <1>8 DEF Tick, Older, Ages
<1>9. CASE UNCHANGED storeVars
  BY <1>9 DEF storeVars
<1>10. QED
  BY <1>1, <1>2, <1>3, <1>4, <1>5, <1>6, <1>7, <1>8, <1>9 DEF StoreNext

\* The images stay younger than their stamps, and saved ones in the window on disk; a
\* deleter removes files of rows it has deleted, the sweep files past the window.
LEMMA StoreStep == StoreInv /\ [StoreNext]_storeVars => StoreInv'
<1> SUFFICES ASSUME StoreInv, [StoreNext]_storeVars PROVE StoreInv'
  OBVIOUS
<1>0. StoreTypeOK'
  BY StoreTypeStep DEF StoreInv
<1> SUFFICES /\ ImageOk' /\ Backed' /\ RowsFirst'
             /\ Through(row)' /\ Through(gc.ids)' /\ Through(forget.ids)'
  BY <1>0 DEF StoreInv
<1> DEFINE Rest == /\ ImageOk' /\ Backed' /\ RowsFirst'
                   /\ Through(row)' /\ Through(gc.ids)' /\ Through(forget.ids)'
<1> USE ReplayAssumption DEF StoreInv, StoreTypeOK, ImageOk, Imaged, Backed, RowsFirst, Through, InHand
<1>1. ASSUME NEW n \in Steps, Record(n) PROVE Rest
  BY <1>1 DEF Record, Goes
<1>2. ASSUME NEW n \in Steps, WriterStep(n) PROVE Rest
  <2>1. CASE SaveTemp(n)
    BY <2>1 DEF SaveTemp, IsNext, Goes, Ages
  <2>2. CASE SaveRename(n)
    BY <2>2 DEF SaveRename, Goes
  <2>3. CASE SaveFails(n)
    BY <2>3 DEF SaveFails, IsNext, Goes
  <2>4. CASE Insert(n)
    <3>1. CASE stage[n] = "saved"
      BY <2>4, <3>1 DEF Insert, Goes
    <3>2. CASE stage[n] # "saved"
      BY <2>4, <3>2 DEF Insert, IsNext, Goes
    <3>3. QED
      BY <3>1, <3>2
  <2>5. CASE InsertFails(n)
    BY <2>5 DEF InsertFails, IsNext, Goes
  <2>6. CASE Undo(n)
    BY <2>6 DEF Undo, Goes
  <2>7. QED
    BY <1>2, <2>1, <2>2, <2>3, <2>4, <2>5, <2>6 DEF WriterStep
<1>3. CASE DeleteDevice \/ ExpireDevice
  <2>1. CASE DeleteDevice
    BY <2>1 DEF DeleteDevice, Deleter
  <2>2. CASE ExpireDevice
    BY <2>2 DEF ExpireDevice
  <2>3. QED
    BY <1>3, <2>1, <2>2
<1>4. CASE Forget
  <2>1. CASE ForgetSelect
    BY <2>1 DEF ForgetSelect, Deleter
  <2>2. CASE ForgetDelete
    BY <2>2 DEF ForgetDelete, Delete, Deleter
  <2>3. ASSUME NEW n \in Steps, ForgetFile(n) PROVE Rest
    BY <2>3 DEF ForgetFile, DeleteFile
  <2>4. CASE ForgetDone
    BY <2>4 DEF ForgetDone, Deleter
  <2>5. CASE ForgetFails
    BY <2>5 DEF ForgetFails, Deleter
  <2>6. QED
    BY <1>4, <2>1, <2>2, <2>3, <2>4, <2>5 DEF Forget
<1>5. CASE Gc
  <2>1. CASE GcSelect
    BY <2>1 DEF GcSelect, Deleter, Surplus
  <2>2. CASE GcDelete
    BY <2>2 DEF GcDelete, Delete, Deleter
  <2>3. ASSUME NEW n \in Steps, GcFile(n) PROVE Rest
    BY <2>3 DEF GcFile, DeleteFile
  <2>4. CASE GcPartDone
    BY <2>4 DEF GcPartDone, Deleter
  <2>5. CASE GcPartFails
    BY <2>5 DEF GcPartFails, Deleter
  <2>6. CASE Sweep
    BY <2>6 DEF Sweep, Ages
  <2>7. QED
    BY <1>5, <2>1, <2>2, <2>3, <2>4, <2>5, <2>6 DEF Gc
<1>6. CASE RemoveFails
  <2>1. ASSUME NEW n \in Steps, DeleteFile(gc, gc', n), UNCHANGED forget PROVE Rest
    BY <1>6, <2>1 DEF RemoveFails, DeleteFile
  <2>2. ASSUME NEW n \in Steps, DeleteFile(forget, forget', n), UNCHANGED gc PROVE Rest
    BY <1>6, <2>2 DEF RemoveFails, DeleteFile
  <2>3. QED
    BY <1>6, <2>1, <2>2 DEF RemoveFails
<1>7. CASE Crash
  BY <1>7 DEF Crash, Deleter
<1>8. CASE Tick
  BY <1>8 DEF Tick, Older, Ages
<1>9. CASE UNCHANGED storeVars
  BY <1>9 DEF storeVars
<1>10. QED
  BY <1>1, <1>2, <1>3, <1>4, <1>5, <1>6, <1>7, <1>8, <1>9 DEF StoreNext

-----------------------------------------------------------------------------
(***************************************************************************)
(* For the action property: what the retention loop has selected stays due *)
(* until it is deleted.  Ages only grow, and so does the set of newer rows *)
(* unless the device is forgotten.                                         *)
(***************************************************************************)
Due(n) ==
  \/ part = "prune" /\ age[n] > Window
  \/ part = "trim" /\ (~ known \/ Cardinality(Newer(n)) >= Keep)
SelectedDue == gc.pc = "rows" => \A n \in gc.ids : Due(n)
ForgetsUnknown == forget.pc # "idle" => ~ known
DueInv == StoreInv /\ SelectedDue /\ ForgetsUnknown

\* Newer rows of a step are at most the steps, so they can be counted.
LEMMA NewerFinite ==
  ASSUME NEW R \in SUBSET Steps, NEW n \in Steps
  PROVE  IsFiniteSet({m \in R : m > n}) /\ Cardinality({m \in R : m > n}) \in Nat
<1>1. IsFiniteSet(Steps)
  BY FS_Interval, ReplayAssumption DEF Steps
<1>2. {m \in R : m > n} \in SUBSET Steps
  OBVIOUS
<1>3. QED
  BY <1>1, <1>2, FS_Subset, FS_CardinalityType

\* Among the rows R, step n has as many newer ones as the device may keep.
Beyond(R, n) == Cardinality({m \in R : m > n}) >= Keep

\* More rows, no fewer newer ones.
LEMMA NewerGrows ==
  ASSUME NEW R \in SUBSET Steps, NEW Q \in SUBSET R, NEW n \in Steps, Beyond(Q, n)
  PROVE  Beyond(R, n)
<1>1. {m \in Q : m > n} \in SUBSET {m \in R : m > n}
  OBVIOUS
<1>2. Cardinality({m \in Q : m > n}) =< Cardinality({m \in R : m > n})
  BY <1>1, NewerFinite, FS_Subset
<1>3. Q \in SUBSET Steps
  OBVIOUS
<1>4. Cardinality({m \in Q : m > n}) \in Nat /\ Cardinality({m \in R : m > n}) \in Nat
  BY <1>3, NewerFinite
<1>5. QED
  BY <1>2, <1>4, ReplayAssumption DEF Beyond

\* What is due stays due while the loop stands still and no row is deleted.
LEMMA DueStays ==
  ASSUME StoreTypeOK, NEW n \in Steps, Due(n),
         row \subseteq row', row' \subseteq Steps, part' = part, known' => known,
         age'[n] >= age[n], age'[n] \in Ages
  PROVE  Due(n)'
<1> USE ReplayAssumption DEF StoreTypeOK, Due, Ages
<1>1. CASE part = "prune"
  BY <1>1
<1>2. CASE part = "trim" /\ ~ known
  BY <1>2
<1>3. CASE part = "trim" /\ Cardinality(Newer(n)) >= Keep
  <2>1. row' \in SUBSET Steps /\ row \in SUBSET row'
    OBVIOUS
  <2>2. Beyond(row, n)
    BY <1>3 DEF Newer, Beyond
  <2>3. Beyond(row', n)
    BY <2>1, <2>2, NewerGrows
  <2>4. QED
    BY <1>3, <2>3 DEF Newer, Beyond
<1>4. QED
  BY <1>1, <1>2, <1>3

\* Steps that select nothing and delete no row leave the selection, and what is due, alone.
LEMMA IdleKeepsDue ==
  ASSUME DueInv, StoreTypeOK', gc' = gc, part' = part, row \subseteq row', known' => known,
         \A n \in Steps : age'[n] >= age[n]
  PROVE  SelectedDue'
<1> SUFFICES ASSUME gc.pc = "rows", NEW n \in gc.ids PROVE Due(n)'
  BY DEF SelectedDue
<1>1. n \in Steps /\ Due(n)
  BY DEF DueInv, StoreInv, StoreTypeOK, SelectedDue
<1>2. StoreTypeOK /\ row' \subseteq Steps /\ age'[n] \in Ages /\ age'[n] >= age[n]
  BY <1>1 DEF DueInv, StoreInv, StoreTypeOK
<1>3. QED
  BY <1>1, <1>2, DueStays

LEMMA DueStep == DueInv /\ [StoreNext]_storeVars => DueInv'
<1> SUFFICES ASSUME DueInv, [StoreNext]_storeVars PROVE SelectedDue' /\ ForgetsUnknown'
  BY StoreStep DEF DueInv
<1>0. StoreInv /\ StoreTypeOK /\ StoreTypeOK' /\ SelectedDue /\ ForgetsUnknown
  BY StoreStep DEF DueInv, StoreInv
<1>a. \A n \in Steps : age[n] >= age[n]
  BY <1>0, ReplayAssumption DEF StoreTypeOK, Ages
<1>1. ASSUME NEW n \in Steps, Record(n) \/ WriterStep(n) PROVE SelectedDue' /\ ForgetsUnknown'
  <2>1. UNCHANGED <<known, part, gc, forget, age>> /\ row \subseteq row'
    BY <1>1 DEF Record, WriterStep, SaveTemp, SaveRename, SaveFails, Insert, InsertFails, Undo
  <2>2. SelectedDue'
    BY <1>0, <1>a, <2>1, IdleKeepsDue
  <2>3. QED
    BY <1>0, <2>1, <2>2 DEF ForgetsUnknown
<1>2. CASE DeleteDevice \/ ExpireDevice
  <2>1. UNCHANGED <<part, gc, age, row>> /\ known' = FALSE
    BY <1>2 DEF DeleteDevice, ExpireDevice
  <2>2. SelectedDue'
    BY <1>0, <1>a, <2>1, IdleKeepsDue
  <2>3. QED
    BY <2>1, <2>2 DEF ForgetsUnknown
<1>3. CASE Forget
  <2>1. forget.pc # "idle" /\ UNCHANGED <<known, part, gc, age>>
    BY <1>3 DEF Forget, ForgetSelect, ForgetDelete, ForgetFile, ForgetDone, ForgetFails, Delete, DeleteFile
  <2>2. known' = FALSE
    BY <1>0, <2>1 DEF ForgetsUnknown, StoreTypeOK
  <2>3. SelectedDue'
    BY <1>0, <2>1, <2>2 DEF SelectedDue, Due
  <2>4. QED
    BY <2>2, <2>3 DEF ForgetsUnknown
<1>4. CASE Gc
  <2>1. UNCHANGED <<known, forget, age>>
    BY <1>4 DEF Gc, GcSelect, GcDelete, GcFile, GcPartDone, GcPartFails, Sweep
  <2>2. ASSUME GcSelect PROVE SelectedDue'
    <3>1. CASE part = "prune"
      BY <2>1, <2>2, <3>1 DEF GcSelect, Deleter, SelectedDue, Due
    <3>2. CASE part = "trim"
      <4>1. gc'.ids = Surplus /\ part' = "trim" /\ row' = row
        BY <2>2, <3>2 DEF GcSelect, Deleter
      <4>2. \A n \in Surplus : Cardinality(Newer(n)) >= Keep
        BY DEF Surplus
      <4>3. \A n \in Surplus : Due(n)'
        BY <4>1, <4>2, Zenon DEF Due, Newer
      <4>4. QED
        BY <4>1, <4>3 DEF SelectedDue
    <3>3. QED
      BY <2>2, <3>1, <3>2 DEF GcSelect
  <2>3. ASSUME GcDelete \/ (\E n \in Steps : GcFile(n)) \/ GcPartDone \/ GcPartFails \/ Sweep
        PROVE  SelectedDue'
    <3>1. CASE GcDelete
      BY <3>1 DEF GcDelete, Delete, Deleter, SelectedDue
    <3>2. ASSUME NEW n \in Steps, GcFile(n) PROVE SelectedDue'
      BY <1>0, <3>2 DEF GcFile, DeleteFile, SelectedDue, StoreTypeOK
    <3>3. CASE GcPartDone \/ GcPartFails
      BY <3>3 DEF GcPartDone, GcPartFails, Deleter, SelectedDue
    <3>4. CASE Sweep
      BY <1>0, <3>4 DEF Sweep, SelectedDue, Due
    <3>5. QED
      BY <2>3, <3>1, <3>2, <3>3, <3>4
  <2>4. QED
    BY <1>0, <1>4, <2>1, <2>2, <2>3 DEF Gc, ForgetsUnknown
<1>5. CASE RemoveFails
  <2>1. UNCHANGED <<known, part, age, row>>
    BY <1>5 DEF RemoveFails
  <2>2. ASSUME NEW n \in Steps, DeleteFile(gc, gc', n), UNCHANGED forget
        PROVE  SelectedDue' /\ ForgetsUnknown'
    BY <1>0, <2>1, <2>2 DEF DeleteFile, SelectedDue, ForgetsUnknown, StoreTypeOK
  <2>3. ASSUME NEW n \in Steps, DeleteFile(forget, forget', n), UNCHANGED gc
        PROVE  SelectedDue' /\ ForgetsUnknown'
    <3>1. SelectedDue'
      BY <1>0, <1>a, <2>1, <2>3, IdleKeepsDue
    <3>2. ForgetsUnknown'
      BY <1>0, <2>1, <2>3 DEF DeleteFile, ForgetsUnknown
    <3>3. QED
      BY <3>1, <3>2
  <2>4. QED
    BY <1>5, <2>2, <2>3 DEF RemoveFails
<1>6. CASE Crash
  BY <1>6 DEF Crash, Deleter, SelectedDue, ForgetsUnknown
<1>7. CASE Tick
  <2>1. UNCHANGED <<known, part, gc, forget, row>> /\ \A n \in Steps : age'[n] >= age[n]
    BY <1>0, <1>7, ReplayAssumption DEF Tick, Older, StoreTypeOK, Ages
  <2>2. SelectedDue'
    BY <1>0, <2>1, IdleKeepsDue
  <2>3. QED
    BY <1>0, <2>1, <2>2 DEF ForgetsUnknown
<1>8. CASE UNCHANGED storeVars
  <2>1. UNCHANGED <<known, part, gc, forget, row, age>>
    BY <1>8 DEF storeVars
  <2>2. SelectedDue'
    BY <1>0, <1>a, <2>1, IdleKeepsDue
  <2>3. QED
    BY <1>0, <2>1, <2>2 DEF ForgetsUnknown
<1>9. QED
  BY <1>1, <1>2, <1>3, <1>4, <1>5, <1>6, <1>7, <1>8 DEF StoreNext

-----------------------------------------------------------------------------
LEMMA StoreInitially == StoreInit => DueInv
<1> SUFFICES ASSUME StoreInit PROVE DueInv
  OBVIOUS
<1>1. StoreTypeOK
  BY ReplayAssumption DEF StoreInit, StoreTypeOK, InHand, Ages, Deleter
<1>2. ImageOk /\ Backed /\ RowsFirst /\ Through(row) /\ Through(gc.ids) /\ Through(forget.ids)
  BY DEF StoreInit, ImageOk, Imaged, Backed, RowsFirst, Through, Deleter
<1>3. SelectedDue /\ ForgetsUnknown
  BY DEF StoreInit, SelectedDue, ForgetsUnknown, Deleter
<1>4. QED
  BY <1>1, <1>2, <1>3 DEF DueInv, StoreInv

LEMMA StoreAlways == StoreSpec => []DueInv
<1>1. DueInv /\ UNCHANGED storeVars => DueInv'
  BY DueStep
<1>2. QED
  BY StoreInitially, DueStep, <1>1, PTL DEF StoreSpec

\* The recorder's store keeps its types for any number of steps.
THEOREM StoreTypeCorrect == StoreSpec => []StoreTypeOK
<1>1. DueInv => StoreTypeOK
  BY DEF DueInv, StoreInv
<1>2. QED
  BY <1>1, StoreAlways, PTL

\* A row in the window keeps its frame through every write, deletion, fault and crash.
THEOREM FramesKept == StoreSpec => []FramesBacked
<1>1. DueInv => FramesBacked
  BY DEF DueInv, StoreInv, StoreTypeOK, Backed, FramesBacked
<1>2. QED
  BY <1>1, StoreAlways, PTL

\* Only a deletion removes rows: Forget's, of a device that is gone, or the loop's, of
\* steps that are due.
LEMMA OnlyDueGo ==
  ASSUME DueInv, StoreNext, NEW n \in row \ row'
  PROVE  ~ known \/ age[n] > Window \/ Cardinality(Newer(n)) >= Keep
<1>1. ForgetDelete \/ GcDelete
  BY DEF StoreNext, Record, WriterStep, SaveTemp, SaveRename, SaveFails, Insert, InsertFails, Undo,
         DeleteDevice, ExpireDevice, Forget, ForgetSelect, ForgetFile, ForgetDone, ForgetFails,
         Gc, GcSelect, GcFile, GcPartDone, GcPartFails, Sweep, RemoveFails, Crash, Tick
<1>2. CASE ForgetDelete
  BY <1>2 DEF ForgetDelete, Delete, DueInv, ForgetsUnknown
<1>3. CASE GcDelete
  BY <1>3 DEF GcDelete, Delete, DueInv, SelectedDue, Due
<1>4. QED
  BY <1>1, <1>2, <1>3

\* Nothing young and recent is deleted, whatever the loop and Forget interleave with.
THEOREM OldestFirst == StoreSpec => OnlyOldGo
<1>1. ASSUME DueInv, [StoreNext]_storeVars
      PROVE  [\A n \in row \ row' : ~ known \/ age[n] > Window \/ Cardinality(Newer(n)) >= Keep]_storeVars
  <2>1. CASE StoreNext
    BY <1>1, <2>1, OnlyDueGo
  <2>2. CASE UNCHANGED storeVars
    BY <2>2
  <2>3. QED
    BY <1>1, <2>1, <2>2
<1>2. QED
  BY <1>1, StoreAlways, PTL DEF StoreSpec, OnlyOldGo

\* Rows, frames and types agree for ever.
THEOREM StoreKept == StoreSpec => []Kept
<1>1. QED
  BY StoreTypeCorrect, FramesKept, PTL DEF Kept
=============================================================================

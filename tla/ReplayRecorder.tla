--------------------------- MODULE ReplayRecorder ---------------------------
(***************************************************************************)
(* Session replay of one device, from the command to the timeline: the     *)
(* switch (api.go, resolver.go), the observer on DeviceConn.Send           *)
(* (relay/conn.go), and the Recorder with its follow-up captures           *)
(* (replay/replay.go, cmd/abacad/main.go).  How rows and files are kept is *)
(* ReplayStore's; here a row is inserted with its frame, and nothing       *)
(* fails on disk.                                                          *)
(*                                                                         *)
(* What a screen looks like is the number of actions executed so far, and  *)
(* so is a frame, and its hash.                                            *)
(***************************************************************************)
EXTENDS Naturals, Sequences

CONSTANTS
  Acts,         \* commands that change the screen (actionVerbs)
  Looks,        \* screenshots the agent takes
  Buffer,       \* capacity of the recorder's channel
  MaxSwitches,  \* bound: how often the owner turns recording on or off
  Nothing

Cmds == Acts \cup Looks
Pics == Nat \cup {Nothing}

\* by: "agent", or "replay" for SourceReplay.  shot: the reply carried an image.
Recs == [cmd : Cmds, by : {"agent", "replay"}, pic : Pics, shot : BOOLEAN]

ASSUME RecorderAssumption ==
  /\ Acts \cap Looks = {} /\ Nothing \notin Cmds \cup Nat \cup Recs
  /\ Buffer \in Nat \ {0} /\ MaxSwitches \in Nat

VARIABLES
  \* the switch
  setting, flag,      \* the device row's replay column; DeviceConn.replay
  owner, switches,    \* updateDevice has still to mirror the setting; switches made
  \* commands
  phase, seen,        \* each command: its step; the setting its Resolve read
  turn,               \* history: the switches that had been made by then
  pic,                \* the screen it left or showed, Nothing when it failed
  screen,             \* the device
  \* the recorder
  queue, hand,        \* the channel; the record whose row was inserted last
  timeline,           \* rows, oldest first
  frameSeq, lastPic,  \* frames recorded; the last one's hash
  pending,            \* pending[device]: the action whose timer is in the map
  cap, capSeq, capPic,\* each action's follow-up: its step, scheduledAt, its shot
  lost                \* history: a step was dropped or a capture came to nothing

switchVars == <<setting, flag, owner, switches>>
cmdVars    == <<phase, seen, turn, pic, screen>>
recVars    == <<queue, hand, timeline, frameSeq, lastPic>>
capVars    == <<pending, cap, capSeq, capPic>>
recorderVars == <<switchVars, cmdVars, recVars, capVars, lost>>

Rec(c, by, p, shot) == [cmd |-> c, by |-> by, pic |-> p, shot |-> shot]

RecorderInit ==
  /\ setting = TRUE /\ flag = TRUE /\ owner = "idle" /\ switches = 0
  /\ phase = [c \in Cmds |-> "idle"] /\ seen = [c \in Cmds |-> FALSE]
  /\ turn = [c \in Cmds |-> 0]
  /\ pic = [c \in Cmds |-> Nothing] /\ screen = 0
  /\ queue = <<>> /\ hand = Nothing /\ timeline = <<>>
  /\ frameSeq = 0 /\ lastPic = Nothing
  /\ pending = Nothing /\ cap = [a \in Acts |-> "none"]
  /\ capSeq = [a \in Acts |-> 0] /\ capPic = [a \in Acts |-> Nothing]
  /\ lost = FALSE

-----------------------------------------------------------------------------
(***************************************************************************)
(* The owner's switch: updateDevice stores the setting, then mirrors it    *)
(* onto the live connection.  Every Resolve reads the row and mirrors what *)
(* it read.                                                                *)
(***************************************************************************)
Switch ==
  /\ owner = "idle" /\ switches < MaxSwitches
  /\ setting' = ~ setting /\ owner' = "stored" /\ switches' = switches + 1
  /\ UNCHANGED <<flag, cmdVars, recVars, capVars, lost>>

SwitchLive ==
  /\ owner = "stored"
  /\ flag' = setting /\ owner' = "idle"
  /\ UNCHANGED <<setting, switches, cmdVars, recVars, capVars, lost>>

Resolve(c) ==
  /\ phase[c] = "idle"
  /\ phase' = [phase EXCEPT ![c] = "resolved"]
  /\ seen' = [seen EXCEPT ![c] = setting] /\ turn' = [turn EXCEPT ![c] = switches]
  /\ UNCHANGED <<switchVars, pic, screen, recVars, capVars, lost>>

\* MUTANT of Mirror: what was read is not set on the connection.
BugMirror(c) ==
  /\ phase[c] = "resolved"
  /\ phase' = [phase EXCEPT ![c] = "sent"]
  /\ UNCHANGED <<switchVars, seen, turn, pic, screen, recVars, capVars, lost>>

Mirror(c) ==
  /\ phase[c] = "resolved"
  /\ flag' = seen[c]
  /\ phase' = [phase EXCEPT ![c] = "sent"]
  /\ UNCHANGED <<setting, owner, switches, seen, turn, pic, screen, recVars, capVars, lost>>

-----------------------------------------------------------------------------
(***************************************************************************)
(* The command runs, and Send's observer offers it to the recorder.        *)
(***************************************************************************)
Execute(c) ==
  /\ phase[c] = "sent"
  /\ phase' = [phase EXCEPT ![c] = "answered"]
  /\ screen' = IF c \in Acts THEN screen + 1 ELSE screen
  /\ pic' = [pic EXCEPT ![c] = screen']
  /\ UNCHANGED <<switchVars, seen, turn, recVars, capVars, lost>>

\* Denied, timed out, device gone: pic stays Nothing.
CommandFails(c) ==
  /\ phase[c] = "sent"
  /\ phase' = [phase EXCEPT ![c] = "answered"]
  /\ UNCHANGED <<switchVars, seen, turn, pic, screen, recVars, capVars, lost>>

\* Recorder.Record: never blocks, drops when the channel is full.
Enqueue(r) ==
  IF Len(queue) < Buffer
  THEN queue' = Append(queue, r) /\ UNCHANGED lost
  ELSE UNCHANGED queue /\ lost' = TRUE

Observe(c) ==
  /\ phase[c] = "answered"
  /\ phase' = [phase EXCEPT ![c] = "done"]
  /\ IF flag THEN Enqueue(Rec(c, "agent", pic[c], c \in Looks /\ pic[c] # Nothing))
             ELSE UNCHANGED <<queue, lost>>
  /\ UNCHANGED <<switchVars, seen, turn, pic, screen, hand, timeline, frameSeq, lastPic, capVars>>

-----------------------------------------------------------------------------
(***************************************************************************)
(* The writer: a row, then what follows from it.  A follow-up that shows   *)
(* what the last frame shows is dropped whole.                             *)
(***************************************************************************)
Repeats(r) == r.by = "replay" /\ r.shot /\ r.pic = lastPic

Write ==
  /\ hand = Nothing /\ queue # <<>>
  /\ queue' = Tail(queue)
  /\ IF Repeats(Head(queue)) THEN UNCHANGED <<hand, timeline>>
     ELSE hand' = Head(queue) /\ timeline' = Append(timeline, Head(queue))
  /\ UNCHANGED <<switchVars, cmdVars, frameSeq, lastPic, capVars, lost>>

NoteFrame ==
  /\ hand # Nothing /\ hand.shot
  /\ frameSeq' = frameSeq + 1 /\ lastPic' = hand.pic /\ hand' = Nothing
  /\ UNCHANGED <<switchVars, cmdVars, queue, timeline, capVars, lost>>

\* scheduleCapture for a successful action: the timer of the action before it, if it is
\* in the map and has not fired, is stopped.
Schedule ==
  /\ hand # Nothing /\ ~ hand.shot
  /\ hand' = Nothing
  /\ IF hand.cmd \in Acts /\ hand.pic # Nothing
     THEN /\ cap' = [a \in Acts |-> IF a = hand.cmd THEN "armed"
                                    ELSE IF a = pending /\ cap[a] = "armed" THEN "stopped"
                                    ELSE cap[a]]
          /\ capSeq' = [capSeq EXCEPT ![hand.cmd] = frameSeq]
          /\ pending' = hand.cmd
     ELSE UNCHANGED <<cap, capSeq, pending>>
  /\ UNCHANGED <<switchVars, cmdVars, queue, timeline, frameSeq, lastPic, capPic, lost>>

-----------------------------------------------------------------------------
(***************************************************************************)
(* capture, in a goroutine of its own once the timer fires.                *)
(***************************************************************************)
CapGoes(a, to) == cap' = [cap EXCEPT ![a] = to]

Fire(a) ==
  /\ cap[a] = "armed" /\ CapGoes(a, "fired")
  /\ UNCHANGED <<switchVars, cmdVars, recVars, pending, capSeq, capPic, lost>>

\* MUTANT of CaptureBegin: any frame will do, also one from before the action.
BugCaptureBegin(a) ==
  /\ cap[a] = "fired"
  /\ pending' = Nothing
  /\ CapGoes(a, IF lastPic = Nothing THEN "asking" ELSE "done")
  /\ UNCHANGED <<switchVars, cmdVars, recVars, capSeq, capPic, lost>>

\* The map's entry goes, whichever action it is by now.
CaptureBegin(a) ==
  /\ cap[a] = "fired"
  /\ pending' = Nothing
  /\ CapGoes(a, IF frameSeq = capSeq[a] THEN "asking" ELSE "done")
  /\ UNCHANGED <<switchVars, cmdVars, recVars, capSeq, capPic, lost>>

CaptureShot(a) ==
  /\ cap[a] = "asking" /\ CapGoes(a, "shot")
  /\ capPic' = [capPic EXCEPT ![a] = screen]
  /\ UNCHANGED <<switchVars, cmdVars, recVars, pending, capSeq, lost>>

\* MUTANT of CaptureFails: tries again.
BugCaptureFails(a) ==
  /\ cap[a] = "asking" /\ CapGoes(a, "fired")
  /\ lost' = TRUE
  /\ UNCHANGED <<switchVars, cmdVars, recVars, pending, capSeq, capPic>>

\* Offline, asleep or screenshot not exposed: nothing is sent.
CaptureSkipped(a) ==
  /\ cap[a] = "asking" /\ CapGoes(a, "done")
  /\ lost' = TRUE
  /\ UNCHANGED <<switchVars, cmdVars, recVars, pending, capSeq, capPic>>

\* Denied by the gate or the device, or no answer in time: Send's observer records
\* the failed command, which has no picture.
CaptureFails(a) ==
  /\ cap[a] = "asking" /\ CapGoes(a, "done")
  /\ lost' = TRUE
  /\ queue' = IF flag /\ Len(queue) < Buffer THEN Append(queue, Rec(a, "replay", Nothing, FALSE)) ELSE queue
  /\ UNCHANGED <<switchVars, cmdVars, hand, timeline, frameSeq, lastPic, pending, capSeq, capPic>>

\* The capture went through Send, whose observer records it like any command.
CaptureObserve(a) ==
  /\ cap[a] = "shot" /\ CapGoes(a, "replied")
  /\ IF flag THEN Enqueue(Rec(a, "replay", capPic[a], TRUE)) ELSE UNCHANGED <<queue, lost>>
  /\ UNCHANGED <<switchVars, cmdVars, hand, timeline, frameSeq, lastPic, pending, capSeq, capPic>>

\* Then capture records it itself, whatever the flag says.
CaptureRecord(a) ==
  /\ cap[a] = "replied" /\ CapGoes(a, "done")
  /\ Enqueue(Rec(a, "replay", capPic[a], TRUE))
  /\ UNCHANGED <<switchVars, cmdVars, hand, timeline, frameSeq, lastPic, pending, capSeq, capPic>>

-----------------------------------------------------------------------------
Command(c) == Mirror(c) \/ Execute(c) \/ CommandFails(c) \/ Observe(c)
Writer     == Write \/ NoteFrame \/ Schedule
Capture(a) == Fire(a) \/ CaptureBegin(a) \/ CaptureShot(a) \/ CaptureSkipped(a) \/ CaptureFails(a)
              \/ CaptureObserve(a) \/ CaptureRecord(a)

RecorderNext ==
  \/ Switch \/ SwitchLive
  \/ \E c \in Cmds : Resolve(c) \/ Command(c)
  \/ Writer
  \/ \E a \in Acts : Capture(a)

RecorderSpec == RecorderInit /\ [][RecorderNext]_recorderVars

(***************************************************************************)
(* Goroutines run on, commands end (Send has a timeout), timers fire.      *)
(***************************************************************************)
RecorderFairness ==
  /\ WF_recorderVars(SwitchLive) /\ WF_recorderVars(Writer)
  /\ \A c \in Cmds : WF_recorderVars(Command(c))
  /\ \A a \in Acts : WF_recorderVars(Capture(a))

RecorderFairSpec == RecorderSpec /\ RecorderFairness

-----------------------------------------------------------------------------
RecorderTypeOK ==
  /\ setting \in BOOLEAN /\ flag \in BOOLEAN
  /\ owner \in {"idle", "stored"} /\ switches \in 0 .. MaxSwitches
  /\ phase \in [Cmds -> {"idle", "resolved", "sent", "answered", "done"}]
  /\ seen \in [Cmds -> BOOLEAN] /\ turn \in [Cmds -> Nat] /\ pic \in [Cmds -> Pics] /\ screen \in Nat
  /\ queue \in Seq(Recs) /\ Len(queue) =< Buffer
  /\ hand \in Recs \cup {Nothing} /\ timeline \in Seq(Recs)
  /\ frameSeq \in Nat /\ lastPic \in Pics
  /\ pending \in Acts \cup {Nothing}
  /\ cap \in [Acts -> {"none", "armed", "stopped", "fired", "asking", "shot", "replied", "done"}]
  /\ capSeq \in [Acts -> Nat] /\ capPic \in [Acts -> Pics]
  /\ lost \in BOOLEAN

Busy(a)  == cap[a] \in {"armed", "fired", "asking", "shot", "replied"}
AtRest ==
  /\ queue = <<>> /\ hand = Nothing
  /\ \A c \in Cmds : phase[c] \in {"idle", "done"}
  /\ \A a \in Acts : ~ Busy(a)

(***************************************************************************)
(* A session reads [frame] --tap--> [frame after] (replay.go:14-18): when  *)
(* nothing was lost and the recorder has come to rest, every recorded      *)
(* action has a frame after it on the timeline, or the frame before it     *)
(* already showed what it did.  Bursts, agents' own screenshots, captures  *)
(* under way and both copies of a capture come in any order.               *)
(***************************************************************************)
Shown(i) ==
  \/ \E j \in i + 1 .. Len(timeline) : timeline[j].shot
  \/ \E j \in 1 .. i - 1 : timeline[j].shot /\ timeline[j].pic >= timeline[i].pic
FrameFollows ==
  /\ RecorderTypeOK
  /\ AtRest /\ ~ lost =>
       \A i \in 1 .. Len(timeline) :
         ~ timeline[i].shot /\ timeline[i].cmd \in Acts /\ timeline[i].pic # Nothing => Shown(i)

(***************************************************************************)
(* Off is heeded: a command whose own Resolve found recording off leaves   *)
(* no row, and no picture of what it did is taken, also while the owner's  *)
(* request has stored the setting and not mirrored it yet -- unless the    *)
(* owner has switched since, or a command that had read the row before the *)
(* change mirrored the older value after it (resolver.go:74, conn.go:441). *)
(***************************************************************************)
Recorded(c) ==
  \/ \E n \in DOMAIN queue : queue[n].cmd = c
  \/ \E i \in DOMAIN timeline : timeline[i].cmd = c
Mirrored(c) == phase[c] \notin {"idle", "resolved"}
Overtaken(c) == \E d \in Cmds : Mirrored(d) /\ seen[d] /\ turn[d] < turn[c]
OffIsHeeded ==
  \A c \in Cmds : Recorded(c) /\ ~ seen[c] => switches > turn[c] \/ Overtaken(c)

(***************************************************************************)
(* The one place where observability sends commands does not feed itself:  *)
(* whatever fails, the recorder comes to rest (replay.go:20-23, 354-361).  *)
(***************************************************************************)
Rests == <>[]AtRest
=============================================================================

----------------------------- MODULE StreamLane -----------------------------
(***************************************************************************)
(* The tunnel lane of one device connection: OpenStream, the Stream it     *)
(* returns and its teardown (relay/conn.go, relay/stream.go), CloseStreams *)
(* and the setCapabilities handler that calls it (relay/gate.go,           *)
(* api/api.go), the bridge that reads the stream (connect/handler.go) and  *)
(* the device's answer side (linux/internal/agent/tunnel.go).              *)
(*                                                                         *)
(* A stream s is one call of OpenStream.  Payloads from the device are     *)
(* numbered; bytes towards the device are left out.                        *)
(***************************************************************************)
EXTENDS Naturals, Sequences

CONSTANTS
  Streams,
  Caps,        \* the capabilities a stream may be opened under
  Need,        \* the one each stream is opened under
  Admins,      \* requests that replace the device's capabilities
  Buffer,      \* capacity of Stream.in
  MaxData      \* BOUND: payloads a device sends on one stream

ASSUME NeedAssumption == Need \in [Streams -> Caps]
ASSUME BufferAssumption == Buffer \in Nat \ {0} /\ MaxData \in Nat

VARIABLES
  \* the store and the requests that change it
  granted,   \* what the device exposes
  apc, prev, next, sweep,   \* per request: step, set read, new set, streams to close
  found,     \* found[a]: streams that were in the table when a persisted its set
  \* the connection
  hub,       \* Hub.Get returns this connection
  up,        \* the socket carries frames
  tear,      \* how far closeWith has got
  doomed,    \* streams closeWith still has to finish
  table,     \* DeviceConn.streams
  pump, held, \* the ReadPump, and the payload or stream it is busy with
  \* the streams
  opc, fin, cause, inbox, got, ended,
  \* the wire and the device: Tunnel.conns, the readLoops, payloads sent
  toDev, toSrv, dconns, loops, dsent

adminVars  == <<granted, apc, prev, next, sweep, found>>
connVars   == <<hub, up, tear, doomed, table, pump, held>>
streamVars == <<opc, fin, cause, inbox, got, ended>>
devVars    == <<toDev, toSrv, dconns, loops, dsent>>
vars == <<adminVars, connVars, streamVars, devVars>>

Cause   == {"none", "eofDevice", "eofLocal", "error", "gone"}
FrameTo == [t : {"open", "close"}, s : Streams]
FrameFrom == [t : {"data", "eof", "error"}, s : Streams, n : 0..MaxData]
Busy == [s : Streams, n : 0..MaxData]

Closed == tear # "no"      \* DeviceConn.closed

Init ==
  /\ granted = Caps
  /\ apc = [a \in Admins |-> "idle"]
  /\ prev = [a \in Admins |-> {}] /\ next = [a \in Admins |-> {}]
  /\ sweep = [a \in Admins |-> {}] /\ found = [a \in Admins |-> {}]
  /\ hub = TRUE /\ up = TRUE /\ tear = "no" /\ doomed = {} /\ table = {}
  /\ pump = "reading" /\ held \in [s : Streams, n : {0}]
  /\ opc = [s \in Streams |-> "idle"]
  /\ fin = [s \in Streams |-> "no"]
  /\ cause = [s \in Streams |-> "none"]
  /\ inbox = [s \in Streams |-> << >>]
  /\ got = [s \in Streams |-> 0]
  /\ ended = [s \in Streams |-> "none"]
  /\ toDev = << >> /\ toSrv = << >>
  /\ dconns = {} /\ loops = {} /\ dsent = [s \in Streams |-> 0]

-----------------------------------------------------------------------------
(***************************************************************************)
(* Stream.finish: closeOnce.Do {cause; CLOSE frame; removeStream;          *)
(* close(closed)}.  Later callers wait for the first one.                  *)
(***************************************************************************)

Finish(s, why, sendClose) ==
  /\ fin[s] = "no"
  /\ fin' = [fin EXCEPT ![s] = "busy"]
  /\ cause' = [cause EXCEPT ![s] = why]
  /\ toDev' = IF sendClose /\ up THEN Append(toDev, [t |-> "close", s |-> s]) ELSE toDev

FinishRemove(s) ==
  /\ fin[s] = "busy"
  /\ table' = table \ {s}
  /\ fin' = [fin EXCEPT ![s] = "removed"]
  /\ UNCHANGED <<adminVars, hub, up, tear, doomed, pump, held, opc, cause, inbox, got, ended, devVars>>

\* MUTANT of FinishSignal: the waiters go on with the entry still in the table.
BugSignal(s) ==
  /\ fin[s] \in {"busy", "removed"}
  /\ fin' = [fin EXCEPT ![s] = "done"]
  /\ UNCHANGED <<adminVars, connVars, opc, cause, inbox, got, ended, devVars>>

FinishSignal(s) ==
  /\ fin[s] = "removed"
  /\ fin' = [fin EXCEPT ![s] = "done"]
  /\ UNCHANGED <<adminVars, connVars, opc, cause, inbox, got, ended, devVars>>

-----------------------------------------------------------------------------
(***************************************************************************)
(* OpenStream and the bridge                                               *)
(***************************************************************************)

\* The gate reads the store, then the closed channel is polled.
Authorize(s) ==
  /\ opc[s] = "idle"
  /\ opc' = [opc EXCEPT ![s] = IF Need[s] \in granted /\ ~Closed THEN "authorized" ELSE "failed"]
  /\ UNCHANGED <<adminVars, connVars, fin, cause, inbox, got, ended, devVars>>

Insert(s) ==
  /\ opc[s] = "authorized"
  /\ table' = table \cup {s}
  /\ opc' = [opc EXCEPT ![s] = "inserted"]
  /\ UNCHANGED <<adminVars, hub, up, tear, doomed, pump, held, fin, cause, inbox, got, ended, devVars>>

\* The OPEN frame; if the write fails the entry is taken out again.
WriteOpen(s) ==
  /\ opc[s] = "inserted"
  /\ \/ /\ up
        /\ toDev' = Append(toDev, [t |-> "open", s |-> s])
        /\ opc' = [opc EXCEPT ![s] = "open"]
        /\ UNCHANGED table
     \/ /\ ~up
        /\ table' = table \ {s}
        /\ opc' = [opc EXCEPT ![s] = "failed"]
        /\ UNCHANGED toDev
  /\ UNCHANGED <<adminVars, hub, up, tear, doomed, pump, held, fin, cause, inbox, got, ended,
                 toSrv, dconns, loops, dsent>>

\* Read: a payload if there is one, buffered before the close or not; else,
\* once closed, the close error.
ReadData(s) ==
  /\ opc[s] = "open" /\ ended[s] = "none" /\ inbox[s] # << >>
  /\ got' = [got EXCEPT ![s] = Head(inbox[s])]
  /\ inbox' = [inbox EXCEPT ![s] = Tail(@)]
  /\ UNCHANGED <<adminVars, connVars, opc, fin, cause, ended, devVars>>

ReadEnd(s) ==
  /\ opc[s] = "open" /\ ended[s] = "none" /\ inbox[s] = << >> /\ fin[s] = "done"
  /\ ended' = [ended EXCEPT ![s] = cause[s]]
  /\ UNCHANGED <<adminVars, connVars, opc, fin, cause, inbox, got, devVars>>

\* The bridge is done: the client went away, or a Read or Write failed.
CloseLocal(s) ==
  /\ opc[s] = "open"
  /\ Finish(s, "eofLocal", TRUE)
  /\ UNCHANGED <<adminVars, connVars, opc, inbox, got, ended, toSrv, dconns, loops, dsent>>

WriteFails(s) ==
  /\ opc[s] = "open" /\ ~up
  /\ Finish(s, "gone", FALSE)
  /\ UNCHANGED <<adminVars, connVars, opc, inbox, got, ended, toSrv, dconns, loops, dsent>>

-----------------------------------------------------------------------------
(***************************************************************************)
(* ReadPump on a binary frame                                              *)
(***************************************************************************)

PumpRead ==
  /\ pump = "reading" /\ tear \in {"no", "marked"} /\ toSrv # << >>
  /\ LET f == Head(toSrv) IN
       /\ held' = [s |-> f.s, n |-> f.n]
       /\ \/ f.s \notin table /\ UNCHANGED <<pump, fin, cause, toDev>>
          \/ /\ f.s \in table /\ f.t = "data"
             /\ pump' = "deliver"
             /\ UNCHANGED <<fin, cause, toDev>>
          \/ /\ f.s \in table /\ f.t # "data"
             /\ pump' = "finish"
             /\ \/ Finish(f.s, IF f.t = "eof" THEN "eofDevice" ELSE "error", FALSE)
                \/ fin[f.s] # "no" /\ UNCHANGED <<fin, cause, toDev>>
  /\ toSrv' = Tail(toSrv)
  /\ UNCHANGED <<adminVars, hub, up, tear, doomed, table, opc, inbox, got, ended, dconns, loops, dsent>>

\* deliver: into the buffer, blocking while it is full ...
PumpDeliver ==
  /\ pump = "deliver" /\ Len(inbox[held.s]) < Buffer
  /\ inbox' = [inbox EXCEPT ![held.s] = Append(@, held.n)]
  /\ pump' = "reading"
  /\ UNCHANGED <<adminVars, hub, up, tear, doomed, table, held, opc, fin, cause, got, ended, devVars>>

\* MUTANT of PumpDrops: deliver only waits for the buffer.
BugNoGiveUp == FALSE

\* ... unless the stream closes meanwhile.
PumpDrops ==
  /\ pump = "deliver" /\ fin[held.s] = "done"
  /\ pump' = "reading"
  /\ UNCHANGED <<adminVars, hub, up, tear, doomed, table, held, streamVars, devVars>>

PumpFinished ==
  /\ pump = "finish" /\ fin[held.s] = "done"
  /\ pump' = "reading"
  /\ UNCHANGED <<adminVars, hub, up, tear, doomed, table, held, streamVars, devVars>>

\* A second text reply for one waiter: its one-slot channel is full and nothing
\* else empties it, a close of the connection neither.
PumpBlocks ==
  /\ pump = "reading" /\ tear \in {"no", "marked"}
  /\ pump' = "blocked"
  /\ UNCHANGED <<adminVars, hub, up, tear, doomed, table, held, streamVars, devVars>>

\* The waiter, had it not returned yet, takes its reply.
PumpUnblocks ==
  /\ pump = "blocked"
  /\ pump' = "reading"
  /\ UNCHANGED <<adminVars, hub, up, tear, doomed, table, held, streamVars, devVars>>

\* Read fails; the deferred close waits for the teardown to
\* complete, then the hub forgets the connection.
PumpEnds ==
  /\ pump = "reading" /\ ~up /\ tear = "done"
  /\ pump' = "done"
  /\ hub' = FALSE
  /\ UNCHANGED <<adminVars, up, tear, doomed, table, held, streamVars, devVars>>

-----------------------------------------------------------------------------
(***************************************************************************)
(* closeWith: close(closed), close the socket, snapshot the streams, then  *)
(* finish each.  By the ping loop, an eviction, a kick or the ReadPump.    *)
(***************************************************************************)

TearMark ==
  /\ tear = "no"
  /\ tear' = "marked"
  /\ UNCHANGED <<adminVars, hub, up, doomed, table, pump, held, streamVars, devVars>>

\* A newer connection takes the hub entry; it closes this one next.
Replaced ==
  /\ hub
  /\ hub' = FALSE
  /\ UNCHANGED <<adminVars, up, tear, doomed, table, pump, held, streamVars, devVars>>

TearCut ==
  /\ tear = "marked"
  /\ tear' = "cut"
  /\ up' = FALSE
  /\ UNCHANGED <<adminVars, hub, doomed, table, pump, held, streamVars, devVars>>

\* MUTANT of TearSnapshot: the streams are listed before the socket is closed.
BugSnapshot ==
  /\ tear = "marked"
  /\ tear' = "sweeping"
  /\ doomed' = table
  /\ UNCHANGED <<adminVars, hub, up, table, pump, held, streamVars, devVars>>

TearSnapshot ==
  /\ tear = "cut"
  /\ tear' = "sweeping"
  /\ doomed' = table
  /\ UNCHANGED <<adminVars, hub, up, table, pump, held, streamVars, devVars>>

TearStream(s) ==
  /\ tear = "sweeping" /\ s \in doomed
  /\ \/ Finish(s, "gone", FALSE) /\ UNCHANGED doomed
     \/ fin[s] = "done" /\ doomed' = doomed \ {s} /\ UNCHANGED <<fin, cause, toDev>>
  /\ UNCHANGED <<adminVars, hub, up, tear, table, pump, held, opc, inbox, got, ended, toSrv, dconns, loops, dsent>>

TearDone ==
  /\ tear = "sweeping" /\ doomed = {}
  /\ tear' = "done"
  /\ UNCHANGED <<adminVars, hub, up, doomed, table, pump, held, streamVars, devVars>>

LinkDrops ==
  /\ up
  /\ up' = FALSE
  /\ UNCHANGED <<adminVars, hub, tear, doomed, table, pump, held, streamVars, devVars>>

-----------------------------------------------------------------------------
(***************************************************************************)
(* setCapabilities: read the old set, persist the new one, and if that     *)
(* takes tunnel or SSH away, close every stream                            *)
(***************************************************************************)

ReadPrev(a) ==
  /\ apc[a] = "idle"
  /\ \E n \in SUBSET Caps : next' = [next EXCEPT ![a] = n]
  /\ prev' = [prev EXCEPT ![a] = granted]
  /\ apc' = [apc EXCEPT ![a] = "read"]
  /\ UNCHANGED <<granted, sweep, found, connVars, streamVars, devVars>>

Revokes(a) == ~ (prev[a] \subseteq next[a])

Persist(a) ==
  /\ apc[a] = "read"
  /\ \/ /\ granted' = next[a]
        /\ found' = [found EXCEPT ![a] = table]
        /\ apc' = [apc EXCEPT ![a] = IF Revokes(a) THEN "persisted" ELSE "done"]
     \/ /\ apc' = [apc EXCEPT ![a] = "failed"]
        /\ UNCHANGED <<granted, found>>
  /\ UNCHANGED <<prev, next, sweep, connVars, streamVars, devVars>>

\* CloseStreams, if the hub knows the connection: snapshot the table ...
SweepSnapshot(a) ==
  /\ apc[a] = "persisted"
  /\ sweep' = [sweep EXCEPT ![a] = IF hub THEN table ELSE {}]
  /\ apc' = [apc EXCEPT ![a] = "sweeping"]
  /\ UNCHANGED <<granted, prev, next, found, connVars, streamVars, devVars>>

\* ... and Close each stream, outside the lock.
SweepStream(a, s) ==
  /\ apc[a] = "sweeping" /\ s \in sweep[a]
  /\ \/ Finish(s, "eofLocal", TRUE) /\ UNCHANGED sweep
     \/ /\ fin[s] = "done"
        /\ sweep' = [sweep EXCEPT ![a] = @ \ {s}]
        /\ UNCHANGED <<fin, cause, toDev>>
  /\ UNCHANGED <<granted, apc, prev, next, found, connVars, opc, inbox, got, ended,
                 toSrv, dconns, loops, dsent>>

\* MUTANT of SweepDone: the streams are closed in the background.
BugSweepAsync(a) ==
  /\ apc[a] = "sweeping"
  /\ apc' = [apc EXCEPT ![a] = "done"]
  /\ UNCHANGED <<granted, prev, next, sweep, found, connVars, streamVars, devVars>>

SweepDone(a) ==
  /\ apc[a] = "sweeping" /\ sweep[a] = {}
  /\ apc' = [apc EXCEPT ![a] = "done"]
  /\ UNCHANGED <<granted, prev, next, sweep, found, connVars, streamVars, devVars>>

-----------------------------------------------------------------------------
(***************************************************************************)
(* The device: one frame at a time, a goroutine per open stream            *)
(***************************************************************************)

Emit(t, s, n) == toSrv' = IF up THEN Append(toSrv, [t |-> t, s |-> s, n |-> n]) ELSE toSrv

\* OPEN: dial the target, or refuse with a reason.
DeviceOpen ==
  /\ toDev # << >> /\ Head(toDev).t = "open"
  /\ \/ /\ dconns' = dconns \cup {Head(toDev).s}
        /\ loops' = loops \cup {Head(toDev).s}
        /\ UNCHANGED toSrv
     \/ Emit("error", Head(toDev).s, 0) /\ UNCHANGED <<dconns, loops>>
  /\ toDev' = Tail(toDev)
  /\ UNCHANGED <<adminVars, connVars, streamVars, dsent>>

DeviceClose ==
  /\ toDev # << >> /\ Head(toDev).t = "close"
  /\ dconns' = dconns \ {Head(toDev).s}
  /\ toDev' = Tail(toDev)
  /\ UNCHANGED <<adminVars, connVars, streamVars, toSrv, loops, dsent>>

\* readLoop: bytes from the target, also read before the stream was closed ...
DeviceData(s) ==
  /\ s \in loops /\ dsent[s] < MaxData
  /\ dsent' = [dsent EXCEPT ![s] = @ + 1]
  /\ Emit("data", s, dsent[s] + 1)
  /\ UNCHANGED <<adminVars, connVars, streamVars, toDev, dconns, loops>>

\* ... or the end of them: emitClose, quiet if the stream was closed before.
DeviceEnds(s) ==
  /\ s \in loops
  /\ loops' = loops \ {s}
  /\ dconns' = dconns \ {s}
  /\ IF s \in dconns THEN Emit("eof", s, 0) ELSE UNCHANGED toSrv
  /\ UNCHANGED <<adminVars, connVars, streamVars, toDev, dsent>>

\* The device's read fails: closeAll.
DeviceGone ==
  /\ ~up /\ dconns # {}
  /\ dconns' = {} /\ toDev' = << >>
  /\ UNCHANGED <<adminVars, connVars, streamVars, toSrv, loops, dsent>>

-----------------------------------------------------------------------------
StreamStep(s) ==
  \/ Authorize(s) \/ Insert(s) \/ WriteOpen(s) \/ ReadData(s) \/ ReadEnd(s)
  \/ CloseLocal(s) \/ WriteFails(s) \/ FinishRemove(s) \/ FinishSignal(s)
PumpStep == PumpRead \/ PumpDeliver \/ PumpDrops \/ PumpFinished \/ PumpEnds
PumpNext == PumpStep \/ PumpBlocks \/ PumpUnblocks
TearStep == TearMark \/ Replaced \/ TearCut \/ TearSnapshot \/ TearDone \/ LinkDrops \/ \E s \in Streams : TearStream(s)
AdminStep(a) ==
  \/ ReadPrev(a) \/ Persist(a) \/ SweepSnapshot(a) \/ SweepDone(a)
  \/ \E s \in Streams : SweepStream(a, s)
DeviceStep == DeviceOpen \/ DeviceClose \/ DeviceGone \/ \E s \in Streams : DeviceData(s) \/ DeviceEnds(s)

Next ==
  \/ \E s \in Streams : StreamStep(s)
  \/ \E a \in Admins : AdminStep(a)
  \/ PumpNext \/ TearStep \/ DeviceStep

Spec == Init /\ [][Next]_vars

(***************************************************************************)
(* The server's goroutines run on, but for a pump that is blocked at a     *)
(* waiter's channel; nobody is obliged to read a stream, to open or close  *)
(* one, or to send anything.  The handler that replaced a connection goes  *)
(* on to close it.                                                         *)
(***************************************************************************)
Fairness ==
  /\ \A s \in Streams : /\ WF_vars(Insert(s)) /\ WF_vars(WriteOpen(s))
                        /\ WF_vars(FinishRemove(s)) /\ WF_vars(FinishSignal(s))
                        /\ WF_vars(TearStream(s))
  /\ WF_vars(PumpStep)
  /\ WF_vars(~hub /\ TearMark) /\ WF_vars(TearCut) /\ WF_vars(TearSnapshot) /\ WF_vars(TearDone)

FairSpec == Spec /\ Fairness

-----------------------------------------------------------------------------
TypeOK ==
  /\ granted \subseteq Caps
  /\ apc \in [Admins -> {"idle", "read", "persisted", "sweeping", "done", "failed"}]
  /\ prev \in [Admins -> SUBSET Caps] /\ next \in [Admins -> SUBSET Caps]
  /\ sweep \in [Admins -> SUBSET Streams] /\ found \in [Admins -> SUBSET Streams]
  /\ hub \in BOOLEAN /\ up \in BOOLEAN
  /\ tear \in {"no", "marked", "cut", "sweeping", "done"}
  /\ doomed \subseteq Streams /\ table \subseteq Streams
  /\ pump \in {"reading", "deliver", "finish", "blocked", "done"} /\ held \in Busy
  /\ opc \in [Streams -> {"idle", "authorized", "inserted", "open", "failed"}]
  /\ fin \in [Streams -> {"no", "busy", "removed", "done"}]
  /\ cause \in [Streams -> Cause] /\ ended \in [Streams -> Cause]
  /\ inbox \in [Streams -> Seq(0..MaxData)] /\ \A s \in Streams : Len(inbox[s]) <= Buffer
  /\ got \in [Streams -> 0..MaxData]
  /\ toDev \in Seq(FrameTo) /\ toSrv \in Seq(FrameFrom)
  /\ dconns \subseteq Streams /\ loops \subseteq Streams /\ dsent \in [Streams -> 0..MaxData]

(***************************************************************************)
(* A stream never skips bytes: what Read has returned and what is buffered *)
(* is a prefix of what the device sent, also while the stream is closing   *)
(* and the pump gives a payload up (stream.go:116-121).                    *)
(***************************************************************************)
NoGap ==
  \A s \in Streams : \A i \in DOMAIN inbox[s] : inbox[s][i] = got[s] + i

(***************************************************************************)
(* End of stream means all of it: a reader that sees the device's clean    *)
(* close has been given every byte the device sent (stream.go:53-54).      *)
(***************************************************************************)
EofIsComplete ==
  \A s \in Streams : ended[s] = "eofDevice" => got[s] = dsent[s]

(***************************************************************************)
(* Once a connection has been torn down every stream it handed out is      *)
(* closed or closing, even one whose OpenStream overlapped the teardown:   *)
(* its reader would wait for ever (conn.go:833-843).                       *)
(***************************************************************************)
NoOrphanStream ==
  tear = "done" => \A s \in Streams : opc[s] = "open" => fin[s] \in {"removed", "done"}

(***************************************************************************)
(* A revocation has cut every stream that was in the table when it was     *)
(* persisted by the time its request returns (api.go:538-546), unless a    *)
(* newer connection had taken the device over: its eviction ends them.     *)
(***************************************************************************)
RevocationCuts ==
  \A a \in Admins : apc[a] = "done" /\ Revokes(a) =>
    \A s \in found[a] : fin[s] \in {"removed", "done"} \/ opc[s] = "failed" \/ ~hub

(***************************************************************************)
(* docs/capabilities.md:55: narrowing "takes effect immediately, including *)
(* on sessions already running: revoking the tunnel closes open streams":  *)
(* with no capability change in progress, a live stream is one the device  *)
(* exposes.                                                                *)
(***************************************************************************)
LiveStreamsAllowed ==
  (\A a \in Admins : apc[a] \in {"idle", "done", "failed"}) =>
    \A s \in Streams : opc[s] = "open" /\ fin[s] = "no" => Need[s] \in granted

(***************************************************************************)
(* Closing a stream releases the device's socket to the target: once the   *)
(* device has read what was sent to it, it bridges no stream that the      *)
(* server has closed (stream.go:97: Close "tears the stream down and       *)
(* notifies the device").  CloseStreams is the exception: it can close a   *)
(* stream whose OPEN is not written yet, and the device reads CLOSE first. *)
(***************************************************************************)
DeviceReleased ==
  up /\ toDev = << >> /\ (\A a \in Admins : apc[a] \notin {"sweeping", "done"}) =>
    \A s \in dconns : opc[s] = "open" /\ fin[s] = "done" => cause[s] \in {"error", "gone"}

(***************************************************************************)
(* Teardown completes: however full the buffer of a stream is, and         *)
(* whichever stream holds up the pump, closing the connection ends every   *)
(* stream of it, also when the pump is blocked at a waiter's channel, and  *)
(* the pump unless it stays blocked there, which no close helps            *)
(* (conn.go:752, 833-843; stream.go:116-123).                              *)
(***************************************************************************)
TeardownCompletes ==
  Closed ~> /\ pump \in {"done", "blocked"}
            /\ \A s \in Streams : opc[s] = "open" => fin[s] = "done"

(***************************************************************************)
(* What Read returns is what the device sent, in order, and all of it at a *)
(* clean end.                                                              *)
(***************************************************************************)
Ordered == TypeOK /\ NoGap /\ EofIsComplete

(***************************************************************************)
(* Nobody is left holding a stream: no reader after a teardown, no target  *)
(* socket after a close.                                                   *)
(***************************************************************************)
Released == NoOrphanStream /\ DeviceReleased
=============================================================================

----------------------------- MODULE DeviceCall -----------------------------
(***************************************************************************)
(* One device's command lane: DeviceConn.Send and SendComputer on the      *)
(* server (relay/conn.go), the read pump that routes replies back by id,   *)
(* and the Linux agent at the far end (linux/internal/agent), whose        *)
(* command goroutines reply on whatever socket is current when they        *)
(* finish.                                                                 *)
(*                                                                         *)
(* The device dials sockets 1, 2, ... in turn; each gets a DeviceConn of   *)
(* its own, whose command numbers start again at 1.  A command or a reply  *)
(* is the record [key, call]: key is the id on the wire, call the Send it  *)
(* was made for, which no program reads and only the properties look at.   *)
(***************************************************************************)
EXTENDS Naturals, Sequences, FiniteSets

CONSTANTS
  Calls,       \* invocations of Send and SendComputer
  Computer,    \* those of SendComputer
  Tid,         \* the transport id the caller chose for each of those
  MaxConn,     \* BOUND: sockets the device ever dials
  MaxCalls,    \* BOUND: calls that ever begin
  NoCall

ASSUME CallsAssumption == NoCall \notin Calls /\ Computer \subseteq Calls
ASSUME ConnAssumption == MaxConn \in Nat /\ MaxCalls \in Nat
\* Any id at all, the number of a Send too: 0 only says that a call has no
\* id yet, and stands for none, since Send counts from 1.
ASSUME TidAssumption == DOMAIN Tid = Computer /\ \A c \in Computer : Tid[c] # 0

VARIABLES
  \* the server
  conn,      \* sockets dialed so far
  hub,       \* the DeviceConn the hub hands out, 0 for none
  closed,    \* closed[k]: DeviceConn k's closed channel
  seq,       \* seq[k]: its command counter
  pending,   \* pending[k]: its waiters, a set of [key, call] used as a map
  pump,      \* pump[k]: its ReadPump
  stuck,     \* stuck[k]: the send "ch <- reply" a blocked pump is stuck in:
             \* the reply to call "by", on the channel of call "to"
  toSrv,     \* toSrv[k]: frames the device wrote on socket k
  \* the calls
  pc, on, key, box, outcome, answer,
  \* the device
  cur,       \* the agent's current socket, 0 for none
  toDev,     \* toDev[k]: frames the server wrote on socket k
  jobs,      \* command goroutines that have not replied yet
  ran,       \* ran[c]: how often the device executed the command of c
  refused    \* calls it turned down: paused, or a method it does not expose

serverVars == <<conn, hub, closed, seq, pending, pump, stuck>>
callVars   == <<pc, on, key, box, outcome, answer>>
deviceVars == <<cur, jobs, ran, refused>>
wire       == <<toDev, toSrv>>
vars == <<serverVars, callVars, deviceVars, wire>>

Socks == 1..MaxConn
Keys  == Nat \cup {Tid[c] : c \in Computer}
Frame == [key : Keys, call : Calls]
NoSend == [by |-> NoCall, to |-> NoCall]

CallState == {"idle", "got", "ready", "waiting", "leaving", "done"}
Outcome   == {"none", "reply", "timeout", "gone", "rejected"}

LinkUp(k) == cur = k

Init ==
  /\ conn = 0 /\ hub = 0 /\ cur = 0
  /\ closed = [k \in Socks |-> FALSE]
  /\ seq = [k \in Socks |-> 0]
  /\ pending = [k \in Socks |-> {}]
  /\ pump = [k \in Socks |-> "off"]
  /\ stuck = [k \in Socks |-> NoSend]
  /\ toSrv = [k \in Socks |-> << >>]
  /\ toDev = [k \in Socks |-> << >>]
  /\ jobs = {} /\ ran = [c \in Calls |-> 0] /\ refused = {}
  /\ pc = [c \in Calls |-> "idle"]
  /\ on = [c \in Calls |-> 0]
  /\ key = [c \in Calls |-> 0]
  /\ box = [c \in Calls |-> NoCall]
  /\ outcome = [c \in Calls |-> "none"]
  /\ answer = [c \in Calls |-> NoCall]

-----------------------------------------------------------------------------
(***************************************************************************)
(* DeviceConn.Send, one action per step another goroutine can see          *)
(***************************************************************************)

Begun == {c \in Calls : pc[c] # "idle"}

\* The caller resolves the device to the connection the hub holds now.
GetConn(c) ==
  /\ pc[c] = "idle" /\ hub # 0
  /\ Cardinality(Begun) < MaxCalls
  /\ on' = [on EXCEPT ![c] = hub]
  /\ pc' = [pc EXCEPT ![c] = "got"]
  /\ UNCHANGED <<serverVars, key, box, outcome, answer, deviceVars, wire>>

Return(c, next, why) ==
  /\ pc' = [pc EXCEPT ![c] = next]
  /\ outcome' = [outcome EXCEPT ![c] = why]

\* Before anything is sent: the gate denies the command, the connection is
\* closed already, or a computer deadline is in the past.
Abort(c) ==
  /\ pc[c] = "got"
  /\ \/ Return(c, "done", "rejected")
     \/ closed[on[c]] /\ Return(c, "done", "gone")
     \/ c \in Computer /\ Return(c, "done", "timeout")
  /\ UNCHANGED <<serverVars, on, key, box, answer, deviceVars, wire>>

\* Map insertion: an entry already under this key is overwritten.
Insert(p, i, c) == {e \in p : e.key # i} \cup {[key |-> i, call |-> c]}
Delete(p, i)    == {e \in p : e.key # i}

\* Send numbers the command and registers its one-slot reply channel, without
\* looking: a computer call that chose this very number loses its entry.
Register(c) ==
  /\ pc[c] = "got" /\ c \notin Computer /\ ~closed[on[c]]
  /\ LET k == on[c]
         i == seq[k] + 1
     IN  /\ seq' = [seq EXCEPT ![k] = i]
         /\ key' = [key EXCEPT ![c] = i]
         /\ pending' = [pending EXCEPT ![k] = Insert(@, i, c)]
  /\ pc' = [pc EXCEPT ![c] = "ready"]
  /\ UNCHANGED <<conn, hub, closed, pump, stuck, on, box, outcome, answer, deviceVars, wire>>

\* SendComputer uses the caller's id and refuses one that is in flight.
RegisterComputer(c) ==
  /\ pc[c] = "got" /\ c \in Computer /\ ~closed[on[c]]
  /\ IF \E e \in pending[on[c]] : e.key = Tid[c]
     THEN Return(c, "done", "rejected") /\ UNCHANGED <<key, pending>>
     ELSE /\ key' = [key EXCEPT ![c] = Tid[c]]
          /\ pending' = [pending EXCEPT ![on[c]] = Insert(@, Tid[c], c)]
          /\ pc' = [pc EXCEPT ![c] = "ready"]
          /\ UNCHANGED outcome
  /\ UNCHANGED <<conn, hub, closed, seq, pump, stuck, on, box, answer, deviceVars, wire>>

\* ws.Write.  On a dead link nobody has noticed yet the frame is just lost.
WriteOk(c) ==
  /\ pc[c] = "ready" /\ ~closed[on[c]]
  /\ toDev' = [toDev EXCEPT ![on[c]] =
                 IF LinkUp(on[c]) THEN Append(@, [key |-> key[c], call |-> c]) ELSE @]
  /\ pc' = [pc EXCEPT ![c] = "waiting"]
  /\ UNCHANGED <<serverVars, on, key, box, outcome, answer, deviceVars, toSrv>>

WriteFails(c) ==
  /\ pc[c] = "ready"
  /\ closed[on[c]] \/ ~LinkUp(on[c])
  /\ Return(c, "leaving", "gone")
  /\ UNCHANGED <<serverVars, on, key, box, answer, deviceVars, wire>>

\* The four-way select: a reply, the timer (or the caller's context), closed.
TakeReply(c) ==
  /\ pc[c] = "waiting" /\ box[c] # NoCall
  /\ answer' = [answer EXCEPT ![c] = box[c]]
  /\ box' = [box EXCEPT ![c] = NoCall]
  /\ Return(c, "leaving", "reply")
  /\ UNCHANGED <<serverVars, on, key, deviceVars, wire>>

\* Mutant: no timer.
BugGiveUp(c) ==
  /\ pc[c] = "waiting" /\ closed[on[c]]
  /\ Return(c, "leaving", "gone")
  /\ UNCHANGED <<serverVars, on, key, box, answer, deviceVars, wire>>

GiveUp(c) ==
  /\ pc[c] = "waiting"
  /\ \/ Return(c, "leaving", "timeout")
     \/ closed[on[c]] /\ Return(c, "leaving", "gone")
  /\ UNCHANGED <<serverVars, on, key, box, answer, deviceVars, wire>>

\* Mutant: the waiter is left in the map.
BugLeave(c) ==
  /\ pc[c] = "leaving"
  /\ pc' = [pc EXCEPT ![c] = "done"]
  /\ UNCHANGED <<serverVars, on, key, box, outcome, answer, deviceVars, wire>>

\* The deferred delete of the pending entry, by key, whoever holds it now.
Leave(c) ==
  /\ pc[c] = "leaving"
  /\ pending' = [pending EXCEPT ![on[c]] = Delete(@, key[c])]
  /\ pc' = [pc EXCEPT ![c] = "done"]
  /\ UNCHANGED <<conn, hub, closed, seq, pump, stuck, on, key, box, outcome, answer, deviceVars, wire>>

-----------------------------------------------------------------------------
(***************************************************************************)
(* ReadPump, pingLoop, close                                               *)
(***************************************************************************)

\* The waiter's channel holds one reply; a second one blocks the pump.
Deliver(m, e) ==
  /\ box[e.call] = NoCall
  /\ box' = [box EXCEPT ![e.call] = m.call]
  /\ UNCHANGED <<pump, stuck>>
BlockOn(k, m, e) ==
  /\ box[e.call] # NoCall
  /\ pump' = [pump EXCEPT ![k] = "blocked"]
  /\ stuck' = [stuck EXCEPT ![k] = [by |-> m.call, to |-> e.call]]
  /\ UNCHANGED box

\* Mutant: the reply goes to whoever is waiting.
BugPumpReply(k) ==
  /\ pump[k] = "reading" /\ ~closed[k] /\ toSrv[k] # << >>
  /\ LET m == Head(toSrv[k])
     IN  \/ pending[k] = {} /\ UNCHANGED <<pump, stuck, box>>
         \/ \E e \in pending[k] : Deliver(m, e) \/ BlockOn(k, m, e)
  /\ toSrv' = [toSrv EXCEPT ![k] = Tail(@)]
  /\ UNCHANGED <<conn, hub, closed, seq, pending, pc, on, key, outcome, answer, deviceVars, toDev>>

\* One reply frame: find the waiter under the lock, then send on its channel
\* outside it.  An unknown id is dropped.
PumpReply(k) ==
  /\ pump[k] = "reading" /\ ~closed[k] /\ toSrv[k] # << >>
  /\ LET m == Head(toSrv[k])
         waiter == {e \in pending[k] : e.key = m.key}
     IN  \/ waiter = {} /\ UNCHANGED <<pump, stuck, box>>
         \/ \E e \in waiter : Deliver(m, e) \/ BlockOn(k, m, e)
  /\ toSrv' = [toSrv EXCEPT ![k] = Tail(@)]
  /\ UNCHANGED <<conn, hub, closed, seq, pending, pc, on, key, outcome, answer, deviceVars, toDev>>

\* Send took the first reply, so the slot is free again.
PumpUnblocks(k) ==
  /\ pump[k] = "blocked" /\ box[stuck[k].to] = NoCall
  /\ box' = [box EXCEPT ![stuck[k].to] = stuck[k].by]
  /\ pump' = [pump EXCEPT ![k] = "reading"]
  /\ UNCHANGED <<conn, hub, closed, seq, pending, stuck, pc, on, key, outcome, answer, deviceVars, wire>>

\* Read fails: deferred close, then the handler's Hub.Remove.
PumpEnds(k) ==
  /\ pump[k] = "reading"
  /\ closed[k] \/ ~LinkUp(k)
  /\ pump' = [pump EXCEPT ![k] = "done"]
  /\ closed' = [closed EXCEPT ![k] = TRUE]
  /\ hub' = IF hub = k THEN 0 ELSE hub
  /\ UNCHANGED <<conn, seq, pending, stuck, callVars, deviceVars, wire>>

\* Eviction by a newer socket, or the ping loop: no pong comes back over a
\* dead link, nor while the pump is stuck and nobody reads the socket.
Close(k) ==
  /\ pump[k] \in {"reading", "blocked"} /\ ~closed[k]
  /\ hub # k \/ ~LinkUp(k) \/ pump[k] = "blocked"
  /\ closed' = [closed EXCEPT ![k] = TRUE]
  /\ UNCHANGED <<conn, hub, seq, pending, pump, stuck, callVars, deviceVars, wire>>

-----------------------------------------------------------------------------
(***************************************************************************)
(* The device                                                              *)
(***************************************************************************)

\* run/serve: dial again; the server registers the new socket at once.
Dial ==
  /\ cur = 0 /\ conn < MaxConn
  /\ conn' = conn + 1
  /\ cur' = conn + 1
  /\ hub' = conn + 1
  /\ pump' = [pump EXCEPT ![conn + 1] = "reading"]
  /\ UNCHANGED <<closed, seq, pending, stuck, callVars, jobs, ran, refused, wire>>

\* The link drops, or the server's close reaches the device: serve returns.
Drop ==
  /\ cur # 0
  /\ toDev' = [toDev EXCEPT ![cur] = << >>]
  /\ cur' = 0
  /\ UNCHANGED <<serverVars, callVars, jobs, ran, refused, toSrv>>

\* sendText: onto the socket that is current now, or nowhere.
Reply(m) ==
  toSrv' = [k \in Socks |-> IF k = cur THEN Append(toSrv[k], m) ELSE toSrv[k]]

\* handleText: a goroutine per command ...
Receive ==
  /\ cur # 0 /\ toDev[cur] # << >>
  /\ jobs' = jobs \cup {Head(toDev[cur])}
  /\ toDev' = [toDev EXCEPT ![cur] = Tail(@)]
  /\ UNCHANGED <<serverVars, callVars, cur, ran, refused, toSrv>>

\* ... unless the device is paused or does not expose the method.
Refuse ==
  /\ cur # 0 /\ toDev[cur] # << >>
  /\ Reply(Head(toDev[cur]))
  /\ refused' = refused \cup {Head(toDev[cur]).call}
  /\ toDev' = [toDev EXCEPT ![cur] = Tail(@)]
  /\ UNCHANGED <<serverVars, callVars, cur, jobs, ran>>

\* Mutant: a command stays queued after it ran.
BugExecute(m) ==
  /\ m \in jobs
  /\ ran' = [ran EXCEPT ![m.call] = @ + 1]
  /\ Reply(m)
  /\ UNCHANGED <<serverVars, callVars, cur, jobs, refused, toDev>>

\* The dispatcher runs one command at a time, in no particular order.
Execute(m) ==
  /\ m \in jobs
  /\ jobs' = jobs \ {m}
  /\ ran' = [ran EXCEPT ![m.call] = @ + 1]
  /\ Reply(m)
  /\ UNCHANGED <<serverVars, callVars, cur, refused, toDev>>

-----------------------------------------------------------------------------
CallStep(c) ==
  \/ GetConn(c) \/ Abort(c) \/ Register(c) \/ RegisterComputer(c)
  \/ WriteOk(c) \/ WriteFails(c) \/ TakeReply(c) \/ GiveUp(c) \/ Leave(c)
ConnStep(k) == PumpReply(k) \/ PumpUnblocks(k) \/ PumpEnds(k) \/ Close(k)
DeviceStep  == Dial \/ Drop \/ Receive \/ Refuse \/ \E m \in jobs : Execute(m)

Next ==
  \/ \E c \in Calls : CallStep(c)
  \/ \E k \in Socks : ConnStep(k)
  \/ DeviceStep

Spec == Init /\ [][Next]_vars

(***************************************************************************)
(* A call that has begun runs on and its timer fires; the pump reads what  *)
(* arrives and the ping loop notices a socket nobody answers on.  The      *)
(* device owes nothing.                                                    *)
(***************************************************************************)
Fairness ==
  /\ \A c \in Calls :
       /\ WF_vars(Abort(c)) /\ WF_vars(Register(c)) /\ WF_vars(RegisterComputer(c))
       /\ WF_vars(WriteOk(c) \/ WriteFails(c))
       /\ WF_vars(TakeReply(c) \/ GiveUp(c))
       /\ WF_vars(Leave(c))
  /\ \A k \in Socks :
       /\ WF_vars(PumpReply(k)) /\ WF_vars(PumpUnblocks(k))
       /\ WF_vars(PumpEnds(k)) /\ WF_vars(Close(k))

FairSpec == Spec /\ Fairness

-----------------------------------------------------------------------------
TypeOK ==
  /\ conn \in 0..MaxConn /\ hub \in 0..conn /\ cur \in 0..conn
  /\ closed \in [Socks -> BOOLEAN]
  /\ seq \in [Socks -> Nat]
  /\ pending \in [Socks -> SUBSET Frame]
  /\ pump \in [Socks -> {"off", "reading", "blocked", "done"}]
  /\ stuck \in [Socks -> [by : Calls, to : Calls] \cup {NoSend}]
  /\ toSrv \in [Socks -> Seq(Frame)]
  /\ toDev \in [Socks -> Seq(Frame)]
  /\ jobs \subseteq Frame /\ ran \in [Calls -> Nat] /\ refused \subseteq Calls
  /\ pc \in [Calls -> CallState]
  /\ on \in [Calls -> 0..conn]
  /\ key \in [Calls -> Keys]
  /\ box \in [Calls -> Calls \cup {NoCall}]
  /\ outcome \in [Calls -> Outcome]
  /\ answer \in [Calls -> Calls \cup {NoCall}]

\* Between its registration and its deferred delete, a call expects to find
\* this entry in the map.
Registered(c) == pc[c] \in {"ready", "waiting", "leaving"}
Entry(c)      == [key |-> key[c], call |-> c]

\* A Send and a computer call of one socket came to have the same id, which
\* the caller of the latter chose.
Clash(k, i) ==
  \E s \in Calls \ Computer, x \in Computer :
    /\ on[s] = k /\ on[x] = k
    /\ key[s] = i /\ key[x] = i

(***************************************************************************)
(* Every command in flight can still be answered, and nothing else can:    *)
(* an entry of the pending map is that of a registered call, no two have   *)
(* one id, and a registered call has its entry.  An entry deleted early    *)
(* loses a reply; one left behind takes somebody else's.  The one way to   *)
(* lose an entry is a clash of a chosen id with the number of a Send,      *)
(* which conn.go:469-473 inserts without looking.                          *)
(***************************************************************************)
PendingExact ==
  /\ TypeOK
  /\ \A k \in Socks : \A e \in pending[k] :
       /\ Registered(e.call) /\ on[e.call] = k /\ e = Entry(e.call)
       /\ \A f \in pending[k] : f.key = e.key => f = e
  /\ \A c \in Calls : Registered(c) =>
       Entry(c) \in pending[on[c]] \/ Clash(on[c], key[c])

(***************************************************************************)
(* What holds across reconnects and reused ids: a wrong reply always bears *)
(* the id of the call it reaches, and two Sends of one socket are never    *)
(* taken for one another.  It is the late reply to a command of an earlier *)
(* socket with the same number, written by the agent on its current one;   *)
(* or a caller chose an id that another call of the socket had too.        *)
(***************************************************************************)
MixupOnlyByReusedId ==
  \A c \in Calls :
    LET b == answer[c] IN
    b # NoCall /\ b # c =>
      /\ key[b] = key[c]
      /\ on[b] < on[c] \/ (on[b] = on[c] /\ {b, c} \cap Computer # {})

(***************************************************************************)
(* The promise of Send (RemoteCall): each command is handled by the device *)
(* at most once, whatever reconnects happen, and a call that returns a     *)
(* reply returns its own, or one to a command of the same id over the same *)
(* or an earlier socket; where the ids of Sends are new on each socket.    *)
(***************************************************************************)
Abstract == INSTANCE RemoteCall WITH
  Chosen  <- Computer,
  Links   <- 1..MaxConn,
  link    <- [c \in Calls |-> IF key[c] = 0 THEN 0 ELSE on[c]],
  id      <- key,
  handled <- [c \in Calls |-> ran[c] + Cardinality(refused \cap {c})],
  status  <- [c \in Calls |->
                IF outcome[c] = "none" THEN IF key[c] = 0 THEN "idle" ELSE "active"
                ELSE IF answer[c] = NoCall THEN "failed"
                ELSE IF answer[c] = c THEN "answered" ELSE "mistaken"]

ImplementsRemoteCall == Abstract!Spec

(***************************************************************************)
(* Nobody waits for ever: a call that has a connection returns, and leaves *)
(* no waiter behind, whatever the device and the network do.               *)
(***************************************************************************)
CallsReturn == \A c \in Calls : pc[c] # "idle" ~> pc[c] = "done"
=============================================================================

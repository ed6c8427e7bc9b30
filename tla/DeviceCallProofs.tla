-------------------------- MODULE DeviceCallProofs --------------------------
(***************************************************************************)
(* Reply correlation on the command lane, for any number of calls, sockets *)
(* and reconnects and any ids that callers choose: whatever arrives late,  *)
(* a call is only ever handed its own reply or that of a command with the  *)
(* same id, of an earlier socket or of its own if a caller chose the id.   *)
(***************************************************************************)
EXTENDS DeviceCall, FiniteSetTheorems, TLAPS

HasKey(c)  == key[c] # 0
MadeFor(m) == HasKey(m.call) /\ m.key = key[m.call]
Fits(b, c) == HasKey(b) /\ HasKey(c) /\ key[b] = key[c] /\ on[b] <= on[c]

\* Where a call's number comes from, and when it has one.
Keyed ==
  \A c \in Calls :
    /\ pc[c] \in {"idle", "got"} => ~HasKey(c)
    /\ pc[c] = "got" => on[c] \in 1..conn
    /\ pc[c] \in {"ready", "waiting", "leaving"} => HasKey(c)
    /\ HasKey(c) => /\ on[c] \in 1..conn
                    /\ c \in Computer => key[c] = Tid[c]
                    /\ c \notin Computer => key[c] \in 1..seq[on[c]]

\* A connection gives each number out once.
Distinct ==
  \A b, c \in Calls \ Computer :
    HasKey(b) /\ HasKey(c) /\ on[b] = on[c] /\ key[b] = key[c] => b = c

\* Everything in flight bears the number of the call it was made for, and a
\* frame on a socket was made for a command of that socket or an earlier one.
PendingMade == \A k \in Socks : \A e \in pending[k] : MadeFor(e) /\ on[e.call] = k
ToDevMade == \A k \in Socks : \A i \in 1..Len(toDev[k]) : MadeFor(toDev[k][i])
ToSrvMade == \A k \in Socks : \A i \in 1..Len(toSrv[k]) :
               MadeFor(toSrv[k][i]) /\ on[toSrv[k][i].call] <= k
JobsMade == \A m \in jobs : MadeFor(m)
Frames == PendingMade /\ ToDevMade /\ ToSrvMade /\ JobsMade

\* Wherever a reply has got to, it fits the call it is meant for.
Replies ==
  /\ \A c \in Calls : /\ box[c] # NoCall => Fits(box[c], c)
                      /\ answer[c] # NoCall => Fits(answer[c], c)
  /\ \A k \in Socks : stuck[k] # NoSend => Fits(stuck[k].by, stuck[k].to)

\* The agent's socket is the last one it dialed; its own and the hub's
\* bookkeeping never run ahead of that.
Latest == cur \in {0, conn}

CallInv == TypeOK /\ Keyed /\ Distinct /\ Frames /\ Replies /\ Latest

USE CallsAssumption, ConnAssumption, TidAssumption

\* The names of a numbered call never change.
Stable == \A c \in Calls : HasKey(c) => key'[c] = key[c] /\ on'[c] = on[c]

LEMMA TidKeys == 0 \in Keys /\ Nat \subseteq Keys /\ \A c \in Computer : Tid[c] \in Keys
BY DEF Keys

\* Taking the head off a queue, or adding a frame to it, keeps it a queue of
\* frames and changes no other frame of it.
LEMMA QueueFacts ==
  /\ \A q \in Seq(Frame) : \A i \in 1..Len(q) : q[i] \in Frame
  /\ \A q \in Seq(Frame) : q # << >> =>
       /\ Head(q) \in Frame /\ Head(q) = q[1] /\ 1 \in 1..Len(q)
       /\ Tail(q) \in Seq(Frame)
       /\ \A i \in 1..Len(Tail(q)) : i + 1 \in 1..Len(q) /\ Tail(q)[i] = q[i + 1]
  /\ \A q \in Seq(Frame), m \in Frame :
       /\ Append(q, m) \in Seq(Frame)
       /\ \A i \in 1..Len(Append(q, m)) :
            IF i \in 1..Len(q) THEN Append(q, m)[i] = q[i] ELSE Append(q, m)[i] = m
OBVIOUS

\* What the agent puts on its current socket.
LEMMA ReplyType ==
  ASSUME TypeOK, NEW m \in Frame, Reply(m)
  PROVE  toSrv' \in [Socks -> Seq(Frame)]
<1>1. \A k \in Socks : Append(toSrv[k], m) \in Seq(Frame)
  BY QueueFacts DEF TypeOK
<1>2. QED
  BY <1>1 DEF Reply, TypeOK

\* Every step keeps the types.
LEMMA TypeStep == TypeOK /\ Keyed /\ Latest /\ [Next]_vars => TypeOK'
<1> SUFFICES ASSUME TypeOK, Keyed, Latest, [Next]_vars PROVE TypeOK'
  OBVIOUS
<1> USE TidKeys DEF Outcome, CallState
<1>1. ASSUME NEW c \in Calls, CallStep(c) PROVE TypeOK'
  <2>1. CASE GetConn(c)
    BY <2>1 DEF GetConn, TypeOK, serverVars, deviceVars, wire
  <2>2. CASE Abort(c)
    <3>1. PICK why \in Outcome : Return(c, "done", why)
      BY <2>2 DEF Abort
    <3>2. QED
      BY <2>2, <3>1 DEF Abort, Return, TypeOK, serverVars, deviceVars, wire
  <2>3. CASE Register(c)
    <3>1. on[c] \in Socks
      BY <2>3 DEF Register, Keyed, TypeOK, Socks
    <3>2. seq[on[c]] + 1 \in Nat /\ seq[on[c]] + 1 \in Keys
      BY <3>1 DEF TypeOK
    <3>3. Insert(pending[on[c]], seq[on[c]] + 1, c) \subseteq Frame
      BY <3>1, <3>2 DEF Insert, Frame, TypeOK
    <3>4. QED
      BY <2>3, <3>1, <3>2, <3>3 DEF Register, TypeOK, deviceVars, wire
  <2>4. CASE RegisterComputer(c)
    <3>1. on[c] \in Socks /\ c \in Computer /\ Tid[c] \in Keys
      BY <2>4 DEF RegisterComputer, Keyed, TypeOK, Socks
    <3>2. Insert(pending[on[c]], Tid[c], c) \subseteq Frame
      BY <3>1 DEF Insert, Frame, TypeOK
    <3>3. CASE \E e \in pending[on[c]] : e.key = Tid[c]
      BY <2>4, <3>3 DEF RegisterComputer, Return, TypeOK, deviceVars, wire
    <3>4. CASE ~ \E e \in pending[on[c]] : e.key = Tid[c]
      <4>1. /\ key' = [key EXCEPT ![c] = Tid[c]]
            /\ pending' = [pending EXCEPT ![on[c]] = Insert(@, Tid[c], c)]
            /\ pc' = [pc EXCEPT ![c] = "ready"]
            /\ UNCHANGED <<conn, hub, closed, seq, pump, stuck, on, box, outcome, answer, deviceVars, wire>>
        BY <2>4, <3>4 DEF RegisterComputer
      <4>2. QED
        BY <3>1, <3>2, <4>1 DEF TypeOK, deviceVars, wire
    <3>5. QED
      BY <3>3, <3>4
  <2>5. CASE WriteOk(c)
    <3>1. on[c] \in Socks /\ [key |-> key[c], call |-> c] \in Frame
      BY <2>5 DEF WriteOk, Keyed, TypeOK, Socks, Frame
    <3>2. Append(toDev[on[c]], [key |-> key[c], call |-> c]) \in Seq(Frame)
      BY <3>1, QueueFacts DEF TypeOK
    <3>3. QED
      BY <2>5, <3>1, <3>2 DEF WriteOk, TypeOK, serverVars, deviceVars
  <2>6. CASE WriteFails(c)
    BY <2>6 DEF WriteFails, Return, TypeOK, serverVars, deviceVars, wire
  <2>7. CASE TakeReply(c)
    BY <2>7 DEF TakeReply, Return, TypeOK, serverVars, deviceVars, wire
  <2>8. CASE GiveUp(c)
    <3>1. PICK why \in Outcome : Return(c, "leaving", why)
      BY <2>8 DEF GiveUp
    <3>2. QED
      BY <2>8, <3>1 DEF GiveUp, Return, TypeOK, serverVars, deviceVars, wire
  <2>9. CASE Leave(c)
    BY <2>9 DEF Leave, Delete, TypeOK, deviceVars, wire
  <2>10. QED
    BY <1>1, <2>1, <2>2, <2>3, <2>4, <2>5, <2>6, <2>7, <2>8, <2>9 DEF CallStep
<1>2. ASSUME NEW k \in Socks, ConnStep(k) PROVE TypeOK'
  <2>1. CASE PumpReply(k)
    <3>1. Head(toSrv[k]) \in Frame /\ Tail(toSrv[k]) \in Seq(Frame)
      BY <2>1, QueueFacts DEF PumpReply, TypeOK
    <3>2. \A e \in pending[k] : e.call \in Calls
      BY DEF TypeOK, Frame
    <3>3. Head(toSrv[k]).call \in Calls
      BY <3>1 DEF Frame
    <3>4. /\ box' \in [Calls -> Calls \cup {NoCall}]
          /\ pump' \in [Socks -> {"off", "reading", "blocked", "done"}]
          /\ stuck' \in [Socks -> [by : Calls, to : Calls] \cup {NoSend}]
      <4>1. CASE UNCHANGED <<pump, stuck, box>>
        BY <4>1 DEF TypeOK
      <4>2. ASSUME NEW e \in pending[k], Deliver(Head(toSrv[k]), e)
            PROVE  <3>4!1 /\ <3>4!2 /\ <3>4!3
        BY <3>2, <3>3, <4>2 DEF Deliver, TypeOK
      <4>3. ASSUME NEW e \in pending[k], BlockOn(k, Head(toSrv[k]), e)
            PROVE  <3>4!1 /\ <3>4!2 /\ <3>4!3
        BY <3>2, <3>3, <4>3 DEF BlockOn, TypeOK
      <4>4. QED
        BY <2>1, <4>1, <4>2, <4>3 DEF PumpReply
    <3>7. toSrv' \in [Socks -> Seq(Frame)]
      BY <2>1, <3>1 DEF PumpReply, TypeOK
    <3>8. QED
      BY <2>1, <3>4, <3>7 DEF PumpReply, TypeOK, deviceVars
  <2>2. CASE PumpUnblocks(k)
    <3>1. stuck[k].by \in Calls \cup {NoCall}
      BY DEF TypeOK, NoSend
    <3>2. box' \in [Calls -> Calls \cup {NoCall}]
      BY <2>2, <3>1 DEF PumpUnblocks, TypeOK
    <3>3. QED
      BY <2>2, <3>2 DEF PumpUnblocks, TypeOK, deviceVars, wire
  <2>3. CASE PumpEnds(k)
    BY <2>3 DEF PumpEnds, TypeOK, callVars, deviceVars, wire
  <2>4. CASE Close(k)
    BY <2>4 DEF Close, TypeOK, callVars, deviceVars, wire
  <2>5. QED
    BY <1>2, <2>1, <2>2, <2>3, <2>4 DEF ConnStep
<1>3. CASE Dial
  <2>1. conn' \in 0..MaxConn /\ hub' \in 0..conn' /\ cur' \in 0..conn'
    BY <1>3 DEF Dial, TypeOK
  <2>2. on \in [Calls -> 0..conn']
    BY <1>3 DEF Dial, TypeOK
  <2>3. QED
    BY <1>3, <2>1, <2>2 DEF Dial, TypeOK, callVars, wire, Socks
<1>4. CASE Drop
  <2>1. << >> \in Seq(Frame) /\ 0 \in 0..conn
    BY DEF TypeOK
  <2>2. toDev' \in [Socks -> Seq(Frame)]
    BY <1>4, <2>1 DEF Drop, TypeOK
  <2>3. QED
    BY <1>4, <2>1, <2>2 DEF Drop, TypeOK, serverVars, callVars
<1>5. CASE Receive
  <2>1. cur \in Socks /\ Head(toDev[cur]) \in Frame /\ Tail(toDev[cur]) \in Seq(Frame)
    <3>1. cur \in Socks /\ toDev[cur] \in Seq(Frame) /\ toDev[cur] # << >>
      BY <1>5 DEF Receive, TypeOK, Socks
    <3>2. QED
      BY <3>1, QueueFacts
  <2>2. QED
    BY <1>5, <2>1 DEF Receive, TypeOK, serverVars, callVars
<1>6. CASE Refuse
  <2>1. cur \in Socks /\ Head(toDev[cur]) \in Frame /\ Tail(toDev[cur]) \in Seq(Frame)
    <3>1. cur \in Socks /\ toDev[cur] \in Seq(Frame) /\ toDev[cur] # << >>
      BY <1>6 DEF Refuse, TypeOK, Socks
    <3>2. QED
      BY <3>1, QueueFacts
  <2>2. toSrv' \in [Socks -> Seq(Frame)] /\ Head(toDev[cur]).call \in Calls
    BY <1>6, <2>1, ReplyType DEF Refuse, Frame
  <2>3. QED
    BY <1>6, <2>1, <2>2 DEF Refuse, TypeOK, serverVars, callVars
<1>7. ASSUME NEW m \in jobs, Execute(m) PROVE TypeOK'
  <2>1. m \in Frame /\ m.call \in Calls
    BY DEF TypeOK, Frame
  <2>2. toSrv' \in [Socks -> Seq(Frame)]
    BY <1>7, <2>1, ReplyType DEF Execute
  <2>3. QED
    BY <1>7, <2>1, <2>2 DEF Execute, TypeOK, serverVars, callVars
<1>8. CASE UNCHANGED vars
  BY <1>8 DEF vars, serverVars, callVars, deviceVars, wire, TypeOK
<1>9. QED
  BY <1>1, <1>2, <1>3, <1>4, <1>5, <1>6, <1>7, <1>8 DEF Next, DeviceStep

-----------------------------------------------------------------------------
\* A step that neither numbers a call nor moves it to a connection.
SameNames == UNCHANGED <<key, on, seq>>

\* Only GetConn, Register and RegisterComputer change a name.
LEMMA NameSteps ==
  ASSUME [Next]_vars
  PROVE  SameNames \/ \E c \in Calls : GetConn(c) \/ Register(c) \/ RegisterComputer(c)
<1>1. ASSUME NEW c \in Calls,
             Abort(c) \/ WriteOk(c) \/ WriteFails(c) \/ TakeReply(c) \/ GiveUp(c) \/ Leave(c)
      PROVE  SameNames
  BY <1>1 DEF Abort, WriteOk, WriteFails, TakeReply, GiveUp, Leave, SameNames, serverVars
<1>2. ASSUME NEW k \in Socks, ConnStep(k) PROVE SameNames
  BY <1>2 DEF ConnStep, PumpReply, PumpUnblocks, PumpEnds, Close, SameNames, callVars
<1>3. ASSUME DeviceStep PROVE SameNames
  BY <1>3 DEF DeviceStep, Dial, Drop, Receive, Refuse, Execute, SameNames, callVars, serverVars
<1>4. ASSUME UNCHANGED vars PROVE SameNames
  BY <1>4 DEF vars, callVars, serverVars, SameNames
<1>5. QED
  BY <1>1, <1>2, <1>3, <1>4 DEF Next, CallStep

\* A call is named once and for all.
LEMMA StableStep == CallInv /\ [Next]_vars => Stable
<1> SUFFICES ASSUME CallInv, [Next]_vars PROVE Stable
  OBVIOUS
<1>1. CASE SameNames
  BY <1>1 DEF SameNames, Stable
<1>2. ASSUME NEW c \in Calls, GetConn(c) \/ Register(c) \/ RegisterComputer(c) PROVE Stable
  BY <1>2 DEF GetConn, Register, RegisterComputer, Return, CallInv, TypeOK, Keyed, Stable
<1>3. QED
  BY <1>1, <1>2, NameSteps

\* Being made for a call and fitting it survive a step.
LEMMA NamesPersist ==
  ASSUME CallInv, Stable
  PROVE  /\ \A m \in Frame : MadeFor(m) => /\ key'[m.call] # 0 /\ m.key = key'[m.call]
                                           /\ on'[m.call] = on[m.call]
         /\ \A b, c \in Calls : Fits(b, c) => /\ key'[b] # 0 /\ key'[c] # 0 /\ key'[b] = key'[c]
                                              /\ on'[b] <= on'[c]
BY DEF Stable, HasKey, MadeFor, Fits, Frame

LEMMA DistinctStep == ASSUME CallInv, [Next]_vars PROVE Distinct'
<1>1. CASE SameNames
  BY <1>1 DEF SameNames, CallInv, Distinct, HasKey
<1>2. ASSUME NEW c \in Calls, GetConn(c) PROVE Distinct'
  BY <1>2 DEF GetConn, CallInv, TypeOK, Keyed, Distinct, HasKey, serverVars
<1>3. ASSUME NEW c \in Calls, Register(c) PROVE Distinct'
  <2>1. on[c] \in Socks /\ key' = [key EXCEPT ![c] = seq[on[c]] + 1] /\ on' = on
    BY <1>3 DEF Register, CallInv, TypeOK, Keyed, Socks
  <2>2. \A b \in Calls \ Computer : HasKey(b) /\ on[b] = on[c] => key[b] # seq[on[c]] + 1
    BY <2>1 DEF CallInv, Keyed, TypeOK
  <2>3. QED
    BY <2>1, <2>2 DEF CallInv, TypeOK, Distinct, HasKey
<1>4. ASSUME NEW c \in Calls, RegisterComputer(c) PROVE Distinct'
  <2>1. c \in Computer /\ on' = on /\ (key' = key \/ key' = [key EXCEPT ![c] = Tid[c]])
    BY <1>4 DEF RegisterComputer
  <2>2. \A b \in Calls \ Computer : key'[b] = key[b]
    BY <2>1 DEF CallInv, TypeOK
  <2>3. QED
    BY <2>1, <2>2 DEF CallInv, Distinct, HasKey
<1>5. QED
  BY <1>1, <1>2, <1>3, <1>4, NameSteps

\* Counting up on one socket lowers no counter.
LEMMA CounterGrows ==
  ASSUME seq \in [Socks -> Nat], NEW k \in Socks, seq' = [seq EXCEPT ![k] = @ + 1]
  PROVE  \A j \in Socks : seq'[j] \in Nat /\ seq[j] \in Nat /\ seq[j] <= seq'[j]
OBVIOUS

LEMMA KeyedStep == ASSUME CallInv, [Next]_vars PROVE Keyed'
<1> USE DEF CallInv, TypeOK, Keyed, HasKey
<1>1. ASSUME UNCHANGED <<pc, key, on, seq>>, conn' \in {conn, conn + 1} PROVE Keyed'
  BY <1>1
<1>2. ASSUME NEW c \in Calls, NEW st \in {"leaving", "done"}, pc[c] # "idle",
             UNCHANGED <<key, on, seq, conn>>, pc' = [pc EXCEPT ![c] = st],
             st = "leaving" => HasKey(c)
      PROVE  Keyed'
  BY <1>2
<1>3. ASSUME NEW c \in Calls, CallStep(c) PROVE Keyed'
  <2>1. CASE GetConn(c)
    BY <2>1 DEF GetConn, serverVars
  <2>2. CASE Abort(c)
    BY <1>2, <2>2 DEF Abort, Return, serverVars
  <2>3. CASE Register(c)
    <3>1. on[c] \in Socks /\ seq[on[c]] \in Nat
      BY <2>3 DEF Register, Socks
    <3>2. /\ key' = [key EXCEPT ![c] = seq[on[c]] + 1]
          /\ seq' = [seq EXCEPT ![on[c]] = @ + 1]
          /\ pc' = [pc EXCEPT ![c] = "ready"]
          /\ UNCHANGED <<on, conn>> /\ pc[c] = "got" /\ c \notin Computer
      BY <2>3 DEF Register
    <3>3. \A k \in Socks : seq'[k] \in Nat /\ seq[k] \in Nat /\ seq[k] <= seq'[k]
      BY <3>1, <3>2, CounterGrows
    <3>4. ASSUME NEW b \in Calls, b # c, HasKey(b), b \notin Computer PROVE key'[b] \in 1..seq'[on'[b]]
      <4>1. on[b] \in Socks /\ key[b] \in 1..seq[on[b]]
        BY <3>4 DEF Socks
      <4>2. on'[b] = on[b] /\ key'[b] = key[b]
        BY <3>2, <3>4
      <4>3. QED
        BY <3>3, <4>1, <4>2
    <3>5. key'[c] \in 1..seq'[on'[c]]
      BY <3>1, <3>2
    <3>6. QED
      BY <3>2, <3>4, <3>5
  <2>4. CASE RegisterComputer(c)
    <3>1. CASE \E e \in pending[on[c]] : e.key = Tid[c]
      BY <1>2, <2>4, <3>1 DEF RegisterComputer, Return
    <3>2. CASE ~ \E e \in pending[on[c]] : e.key = Tid[c]
      <4>1. /\ key' = [key EXCEPT ![c] = Tid[c]] /\ pc' = [pc EXCEPT ![c] = "ready"]
            /\ UNCHANGED <<on, conn, seq>> /\ pc[c] = "got" /\ c \in Computer
        BY <2>4, <3>2 DEF RegisterComputer
      <4>2. Tid[c] # 0
        BY <4>1
      <4>3. QED
        BY <4>1, <4>2
    <3>3. QED
      BY <3>1, <3>2
  <2>5. CASE WriteOk(c)
    BY <2>5 DEF WriteOk, serverVars
  <2>6. CASE WriteFails(c) \/ TakeReply(c) \/ GiveUp(c)
    BY <1>2, <2>6 DEF WriteFails, TakeReply, GiveUp, Return, serverVars
  <2>7. CASE Leave(c)
    BY <1>2, <2>7 DEF Leave
  <2>8. QED
    BY <1>3, <2>1, <2>2, <2>3, <2>4, <2>5, <2>6, <2>7 DEF CallStep
<1>4. ASSUME NEW k \in Socks, ConnStep(k) PROVE Keyed'
  BY <1>1, <1>4 DEF ConnStep, PumpReply, PumpUnblocks, PumpEnds, Close, callVars
<1>5. CASE DeviceStep
  BY <1>1, <1>5 DEF DeviceStep, Dial, Drop, Receive, Refuse, Execute, serverVars, callVars
<1>6. CASE UNCHANGED vars
  BY <1>1, <1>6 DEF vars, serverVars, callVars
<1>7. QED
  BY <1>3, <1>4, <1>5, <1>6 DEF Next

\* Frames stay what they were made for while nothing is added to them.
LEMMA FramesKept ==
  ASSUME CallInv, Stable
  PROVE  /\ pending' = pending => PendingMade'
         /\ toDev' = toDev => ToDevMade'
         /\ toSrv' = toSrv => ToSrvMade'
         /\ jobs' \subseteq jobs => JobsMade'
<1>1. /\ pending \in [Socks -> SUBSET Frame] /\ jobs \subseteq Frame
      /\ toDev \in [Socks -> Seq(Frame)] /\ toSrv \in [Socks -> Seq(Frame)]
      /\ PendingMade /\ ToDevMade /\ ToSrvMade /\ JobsMade
  BY DEF CallInv, TypeOK, Frames
<1>2. ASSUME pending' = pending PROVE PendingMade'
  BY <1>1, <1>2, NamesPersist DEF PendingMade, MadeFor, HasKey
<1>3. ASSUME toDev' = toDev PROVE ToDevMade'
  <2>1. \A k \in Socks : \A i \in 1..Len(toDev[k]) : toDev[k][i] \in Frame /\ MadeFor(toDev[k][i])
    BY <1>1, QueueFacts DEF ToDevMade
  <2>2. QED
    BY <1>3, <2>1, NamesPersist DEF ToDevMade, MadeFor, HasKey
<1>4. ASSUME toSrv' = toSrv PROVE ToSrvMade'
  BY <1>1, <1>4, NamesPersist, QueueFacts DEF ToSrvMade, MadeFor, HasKey
<1>5. ASSUME jobs' \subseteq jobs PROVE JobsMade'
  BY <1>1, <1>5, NamesPersist DEF JobsMade, MadeFor, HasKey
<1>6. QED
  BY <1>2, <1>3, <1>4, <1>5

\* The agent answers a command of its current socket or of an earlier one.
LEMMA ReplyMade ==
  ASSUME CallInv, Stable, NEW m \in Frame, MadeFor(m), cur # 0, Reply(m)
  PROVE  ToSrvMade'
<1>1. /\ toSrv \in [Socks -> Seq(Frame)] /\ ToSrvMade /\ cur \in Socks
      /\ on[m.call] <= cur /\ m.call \in Calls
  <2>1. m.call \in Calls /\ HasKey(m.call)
    BY DEF MadeFor, Frame
  <2>2. on[m.call] \in 1..conn /\ cur = conn /\ conn \in 0..MaxConn
    BY <2>1 DEF CallInv, TypeOK, Keyed, Latest
  <2>3. QED
    BY <2>1, <2>2 DEF CallInv, TypeOK, Frames, Socks
<1>2. SUFFICES ASSUME NEW k \in Socks, NEW i \in 1..Len(toSrv'[k])
               PROVE  LET f == toSrv'[k][i] IN key'[f.call] # 0 /\ f.key = key'[f.call] /\ on'[f.call] <= k
  BY DEF ToSrvMade, MadeFor, HasKey
<1>3. ASSUME i \in 1..Len(toSrv[k]), toSrv'[k][i] = toSrv[k][i]
      PROVE  LET f == toSrv'[k][i] IN key'[f.call] # 0 /\ f.key = key'[f.call] /\ on'[f.call] <= k
  <2>1. toSrv[k][i] \in Frame /\ MadeFor(toSrv[k][i]) /\ on[toSrv[k][i].call] <= k
    BY <1>1, <1>3, QueueFacts DEF ToSrvMade
  <2>2. QED
    BY <1>3, <2>1, NamesPersist
<1>4. CASE k # cur
  BY <1>3, <1>4 DEF Reply
<1>5. CASE k = cur
  <2>1. toSrv'[k] = Append(toSrv[k], m)
    BY <1>5 DEF Reply
  <2>2. CASE i \in 1..Len(toSrv[k])
    BY <1>1, <1>3, <2>1, <2>2, QueueFacts
  <2>3. CASE i \notin 1..Len(toSrv[k])
    <3>1. toSrv'[k][i] = m
      BY <1>1, <2>1, <2>3, QueueFacts
    <3>2. QED
      BY <1>1, <1>5, <3>1, NamesPersist
  <2>4. QED
    BY <2>2, <2>3
<1>6. QED
  BY <1>4, <1>5

\* Replies stay where they fit while no slot is filled.
LEMMA RepliesKept ==
  ASSUME CallInv, Stable
  PROVE  box' = box /\ answer' = answer /\ stuck' = stuck => Replies'
<1>1. /\ \A c \in Calls : box[c] \in Calls \cup {NoCall} /\ answer[c] \in Calls \cup {NoCall}
      /\ \A k \in Socks : stuck[k] # NoSend => stuck[k].by \in Calls /\ stuck[k].to \in Calls
      /\ Replies
  BY DEF CallInv, TypeOK
<1>2. QED
  BY <1>1, NamesPersist DEF Replies, Fits, HasKey, NoSend

LEMMA FramesStep == ASSUME CallInv, [Next]_vars PROVE Frames'
<1>1. Stable
  BY StableStep
<1>2. /\ pending' = pending => PendingMade'
      /\ toDev' = toDev => ToDevMade'
      /\ toSrv' = toSrv => ToSrvMade'
      /\ jobs' = jobs \/ jobs' \subseteq jobs => JobsMade'
  BY <1>1, FramesKept
<1>3. /\ pending \in [Socks -> SUBSET Frame] /\ jobs \subseteq Frame
      /\ toDev \in [Socks -> Seq(Frame)] /\ toSrv \in [Socks -> Seq(Frame)]
      /\ PendingMade /\ ToDevMade /\ ToSrvMade /\ JobsMade
      /\ key \in [Calls -> Keys] /\ cur \in 0..conn /\ conn \in 0..MaxConn
  BY DEF CallInv, TypeOK, Frames
<1>4. ASSUME NEW c \in Calls, CallStep(c) PROVE Frames'
  <2>1. CASE GetConn(c) \/ Abort(c) \/ WriteFails(c) \/ TakeReply(c) \/ GiveUp(c)
    BY <1>2, <2>1 DEF GetConn, Abort, WriteFails, TakeReply, GiveUp, Frames, serverVars, deviceVars, wire
  <2>2. ASSUME NEW i \in Keys, i # 0, key' = [key EXCEPT ![c] = i], on' = on, on[c] \in Socks,
               ~HasKey(c), pending' = [pending EXCEPT ![on[c]] = Insert(@, i, c)]
        PROVE  PendingMade'
    <3>1. SUFFICES ASSUME NEW k \in Socks, NEW e \in pending'[k]
                   PROVE  key'[e.call] # 0 /\ e.key = key'[e.call] /\ on'[e.call] = k
      BY DEF PendingMade, MadeFor, HasKey
    <3>2. CASE e \in pending[k]
      BY <1>1, <1>3, <3>2, NamesPersist DEF PendingMade
    <3>3. CASE e \notin pending[k]
      BY <1>3, <2>2, <3>3 DEF Insert
    <3>4. QED
      BY <3>2, <3>3
  <2>3. CASE Register(c)
    <3>1. on[c] \in Socks /\ seq[on[c]] + 1 \in Keys /\ seq[on[c]] + 1 # 0 /\ ~HasKey(c)
      BY <2>3, TidKeys DEF Register, CallInv, TypeOK, Keyed, Socks
    <3>2. PendingMade'
      BY <2>2, <2>3, <3>1 DEF Register
    <3>3. QED
      BY <1>2, <2>3, <3>2 DEF Register, Frames, deviceVars, wire
  <2>4. CASE RegisterComputer(c)
    <3>1. UNCHANGED <<deviceVars, wire>>
      BY <2>4 DEF RegisterComputer
    <3>2. PendingMade'
      <4>1. CASE \E e \in pending[on[c]] : e.key = Tid[c]
        BY <1>2, <2>4, <4>1 DEF RegisterComputer
      <4>2. CASE ~ \E e \in pending[on[c]] : e.key = Tid[c]
        <5>1. /\ key' = [key EXCEPT ![c] = Tid[c]] /\ on' = on
              /\ pending' = [pending EXCEPT ![on[c]] = Insert(@, Tid[c], c)]
              /\ pc[c] = "got" /\ c \in Computer
          BY <2>4, <4>2 DEF RegisterComputer
        <5>2. on[c] \in Socks /\ Tid[c] \in Keys /\ ~HasKey(c)
          BY <5>1, TidKeys DEF CallInv, TypeOK, Keyed, Socks
        <5>3. Tid[c] # 0
          BY <5>1
        <5>4. QED
          BY <2>2, <5>1, <5>2, <5>3
      <4>3. QED
        BY <4>1, <4>2
    <3>3. QED
      BY <1>2, <3>1, <3>2 DEF Frames, deviceVars, wire
  <2>5. CASE WriteOk(c)
    <3>1. on[c] \in Socks /\ HasKey(c)
      BY <2>5 DEF WriteOk, CallInv, TypeOK, Keyed, Socks
    <3> DEFINE m == [key |-> key[c], call |-> c]
    <3>2. m \in Frame /\ MadeFor(m)
      BY <1>3, <3>1 DEF Frame, MadeFor
    <3>3. ASSUME NEW k \in Socks, NEW i \in 1..Len(toDev'[k])
          PROVE  LET f == toDev'[k][i] IN key'[f.call] # 0 /\ f.key = key'[f.call]
      <4>1. toDev'[k] = toDev[k] \/ toDev'[k] = Append(toDev[k], m)
        BY <1>3, <2>5 DEF WriteOk
      <4>2. toDev'[k][i] = m \/ (i \in 1..Len(toDev[k]) /\ toDev'[k][i] = toDev[k][i])
        <5>1. CASE toDev'[k] = toDev[k]
          BY <5>1
        <5>2. CASE toDev'[k] = Append(toDev[k], m)
          BY <1>3, <3>2, <5>2, QueueFacts
        <5>3. QED
          BY <4>1, <5>1, <5>2
      <4>3. toDev'[k][i] \in Frame /\ MadeFor(toDev'[k][i])
        BY <1>3, <3>2, <4>2, QueueFacts DEF ToDevMade
      <4>4. QED
        BY <1>1, <4>3, NamesPersist
    <3>4. ToDevMade'
      BY <3>3 DEF ToDevMade, MadeFor, HasKey
    <3>5. QED
      BY <1>2, <2>5, <3>4 DEF WriteOk, Frames, serverVars, deviceVars
  <2>6. CASE Leave(c)
    <3>1. \A k \in Socks : pending'[k] \subseteq pending[k]
      BY <1>3, <2>6 DEF Leave, Delete
    <3>2. PendingMade'
      BY <1>1, <1>3, <3>1, NamesPersist DEF PendingMade, MadeFor, HasKey
    <3>3. QED
      BY <1>2, <2>6, <3>2 DEF Leave, Frames, deviceVars, wire
  <2>7. QED
    BY <1>4, <2>1, <2>3, <2>4, <2>5, <2>6 DEF CallStep
<1>5. ASSUME NEW k \in Socks, ConnStep(k) PROVE Frames'
  <2>1. CASE PumpReply(k)
    <3>1. ASSUME NEW j \in Socks, NEW i \in 1..Len(toSrv'[j])
          PROVE  LET f == toSrv'[j][i] IN key'[f.call] # 0 /\ f.key = key'[f.call] /\ on'[f.call] <= j
      <4>1. toSrv'[j] = toSrv[j] \/ (toSrv[j] # << >> /\ toSrv'[j] = Tail(toSrv[j]))
        BY <1>3, <2>1 DEF PumpReply
      <4>2. \E h \in 1..Len(toSrv[j]) : toSrv'[j][i] = toSrv[j][h]
        <5>1. CASE toSrv'[j] = toSrv[j]
          BY <5>1
        <5>2. CASE toSrv[j] # << >> /\ toSrv'[j] = Tail(toSrv[j])
          <6>1. i + 1 \in 1..Len(toSrv[j]) /\ toSrv'[j][i] = toSrv[j][i + 1]
            BY <1>3, <5>2, QueueFacts
          <6>2. QED
            BY <6>1
        <5>3. QED
          BY <4>1, <5>1, <5>2
      <4>3. LET f == toSrv'[j][i] IN f \in Frame /\ MadeFor(f) /\ on[f.call] <= j
        BY <1>3, <4>2, QueueFacts DEF ToSrvMade
      <4>4. QED
        BY <1>1, <4>3, NamesPersist
    <3>2. ToSrvMade'
      BY <3>1 DEF ToSrvMade, MadeFor, HasKey
    <3>3. QED
      BY <1>2, <2>1, <3>2 DEF PumpReply, Frames, deviceVars
  <2>2. CASE PumpUnblocks(k) \/ PumpEnds(k) \/ Close(k)
    BY <1>2, <2>2 DEF PumpUnblocks, PumpEnds, Close, Frames, deviceVars, wire
  <2>3. QED
    BY <1>5, <2>1, <2>2 DEF ConnStep
<1>6. CASE Dial
  BY <1>2, <1>6 DEF Dial, Frames, wire
<1>7. ASSUME cur # 0, NEW q \in Seq(Frame), toDev' = [toDev EXCEPT ![cur] = q],
             q = << >> \/ (toDev[cur] # << >> /\ q = Tail(toDev[cur]))
      PROVE  ToDevMade'
  <2>1. ASSUME NEW k \in Socks, NEW i \in 1..Len(toDev'[k])
        PROVE  LET f == toDev'[k][i] IN key'[f.call] # 0 /\ f.key = key'[f.call]
    <3>1. toDev'[k] = toDev[k] \/ toDev'[k] = << >> \/ (toDev[k] # << >> /\ toDev'[k] = Tail(toDev[k]))
      BY <1>3, <1>7
    <3>2. \E h \in 1..Len(toDev[k]) : toDev'[k][i] = toDev[k][h]
      <4>1. CASE toDev'[k] = toDev[k]
        BY <4>1
      <4>2. CASE toDev'[k] = << >>
        BY <4>2
      <4>3. CASE toDev[k] # << >> /\ toDev'[k] = Tail(toDev[k])
        <5>1. i + 1 \in 1..Len(toDev[k]) /\ toDev'[k][i] = toDev[k][i + 1]
          BY <1>3, <4>3, QueueFacts
        <5>2. QED
          BY <5>1
      <4>4. QED
        BY <3>1, <4>1, <4>2, <4>3
    <3>3. LET f == toDev'[k][i] IN f \in Frame /\ MadeFor(f)
      BY <1>3, <3>2, QueueFacts DEF ToDevMade
    <3>4. QED
      BY <1>1, <3>3, NamesPersist
  <2>2. QED
    BY <2>1 DEF ToDevMade, MadeFor, HasKey
<1>8. CASE Drop
  <2>1. ToDevMade'
    <3>1. << >> \in Seq(Frame) /\ cur # 0 /\ toDev' = [toDev EXCEPT ![cur] = << >>]
      BY <1>8 DEF Drop
    <3>2. QED
      BY <1>7, <3>1
  <2>2. QED
    BY <1>2, <1>8, <2>1 DEF Drop, Frames, serverVars
<1>9. ASSUME cur # 0, toDev[cur] # << >>
      PROVE  /\ Head(toDev[cur]) \in Frame /\ MadeFor(Head(toDev[cur]))
             /\ Tail(toDev[cur]) \in Seq(Frame)
  BY <1>3, <1>9, QueueFacts DEF ToDevMade, Socks
<1>10. CASE Receive
  <2>1. ToDevMade'
    BY <1>7, <1>9, <1>10 DEF Receive
  <2>2. JobsMade'
    BY <1>1, <1>3, <1>9, <1>10, NamesPersist DEF Receive, JobsMade, MadeFor, HasKey
  <2>3. QED
    BY <1>2, <1>10, <2>1, <2>2 DEF Receive, Frames, serverVars
<1>11. CASE Refuse
  <2>1. ToDevMade'
    BY <1>7, <1>9, <1>11 DEF Refuse
  <2>2. ToSrvMade'
    BY <1>1, <1>9, <1>11, ReplyMade DEF Refuse
  <2>3. QED
    BY <1>2, <1>11, <2>1, <2>2 DEF Refuse, Frames, serverVars
<1>12. ASSUME NEW m \in jobs, Execute(m) PROVE Frames'
  <2>1. ToSrvMade'
    <3>1. CASE cur # 0
      BY <1>1, <1>3, <1>12, <3>1, ReplyMade DEF Execute, JobsMade
    <3>2. CASE cur = 0
      <4>1. toSrv' = toSrv
        BY <1>3, <1>12, <3>2 DEF Execute, Reply, Socks
      <4>2. QED
        BY <1>2, <4>1
    <3>3. QED
      BY <3>1, <3>2
  <2>2. QED
    BY <1>2, <1>12, <2>1 DEF Execute, Frames, serverVars
<1>13. CASE UNCHANGED vars
  BY <1>2, <1>13 DEF vars, serverVars, deviceVars, wire, Frames
<1>14. QED
  BY <1>4, <1>5, <1>6, <1>8, <1>10, <1>11, <1>12, <1>13 DEF Next, DeviceStep

\* What the pump hands a waiter fits it: entry and frame bear one number, and
\* the frame came over this socket.
LEMMA RepliesStep == ASSUME CallInv, [Next]_vars PROVE Replies'
<1>1. Stable
  BY StableStep
<1>2. /\ box \in [Calls -> Calls \cup {NoCall}] /\ answer \in [Calls -> Calls \cup {NoCall}]
      /\ stuck \in [Socks -> [by : Calls, to : Calls] \cup {NoSend}]
      /\ Replies
  BY DEF CallInv, TypeOK
<1>3. box' = box /\ answer' = answer /\ stuck' = stuck => Replies'
  BY <1>1, RepliesKept
<1>4. \A k \in Socks : stuck[k] # NoSend => stuck[k].by \in Calls /\ stuck[k].to \in Calls
  BY <1>2
<1> DEFINE Fit(b, c) == /\ key'[b] # 0 /\ key'[c] # 0 /\ key'[b] = key'[c]
                        /\ on'[b] <= on'[c]
<1>5. /\ \A c \in Calls : /\ box[c] # NoCall => Fit(box[c], c)
                          /\ answer[c] # NoCall => Fit(answer[c], c)
      /\ \A k \in Socks : stuck[k] # NoSend => Fit(stuck[k].by, stuck[k].to)
  BY <1>1, <1>2, <1>4, NamesPersist DEF Replies
<1>6. ASSUME \A c \in Calls : /\ box'[c] # NoCall => Fit(box'[c], c)
                              /\ answer'[c] # NoCall => Fit(answer'[c], c),
             \A k \in Socks : stuck'[k] # NoSend => Fit(stuck'[k].by, stuck'[k].to)
      PROVE  Replies'
  BY <1>6 DEF Replies, Fits, HasKey
<1>7. ASSUME NEW c \in Calls, CallStep(c) PROVE Replies'
  <2>1. CASE TakeReply(c)
    <3>1. /\ answer' = [answer EXCEPT ![c] = box[c]] /\ box' = [box EXCEPT ![c] = NoCall]
          /\ box[c] # NoCall /\ stuck' = stuck
      BY <2>1 DEF TakeReply, serverVars
    <3>2. \A b \in Calls : /\ box'[b] # NoCall => Fit(box'[b], b)
                           /\ answer'[b] # NoCall => Fit(answer'[b], b)
      BY <1>2, <1>5, <3>1
    <3>3. QED
      BY <1>5, <1>6, <3>1, <3>2
  <2>2. CASE ~ TakeReply(c)
    <3>1. box' = box /\ answer' = answer /\ stuck' = stuck
      BY <1>7, <2>2 DEF CallStep, GetConn, Abort, Register, RegisterComputer, WriteOk, WriteFails,
                        GiveUp, Leave, serverVars
    <3>2. QED
      BY <1>3, <3>1
  <2>3. QED
    BY <2>1, <2>2
<1>8. ASSUME NEW k \in Socks, ConnStep(k) PROVE Replies'
  <2>1. CASE PumpReply(k)
    <3> DEFINE m == Head(toSrv[k])
    <3>1. m \in Frame /\ MadeFor(m) /\ on[m.call] <= k
      BY <2>1, QueueFacts DEF PumpReply, CallInv, TypeOK, Frames, ToSrvMade
    <3>2. ASSUME NEW e \in pending[k], e.key = m.key
          PROVE  e.call \in Calls /\ m.call \in Calls /\ Fit(m.call, e.call)
      <4>1. e \in Frame /\ MadeFor(e) /\ on[e.call] = k
        BY DEF CallInv, TypeOK, Frames, PendingMade
      <4>2. QED
        BY <1>1, <3>1, <3>2, <4>1, NamesPersist DEF Frame
    <3>3. answer' = answer
      BY <2>1 DEF PumpReply
    <3>4. CASE UNCHANGED <<pump, stuck, box>>
      BY <1>3, <3>3, <3>4
    <3>5. ASSUME NEW e \in pending[k], e.key = m.key, Deliver(m, e) PROVE Replies'
      <4>1. box' = [box EXCEPT ![e.call] = m.call] /\ stuck' = stuck
        BY <3>5 DEF Deliver
      <4>2. \A c \in Calls : box'[c] # NoCall => Fit(box'[c], c)
        BY <1>2, <1>5, <3>2, <3>5, <4>1
      <4>3. QED
        BY <1>5, <1>6, <3>3, <4>1, <4>2
    <3>6. ASSUME NEW e \in pending[k], e.key = m.key, BlockOn(k, m, e) PROVE Replies'
      <4>1. stuck' = [stuck EXCEPT ![k] = [by |-> m.call, to |-> e.call]] /\ box' = box
        BY <3>6 DEF BlockOn
      <4>2. \A j \in Socks : stuck'[j] # NoSend => Fit(stuck'[j].by, stuck'[j].to)
        BY <1>2, <1>5, <3>2, <3>6, <4>1
      <4>3. QED
        BY <1>5, <1>6, <3>3, <4>1, <4>2
    <3>7. QED
      BY <2>1, <3>4, <3>5, <3>6 DEF PumpReply
  <2>2. CASE PumpUnblocks(k)
    <3>1. box' = [box EXCEPT ![stuck[k].to] = stuck[k].by] /\ answer' = answer /\ stuck' = stuck
      BY <2>2 DEF PumpUnblocks
    <3>2. \A c \in Calls : box'[c] # NoCall => Fit(box'[c], c)
      <4>1. CASE stuck[k] = NoSend
        BY <1>2, <1>5, <3>1, <4>1, CallsAssumption DEF NoSend
      <4>2. CASE stuck[k] # NoSend
        BY <1>2, <1>4, <1>5, <3>1, <4>2
      <4>3. QED
        BY <4>1, <4>2
    <3>3. QED
      BY <1>5, <1>6, <3>1, <3>2
  <2>3. CASE PumpEnds(k) \/ Close(k)
    BY <1>3, <2>3 DEF PumpEnds, Close, callVars
  <2>4. QED
    BY <1>8, <2>1, <2>2, <2>3 DEF ConnStep
<1>9. CASE DeviceStep
  BY <1>3, <1>9 DEF DeviceStep, Dial, Drop, Receive, Refuse, Execute, serverVars, callVars
<1>10. CASE UNCHANGED vars
  BY <1>3, <1>10 DEF vars, serverVars, callVars
<1>11. QED
  BY <1>7, <1>8, <1>9, <1>10 DEF Next

LEMMA LatestStep == CallInv /\ [Next]_vars => Latest'
<1> SUFFICES ASSUME CallInv, [Next]_vars PROVE Latest'
  OBVIOUS
<1>1. ASSUME UNCHANGED <<cur, conn>> PROVE Latest'
  BY <1>1 DEF CallInv, Latest
<1>2. ASSUME NEW c \in Calls, CallStep(c) PROVE Latest'
  BY <1>1, <1>2 DEF CallStep, GetConn, Abort, Register, RegisterComputer, WriteOk, WriteFails,
                    TakeReply, GiveUp, Leave, serverVars, deviceVars
<1>3. ASSUME NEW k \in Socks, ConnStep(k) PROVE Latest'
  BY <1>1, <1>3 DEF ConnStep, PumpReply, PumpUnblocks, PumpEnds, Close, deviceVars
<1>4. CASE Dial
  BY <1>4 DEF Dial, Latest
<1>5. CASE Drop
  BY <1>5 DEF Drop, Latest
<1>6. ASSUME Receive \/ Refuse \/ \E m \in jobs : Execute(m) PROVE Latest'
  BY <1>1, <1>6 DEF Receive, Refuse, Execute, serverVars
<1>7. CASE UNCHANGED vars
  BY <1>1, <1>7 DEF vars, serverVars, deviceVars
<1>8. QED
  BY <1>2, <1>3, <1>4, <1>5, <1>6, <1>7 DEF Next, DeviceStep

LEMMA CallInvInit == Init => CallInv
<1> SUFFICES ASSUME Init PROVE CallInv
  OBVIOUS
<1>1. << >> \in Seq(Frame) /\ 0 \in Keys /\ Len(<< >>) = 0
  BY TidKeys
<1>2. TypeOK
  BY <1>1 DEF Init, TypeOK, CallState, Outcome
<1>3. Keyed /\ Distinct /\ Replies /\ Latest
  BY DEF Init, Keyed, Distinct, Replies, Latest, HasKey
<1>4. Frames
  BY <1>1 DEF Init, Frames, PendingMade, ToDevMade, ToSrvMade, JobsMade
<1>5. QED
  BY <1>2, <1>3, <1>4 DEF CallInv

LEMMA CallInvariant == Spec => []CallInv
<1>1. CallInv /\ [Next]_vars => CallInv'
  <2> SUFFICES ASSUME CallInv, [Next]_vars PROVE CallInv'
    OBVIOUS
  <2>1. TypeOK'
    BY TypeStep DEF CallInv
  <2>2. QED
    BY <2>1, KeyedStep, DistinctStep, FramesStep, RepliesStep, LatestStep DEF CallInv
<1>2. QED
  BY <1>1, CallInvInit, PTL DEF Spec

(***************************************************************************)
(* The command lane keeps its types, for any number of calls and sockets.  *)
(***************************************************************************)
THEOREM TypeCorrect == Spec => []TypeOK
<1>1. CallInv => TypeOK
  BY DEF CallInv
<1>2. QED
  BY <1>1, CallInvariant, PTL

\* A reply that is not the call's own is to a command of an earlier socket,
\* or of the same one, when the caller of either chose the id.
LEMMA WhoseReply ==
  ASSUME CallInv, NEW b \in Calls, NEW c \in Calls, Fits(b, c), b # c
  PROVE  on[b] < on[c] \/ (on[b] = on[c] /\ {b, c} \cap Computer # {})
<1>1. on[b] \in Nat /\ on[c] \in Nat /\ on[b] <= on[c]
  BY DEF CallInv, TypeOK, Fits
<1>2. CASE b \in Computer \/ c \in Computer
  BY <1>1, <1>2
<1>3. CASE b \notin Computer /\ c \notin Computer
  BY <1>1, <1>3 DEF CallInv, Distinct, Fits
<1>4. QED
  BY <1>2, <1>3

(***************************************************************************)
(* Reply correlation (conn.go:469-509, 739-753): a wrong reply has the id  *)
(* of the call it reaches, and a Send is never taken for another Send of   *)
(* its socket.                                                             *)
(***************************************************************************)
THEOREM Correlation == Spec => []MixupOnlyByReusedId
<1>1. CallInv => MixupOnlyByReusedId
  <2> SUFFICES ASSUME CallInv, NEW c \in Calls, answer[c] # NoCall, answer[c] # c
               PROVE  /\ key[answer[c]] = key[c]
                      /\ \/ on[answer[c]] < on[c]
                         \/ on[answer[c]] = on[c] /\ {answer[c], c} \cap Computer # {}
    BY DEF MixupOnlyByReusedId
  <2>1. answer[c] \in Calls /\ Fits(answer[c], c)
    BY DEF CallInv, TypeOK, Replies
  <2>2. QED
    BY <2>1, WhoseReply DEF Fits
<1>2. QED
  BY <1>1, CallInvariant, PTL

-----------------------------------------------------------------------------
(***************************************************************************)
(* The pending map                                                         *)
(***************************************************************************)

\* PendingExact in three parts: an entry is that of a registered call, there
\* is one of each id, and a registered call has its own unless ids clashed.
Owned   == \A k \in Socks : \A e \in pending[k] :
             Registered(e.call) /\ on[e.call] = k /\ e = Entry(e.call)
OneEach == \A k \in Socks : \A e, f \in pending[k] : f.key = e.key => f = e
Kept    == \A c \in Calls : Registered(c) => Entry(c) \in pending[on[c]] \/ Clash(on[c], key[c])

PendingInv == Owned /\ OneEach /\ Kept

LEMMA PendingInit == Init => PendingInv
  BY DEF Init, PendingInv, Owned, OneEach, Kept, Registered

\* A clash is for ever: both calls keep their names.
LEMMA ClashStays ==
  ASSUME CallInv, Stable, NEW k, NEW i, i # 0, Clash(k, i)
  PROVE  Clash(k, i)'
<1>1. PICK a \in Calls \ Computer, x \in Computer :
        on[a] = k /\ on[x] = k /\ key[a] = i /\ key[x] = i
  BY DEF Clash
<1>2. /\ on'[a] = k /\ key'[a] = i
      /\ on'[x] = k /\ key'[x] = i
  BY <1>1 DEF Stable, HasKey
<1>3. QED
  BY <1>1, <1>2 DEF Clash

\* Two registered calls of one id on one socket: ids have clashed.
LEMMA TwoOfOneId ==
  ASSUME CallInv, PendingInv, NEW b \in Calls, NEW c \in Calls, b # c, Registered(b), Registered(c),
         on[b] = on[c], key[b] = key[c]
  PROVE  Clash(on[c], key[c])
<1>1. on[c] \in Socks
  BY DEF CallInv, TypeOK, Keyed, Registered, Socks, HasKey
<1>2. Entry(b).key = Entry(c).key /\ Entry(b) # Entry(c)
  BY DEF Entry
<1>3. QED
  BY <1>1, <1>2 DEF PendingInv, OneEach, Kept

\* A step that changes neither the map nor who is registered.
LEMMA PendingFrame ==
  ASSUME CallInv, Stable, PendingInv, UNCHANGED <<key, pending>>,
         \A c \in Calls : /\ Registered(c)' = Registered(c)
                          /\ Registered(c) => on'[c] = on[c]
  PROVE  PendingInv'
<1>1. \A k \in Socks : \A e \in pending[k] : e.call \in Calls
  BY DEF CallInv, TypeOK, Frame
<1>2. Owned' /\ OneEach'
  BY <1>1 DEF PendingInv, Owned, OneEach, Entry
<1>3. ASSUME NEW c \in Calls, Registered(c)' PROVE Entry(c)' \in pending'[on'[c]] \/ Clash(on[c], key[c])'
  <2>1. Registered(c) /\ on'[c] = on[c] /\ key'[c] = key[c] /\ key[c] # 0
    BY <1>3 DEF CallInv, Keyed, Registered, HasKey
  <2>2. CASE Entry(c) \in pending[on[c]]
    BY <2>1, <2>2 DEF Entry
  <2>3. CASE Clash(on[c], key[c])
    <3>1. PICK k, i : k = on[c] /\ i = key[c]
      OBVIOUS
    <3>2. Clash(k, i)'
      BY <2>1, <2>3, <3>1, ClashStays
    <3>3. QED
      BY <2>1, <3>1, <3>2 DEF Clash
  <2>4. QED
    BY <2>1, <2>2, <2>3 DEF PendingInv, Kept
<1>4. QED
  BY <1>2, <1>3 DEF PendingInv, Kept, Clash

\* A call enters the map under an id; a waiter of its socket that had the id
\* before is no longer in the map, and then the ids clash.
LEMMA PendingEnter ==
  ASSUME CallInv, Stable, PendingInv, NEW c \in Calls, NEW i \in Keys, i # 0, on[c] \in Socks, ~Registered(c),
         on' = on, key' = [key EXCEPT ![c] = i], pc' = [pc EXCEPT ![c] = "ready"],
         pending' = [pending EXCEPT ![on[c]] = Insert(@, i, c)],
         \A b \in Calls \ {c} : Registered(b) /\ on[b] = on[c] /\ key[b] = i =>
            Clash(on[c], i) \/ (c \notin Computer /\ b \in Computer)
  PROVE  PendingInv'
<1>1. /\ pc \in [Calls -> CallState] /\ key \in [Calls -> Keys] /\ pending \in [Socks -> SUBSET Frame]
  BY DEF CallInv, TypeOK
<1>2. \A b \in Calls : b # c => Registered(b)' = Registered(b) /\ key'[b] = key[b]
  BY <1>1 DEF Registered
<1>3. Registered(c)' /\ key'[c] = i
  BY <1>1 DEF Registered
<1>4. \A k \in Socks : \A e \in pending[k] :
        e.call \in Calls /\ e.call # c /\ on[e.call] = k /\ e = Entry(e.call) /\ Registered(e.call)
  BY <1>1 DEF PendingInv, Owned, Frame
<1>5. \A k \in Socks : \A e \in pending'[k] :
        \/ e \in pending[k] /\ (k = on[c] => e.key # i)
        \/ k = on[c] /\ e = [key |-> i, call |-> c]
  BY <1>1 DEF Insert
<1>6. Owned'
  <2> SUFFICES ASSUME NEW k \in Socks, NEW e \in pending'[k]
               PROVE  Registered(e.call)' /\ on'[e.call] = k /\ e = [key |-> key'[e.call], call |-> e.call]
    BY DEF Owned, Entry
  <2>1. CASE e \in pending[k]
    BY <1>2, <1>4, <2>1 DEF Entry
  <2>2. CASE k = on[c] /\ e = [key |-> i, call |-> c]
    BY <1>3, <2>2
  <2>3. QED
    BY <1>5, <2>1, <2>2
<1>7. OneEach'
  BY <1>5 DEF PendingInv, OneEach
<1>8. ASSUME NEW b \in Calls, Registered(b)' PROVE Entry(b)' \in pending'[on'[b]] \/ Clash(on[b], key[b])'
  <2>1. CASE b = c
    <3>1. [key |-> i, call |-> c] \in pending'[on[c]]
      BY <1>1 DEF Insert
    <3>2. QED
      BY <1>3, <2>1, <3>1 DEF Entry
  <2>2. CASE b # c
    <3>1. Registered(b) /\ key'[b] = key[b] /\ key[b] # 0 /\ on[b] \in Socks
      BY <1>2, <1>8, <2>2 DEF CallInv, TypeOK, Keyed, Registered, HasKey, Socks
    <3>2. PICK k, n : k = on[b] /\ n = key[b]
      OBVIOUS
    <3>3. Clash(k, n)' => Clash(on[b], key[b])'
      BY <3>1, <3>2 DEF Clash
    <3>4. CASE Clash(on[b], key[b])
      BY <3>1, <3>2, <3>3, <3>4, ClashStays
    <3>5. CASE Entry(b) \in pending[on[b]] /\ (on[b] = on[c] => key[b] # i)
      <4>1. Entry(b) \in pending'[on[b]]
        BY <1>1, <3>1, <3>5 DEF Insert, Entry
      <4>2. QED
        BY <3>1, <4>1 DEF Entry
    <3>6. CASE on[b] = on[c] /\ key[b] = i /\ c \notin Computer /\ b \in Computer
      BY <1>3, <3>1, <3>6 DEF Clash
    <3>7. QED
      BY <2>2, <3>1, <3>4, <3>5, <3>6 DEF PendingInv, Kept
  <2>3. QED
    BY <2>1, <2>2
<1>9. QED
  BY <1>6, <1>7, <1>8 DEF PendingInv, Kept

\* The deferred delete takes out one's own entry, or a stranger's whose id
\* clashed with one's own.
LEMMA PendingLeave ==
  ASSUME CallInv, Stable, PendingInv, NEW c \in Calls, Leave(c)
  PROVE  PendingInv'
<1>1. /\ pc \in [Calls -> CallState] /\ pending \in [Socks -> SUBSET Frame]
      /\ pc[c] = "leaving" /\ pc' = [pc EXCEPT ![c] = "done"] /\ UNCHANGED <<on, key>>
      /\ pending' = [pending EXCEPT ![on[c]] = Delete(@, key[c])]
  BY DEF CallInv, TypeOK, Leave
<1>2. \A b \in Calls : b # c => Registered(b)' = Registered(b)
  BY <1>1 DEF Registered
<1>3. Registered(c) /\ ~Registered(c)' /\ on[c] \in Socks
  BY <1>1 DEF CallInv, TypeOK, Keyed, Registered, HasKey, Socks
<1>4. \A k \in Socks : \A e \in pending'[k] : e \in pending[k] /\ (k = on[c] => e.key # key[c])
  BY <1>1 DEF Delete
<1>5. \A k \in Socks : \A e \in pending[k] : e.call \in Calls
  BY <1>1 DEF Frame
<1>6. Owned'
  BY <1>1, <1>2, <1>4, <1>5 DEF PendingInv, Owned, Entry
<1>7. OneEach'
  BY <1>4 DEF PendingInv, OneEach
<1>8. ASSUME NEW b \in Calls, Registered(b)' PROVE Entry(b)' \in pending'[on'[b]] \/ Clash(on[b], key[b])'
  <2>1. /\ b # c /\ Registered(b) /\ on[b] \in Socks
        /\ Clash(on[b], key[b])' = Clash(on[b], key[b]) /\ Entry(b)' = Entry(b)
    BY <1>1, <1>2, <1>3, <1>8 DEF CallInv, TypeOK, Keyed, Registered, HasKey, Socks, Clash, Entry
  <2>2. CASE on[b] = on[c] /\ key[b] = key[c]
    BY <1>3, <2>1, <2>2, TwoOfOneId
  <2>3. CASE ~(on[b] = on[c] /\ key[b] = key[c])
    BY <1>1, <2>1, <2>3 DEF PendingInv, Kept, Delete, Entry
  <2>4. QED
    BY <2>2, <2>3
<1>9. QED
  BY <1>6, <1>7, <1>8 DEF PendingInv, Kept

LEMMA PendingStep == ASSUME CallInv, PendingInv, [Next]_vars PROVE PendingInv'
<1>0. Stable
  BY StableStep
<1>1. UNCHANGED <<key, pending, pc, on>> => PendingInv'
  BY <1>0, PendingFrame DEF Registered
<1>2. pc \in [Calls -> CallState] /\ on \in [Calls -> 0..conn] /\ seq \in [Socks -> Nat]
  BY DEF CallInv, TypeOK
<1>3. ASSUME NEW c \in Calls, NEW st \in CallState, UNCHANGED <<key, pending, on>>,
             pc' = [pc EXCEPT ![c] = st], Registered(c) <=> st \in {"ready", "waiting", "leaving"}
      PROVE  PendingInv'
  <2>1. \A b \in Calls : Registered(b)' = Registered(b)
    BY <1>2, <1>3 DEF Registered
  <2>2. QED
    BY <1>0, <1>3, <2>1, PendingFrame
<1>4. ASSUME NEW c \in Calls, CallStep(c) PROVE PendingInv'
  <2> USE DEF Registered
  <2>1. CASE GetConn(c)
    <3>1. \A b \in Calls : Registered(b)' = Registered(b) /\ (Registered(b) => on'[b] = on[b])
      BY <1>2, <2>1 DEF GetConn
    <3>2. QED
      BY <1>0, <2>1, <3>1, PendingFrame DEF GetConn, serverVars
  <2>2. CASE Abort(c)
    BY <1>3, <2>2 DEF Abort, Return, CallState, serverVars
  <2>3. CASE Register(c)
    <3>1. /\ on[c] \in Socks /\ seq[on[c]] + 1 \in Keys /\ seq[on[c]] + 1 # 0
          /\ ~Registered(c) /\ c \notin Computer
      BY <2>3, TidKeys DEF Register, CallInv, TypeOK, Keyed, Socks
    <3>2. ASSUME NEW b \in Calls, Registered(b), on[b] = on[c], key[b] = seq[on[c]] + 1 PROVE b \in Computer
      BY <1>2, <3>1, <3>2 DEF CallInv, Keyed
    <3>3. /\ key' = [key EXCEPT ![c] = seq[on[c]] + 1] /\ pc' = [pc EXCEPT ![c] = "ready"] /\ on' = on
          /\ pending' = [pending EXCEPT ![on[c]] = Insert(@, seq[on[c]] + 1, c)]
      BY <2>3 DEF Register
    <3>4. QED
      BY <1>0, <3>1, <3>2, <3>3, PendingEnter
  <2>4. CASE RegisterComputer(c)
    <3>1. CASE \E e \in pending[on[c]] : e.key = Tid[c]
      BY <1>3, <2>4, <3>1 DEF RegisterComputer, Return, CallState
    <3>2. CASE ~ \E e \in pending[on[c]] : e.key = Tid[c]
      <4>1. /\ on[c] \in Socks /\ Tid[c] \in Keys /\ ~Registered(c) /\ c \in Computer
        BY <2>4, TidKeys DEF RegisterComputer, CallInv, TypeOK, Keyed, Socks
      <4>2. ASSUME NEW b \in Calls, Registered(b), on[b] = on[c], key[b] = Tid[c] PROVE Clash(on[c], Tid[c])
        <5>1. Entry(b) \notin pending[on[c]]
          BY <3>2, <4>2 DEF Entry
        <5>2. QED
          BY <4>2, <5>1 DEF PendingInv, Kept
      <4>3. /\ key' = [key EXCEPT ![c] = Tid[c]] /\ pc' = [pc EXCEPT ![c] = "ready"] /\ on' = on
            /\ pending' = [pending EXCEPT ![on[c]] = Insert(@, Tid[c], c)]
        BY <2>4, <3>2 DEF RegisterComputer
      <4>4. Tid[c] # 0
        BY <4>1
      <4>5. QED
        BY <1>0, <4>1, <4>2, <4>3, <4>4, PendingEnter
    <3>3. QED
      BY <3>1, <3>2
  <2>5. CASE WriteOk(c)
    BY <1>3, <2>5 DEF WriteOk, CallState, serverVars
  <2>6. CASE WriteFails(c) \/ TakeReply(c) \/ GiveUp(c)
    BY <1>3, <2>6 DEF WriteFails, TakeReply, GiveUp, Return, CallState, serverVars
  <2>7. CASE Leave(c)
    BY <1>0, <2>7, PendingLeave
  <2>8. QED
    BY <1>4, <2>1, <2>2, <2>3, <2>4, <2>5, <2>6, <2>7 DEF CallStep
<1>5. ASSUME NEW k \in Socks, ConnStep(k) PROVE PendingInv'
  BY <1>1, <1>5 DEF ConnStep, PumpReply, PumpUnblocks, PumpEnds, Close, callVars
<1>6. CASE DeviceStep
  BY <1>1, <1>6 DEF DeviceStep, Dial, Drop, Receive, Refuse, Execute, serverVars, callVars
<1>7. CASE UNCHANGED vars
  BY <1>1, <1>7 DEF vars, serverVars, callVars
<1>8. QED
  BY <1>4, <1>5, <1>6, <1>7 DEF Next

(***************************************************************************)
(* The pending map of a connection holds the entries of its registered     *)
(* calls and no others (conn.go:469-478, 594-606): a map write overwrites  *)
(* an entry, and a deferred delete takes another call's, only when a       *)
(* chosen id is the number of a Send of the same socket.                   *)
(***************************************************************************)
THEOREM MapIsExact == Spec => []PendingExact
<1>1. CallInv /\ PendingInv /\ [Next]_vars => PendingInv'
  BY PendingStep
<1>2. CallInv /\ PendingInv => PendingExact
  BY DEF CallInv, PendingInv, Owned, OneEach, Kept, PendingExact
<1>3. QED
  BY <1>1, <1>2, CallInvariant, PendingInit, PTL DEF Spec

-----------------------------------------------------------------------------
(***************************************************************************)
(* Once: a command is in one place, and a reply means it was handled       *)
(***************************************************************************)
Unsent(c) == pc[c] \in {"idle", "got", "ready"}
Done(c)   == ran[c] # 0 \/ c \in refused
OnWire(c) == \E k \in Socks : \E i \in 1..Len(toDev[k]) : toDev[k][i].call = c
AtWork(c) == \E m \in jobs : m.call = c

\* A command is written once, after its call is registered, and taken off the
\* wire before it is worked off.
Travels ==
  /\ \A k, l \in Socks : \A i \in 1..Len(toDev[k]), j \in 1..Len(toDev[l]) :
       toDev[k][i].call = toDev[l][j].call => k = l /\ i = j
  /\ \A c \in Calls : /\ OnWire(c) \/ AtWork(c) \/ Done(c) => ~Unsent(c)
                      /\ OnWire(c) \/ AtWork(c) => ~Done(c)
                      /\ OnWire(c) => ~AtWork(c)
                      /\ ran[c] \in {0, 1} /\ (c \in refused => ran[c] = 0)

\* Every reply, wherever it is, is to a command that was handled.
RepliesDone ==
  /\ \A k \in Socks : /\ \A i \in 1..Len(toSrv[k]) : Done(toSrv[k][i].call)
                      /\ stuck[k] # NoSend => Done(stuck[k].by)
  /\ \A c \in Calls : box[c] # NoCall => Done(box[c])

\* What a call has been told follows from how far it is.
Told ==
  \A c \in Calls : /\ outcome[c] = "none" <=> Unsent(c) \/ pc[c] = "waiting"
                   /\ outcome[c] = "none" => answer[c] = NoCall

OnceInv == Travels /\ RepliesDone /\ Told

LEMMA OnceInit == Init => OnceInv
<1> SUFFICES ASSUME Init PROVE OnceInv
  OBVIOUS
<1>1. \A k \in Socks : toDev[k] = << >> /\ toSrv[k] = << >> /\ Len(<< >>) = 0
  BY DEF Init
<1>2. \A c \in Calls : ~OnWire(c) /\ ~AtWork(c) /\ ~Done(c)
  BY <1>1 DEF Init, OnWire, AtWork, Done
<1>3. Travels
  BY <1>1, <1>2 DEF Init, Travels
<1>4. RepliesDone /\ Told
  BY <1>1 DEF Init, RepliesDone, Told, Unsent
<1>5. QED
  BY <1>3, <1>4 DEF OnceInv

DoneNext(c) == ran'[c] # 0 \/ c \in refused'

\* Steps that handle no command: what was handled stays, and nothing else is.
LEMMA DoneFrame == UNCHANGED <<ran, refused>> => \A c : Done(c)' = Done(c)
  BY DEF Done

LEMMA TravelsFrame ==
  ASSUME Travels, UNCHANGED <<toDev, jobs, ran, refused>>, \A c \in Calls : Unsent(c)' => Unsent(c)
  PROVE  Travels'
<1>1. \A c : OnWire(c)' = OnWire(c) /\ AtWork(c)' = AtWork(c) /\ Done(c)' = Done(c)
  BY DEF OnWire, AtWork, Done
<1>2. QED
  BY <1>1 DEF Travels

LEMMA RepliesDoneFrame ==
  ASSUME RepliesDone, UNCHANGED <<toSrv, stuck, box>>, \A c : Done(c) => Done(c)'
  PROVE  RepliesDone'
  BY DEF RepliesDone

LEMMA ToldFrame == ASSUME Told, UNCHANGED <<pc, outcome, answer>> PROVE Told'
  BY DEF Told, Unsent

\* Frames leave the wire: nothing new travels.
LEMMA TravelsLess ==
  ASSUME CallInv, Travels, cur \in Socks, NEW q \in Seq(Frame), toDev' = [toDev EXCEPT ![cur] = q],
         q = << >> \/ (toDev[cur] # << >> /\ q = Tail(toDev[cur]))
  PROVE  /\ \A k \in Socks : \A i \in 1..Len(toDev'[k]) :
              \E j \in 1..Len(toDev[k]) : toDev'[k][i] = toDev[k][j]
                 /\ (q # << >> /\ k = cur => j = i + 1) /\ (k # cur => j = i)
         /\ \A c : OnWire(c)' => OnWire(c)
         /\ \A k, l \in Socks : \A i \in 1..Len(toDev'[k]), j \in 1..Len(toDev'[l]) :
              toDev'[k][i].call = toDev'[l][j].call => k = l /\ i = j
<1>0. toDev \in [Socks -> Seq(Frame)]
  BY DEF CallInv, TypeOK
<1>1. ASSUME NEW k \in Socks, NEW i \in 1..Len(toDev'[k])
      PROVE  \E j \in 1..Len(toDev[k]) : toDev'[k][i] = toDev[k][j]
                 /\ (q # << >> /\ k = cur => j = i + 1) /\ (k # cur => j = i)
  <2>1. CASE k # cur
    BY <1>0, <1>1, <2>1
  <2>2. CASE k = cur
    <3>1. toDev'[k] = q
      BY <1>0, <2>2
    <3>2. CASE q = << >>
      BY <1>1, <3>1, <3>2
    <3>3. CASE toDev[cur] # << >> /\ q = Tail(toDev[cur])
      <4>1. i + 1 \in 1..Len(toDev[k]) /\ toDev'[k][i] = toDev[k][i + 1]
        BY <1>0, <1>1, <2>2, <3>1, <3>3, QueueFacts
      <4>2. QED
        BY <2>2, <4>1
    <3>4. QED
      BY <3>2, <3>3
  <2>3. QED
    BY <2>1, <2>2
<1>2. \A c : OnWire(c)' => OnWire(c)
  BY <1>1 DEF OnWire
<1>3. ASSUME NEW k \in Socks, NEW l \in Socks, NEW i \in 1..Len(toDev'[k]), NEW j \in 1..Len(toDev'[l]),
             toDev'[k][i].call = toDev'[l][j].call
      PROVE  k = l /\ i = j
  <2>1. PICK a \in 1..Len(toDev[k]) : toDev'[k][i] = toDev[k][a]
                 /\ (q # << >> /\ k = cur => a = i + 1) /\ (k # cur => a = i)
    BY <1>1
  <2>2. PICK b \in 1..Len(toDev[l]) : toDev'[l][j] = toDev[l][b]
                 /\ (q # << >> /\ l = cur => b = j + 1) /\ (l # cur => b = j)
    BY <1>1
  <2>3. k = l /\ a = b
    BY <1>3, <2>1, <2>2 DEF Travels
  <2>4. k = cur => q # << >>
    <3>1. k = cur => toDev'[k] = q
      BY <1>0
    <3>2. q = << >> => Len(q) = 0
      OBVIOUS
    <3>3. QED
      BY <1>3, <3>1, <3>2
  <2>5. i \in Nat /\ j \in Nat
    OBVIOUS
  <2>6. QED
    BY <2>1, <2>2, <2>3, <2>4, <2>5
<1>4. QED
  BY <1>1, <1>2, <1>3

\* The frame that leaves the wire, when it is the first of the current socket.
LEMMA Taken ==
  ASSUME CallInv, Travels, cur # 0, toDev[cur] # << >>,
         toDev' = [toDev EXCEPT ![cur] = Tail(@)], NEW c, c = Head(toDev[cur]).call
  PROVE  /\ cur \in Socks /\ c \in Calls /\ Head(toDev[cur]) \in Frame
         /\ Tail(toDev[cur]) \in Seq(Frame)
         /\ OnWire(c) /\ ~OnWire(c)'
<1>1. cur \in Socks /\ toDev \in [Socks -> Seq(Frame)]
  BY DEF CallInv, TypeOK, Socks
<1>2. /\ Head(toDev[cur]) \in Frame /\ Head(toDev[cur]) = toDev[cur][1] /\ 1 \in 1..Len(toDev[cur])
      /\ Tail(toDev[cur]) \in Seq(Frame)
  BY <1>1, QueueFacts
<1>3. ASSUME NEW k \in Socks, NEW i \in 1..Len(toDev'[k]), toDev'[k][i].call = c
      PROVE  FALSE
  <2>1. CASE k # cur
    <3>1. toDev'[k] = toDev[k]
      BY <1>1, <2>1
    <3>2. QED
      BY <1>1, <1>2, <1>3, <2>1, <3>1 DEF Travels
  <2>2. CASE k = cur
    <3>1. toDev'[k] = Tail(toDev[cur])
      BY <1>1, <2>2
    <3>2. i + 1 \in 1..Len(toDev[cur]) /\ toDev'[k][i] = toDev[cur][i + 1]
      BY <1>1, <1>3, <3>1, QueueFacts
    <3>3. i + 1 = 1
      BY <1>1, <1>2, <1>3, <3>2 DEF Travels
    <3>4. QED
      BY <3>3
  <2>3. QED
    BY <2>1, <2>2
<1>4. QED
  BY <1>1, <1>2, <1>3 DEF OnWire, Frame

\* A reply is written after its command was handled.
LEMMA ReplyDone ==
  ASSUME CallInv, RepliesDone, NEW m \in Frame, Reply(m), \A c \in Calls : Done(c) => DoneNext(c), DoneNext(m.call),
         UNCHANGED <<stuck, box>>
  PROVE  RepliesDone'
<1>1. /\ toSrv \in [Socks -> Seq(Frame)] /\ box \in [Calls -> Calls \cup {NoCall}]
      /\ \A k \in Socks : stuck[k] # NoSend => stuck[k].by \in Calls
  BY DEF CallInv, TypeOK
<1>2. ASSUME NEW k \in Socks, NEW i \in 1..Len(toSrv'[k]) PROVE DoneNext(toSrv'[k][i].call)
  <2>1. toSrv'[k] = toSrv[k] \/ toSrv'[k] = Append(toSrv[k], m)
    BY DEF Reply
  <2>2. (i \in 1..Len(toSrv[k]) /\ toSrv'[k][i] = toSrv[k][i]) \/ toSrv'[k][i] = m
    <3>1. CASE toSrv'[k] = toSrv[k]
      BY <3>1
    <3>2. CASE toSrv'[k] = Append(toSrv[k], m)
      BY <1>1, <3>2, QueueFacts
    <3>3. QED
      BY <2>1, <3>1, <3>2
  <2>3. i \in 1..Len(toSrv[k]) => toSrv[k][i].call \in Calls
    BY <1>1, QueueFacts DEF Frame
  <2>4. QED
    BY <2>2, <2>3 DEF RepliesDone
<1>3. QED
  BY <1>1, <1>2 DEF RepliesDone, Done, DoneNext

LEMMA CallOnce ==
  ASSUME CallInv, OnceInv, NEW c \in Calls, CallStep(c)
  PROVE  OnceInv' /\ UNCHANGED <<ran, refused>>
<1>0. /\ pc \in [Calls -> CallState] /\ outcome \in [Calls -> Outcome]
      /\ answer \in [Calls -> Calls \cup {NoCall}] /\ box \in [Calls -> Calls \cup {NoCall}]
      /\ Travels /\ RepliesDone /\ Told
  BY DEF CallInv, TypeOK, OnceInv
<1>1. ASSUME UNCHANGED <<toDev, jobs, ran, refused>>, Unsent(c)' => Unsent(c),
             \A b \in Calls : b # c => pc'[b] = pc[b]
      PROVE  Travels'
  BY <1>0, <1>1, TravelsFrame DEF Unsent
<1>2. ASSUME UNCHANGED <<toSrv, stuck, box, ran, refused>> PROVE RepliesDone'
  BY <1>0, <1>2, RepliesDoneFrame, DoneFrame
<1>3. ASSUME NEW st \in CallState, pc' = [pc EXCEPT ![c] = st], UNCHANGED <<outcome, answer>>,
             (Unsent(c) \/ pc[c] = "waiting") <=> st \in {"idle", "got", "ready", "waiting"}
      PROVE  Told'
  BY <1>0, <1>3 DEF Told, Unsent
<1>4. ASSUME NEW st \in {"leaving", "done"}, NEW why \in Outcome \ {"none"}, Return(c, st, why),
             \A b \in Calls : b # c => answer'[b] = answer[b]
      PROVE  Told' /\ ~Unsent(c)' /\ \A b \in Calls : b # c => pc'[b] = pc[b]
  BY <1>0, <1>4 DEF Told, Unsent, Return
<1> USE DEF CallState, Outcome, serverVars, deviceVars, wire
<1>5. CASE GetConn(c)
  BY <1>0, <1>1, <1>2, <1>3, <1>5 DEF GetConn, Unsent, OnceInv
<1>6. CASE Abort(c)
  <2>1. PICK why \in Outcome \ {"none"} : Return(c, "done", why)
    BY <1>6 DEF Abort
  <2>2. UNCHANGED <<toDev, jobs, ran, refused, toSrv, stuck, box, answer>>
    BY <1>6 DEF Abort
  <2>3. QED
    BY <1>1, <1>2, <1>4, <2>1, <2>2 DEF OnceInv
<1>7. CASE Register(c)
  BY <1>0, <1>1, <1>2, <1>3, <1>7 DEF Register, Unsent, OnceInv
<1>8. CASE RegisterComputer(c)
  <2>1. UNCHANGED <<toDev, jobs, ran, refused, toSrv, stuck, box, answer>>
    BY <1>8 DEF RegisterComputer
  <2>2. CASE \E e \in pending[on[c]] : e.key = Tid[c]
    <3>1. Return(c, "done", "rejected")
      BY <1>8, <2>2 DEF RegisterComputer
    <3>2. QED
      BY <1>1, <1>2, <1>4, <2>1, <3>1 DEF OnceInv
  <2>3. CASE ~ \E e \in pending[on[c]] : e.key = Tid[c]
    <3>1. pc[c] = "got" /\ pc' = [pc EXCEPT ![c] = "ready"] /\ outcome' = outcome
      BY <1>8, <2>3 DEF RegisterComputer
    <3>2. QED
      BY <1>0, <1>1, <1>2, <1>3, <2>1, <3>1 DEF Unsent, OnceInv
  <2>4. QED
    BY <2>2, <2>3
<1>9. CASE WriteOk(c)
  <2>1. /\ pc[c] = "ready" /\ pc' = [pc EXCEPT ![c] = "waiting"]
        /\ UNCHANGED <<jobs, ran, refused, toSrv, stuck, box, answer, outcome>>
    BY <1>9 DEF WriteOk
  <2>2. RepliesDone' /\ Told'
    BY <1>0, <1>2, <1>3, <2>1 DEF Unsent
  <2> DEFINE m == Entry(c)
  <2>3. /\ on[c] \in Socks /\ m \in Frame /\ m.call = c /\ toDev \in [Socks -> Seq(Frame)]
        /\ ~OnWire(c) /\ ~AtWork(c) /\ ~Done(c)
    <3>1. on[c] \in Socks /\ key[c] \in Keys /\ toDev \in [Socks -> Seq(Frame)]
      BY <2>1 DEF CallInv, TypeOK, Keyed, Socks
    <3>2. m \in Frame /\ m.call = c
      BY <3>1 DEF Frame, Entry
    <3>3. Unsent(c)
      BY <2>1 DEF Unsent
    <3>4. QED
      BY <1>0, <3>1, <3>2, <3>3 DEF Travels
  <2>4. \A b \in Calls : /\ AtWork(b)' = AtWork(b) /\ Done(b)' = Done(b)
                         /\ Unsent(b)' => Unsent(b)
    BY <1>0, <2>1 DEF AtWork, Done, Unsent
  <2>5. ~Unsent(c)'
    BY <1>0, <2>1 DEF Unsent
  <2>6. CASE ~LinkUp(on[c])
    <3>1. toDev' = toDev
      BY <1>9, <2>3, <2>6 DEF WriteOk
    <3>2. QED
      BY <1>0, <2>1, <2>2, <2>4, <3>1, TravelsFrame DEF OnceInv
  <2>7. CASE LinkUp(on[c])
    <3>1. toDev' = [toDev EXCEPT ![on[c]] = Append(@, m)]
      BY <1>9, <2>7 DEF WriteOk, Entry
    <3>2. ASSUME NEW k \in Socks, NEW i \in 1..Len(toDev'[k])
          PROVE  \/ i \in 1..Len(toDev[k]) /\ toDev'[k][i] = toDev[k][i]
                 \/ k = on[c] /\ i = Len(toDev[k]) + 1 /\ toDev'[k][i] = m
      <4>1. CASE k # on[c]
        BY <2>3, <3>1, <3>2, <4>1
      <4>2. CASE k = on[c]
        <5>1. toDev'[k] = Append(toDev[k], m) /\ toDev[k] \in Seq(Frame)
          BY <2>3, <3>1, <4>2
        <5>2. QED
          BY <2>3, <3>2, <4>2, <5>1
      <4>3. QED
        BY <4>1, <4>2
    <3>3. \A b \in Calls : OnWire(b)' => OnWire(b) \/ b = c
      BY <2>3, <3>2 DEF OnWire
    <3>4. \A k, l \in Socks : \A i \in 1..Len(toDev'[k]), j \in 1..Len(toDev'[l]) :
            toDev'[k][i].call = toDev'[l][j].call => k = l /\ i = j
      <4> SUFFICES ASSUME NEW k \in Socks, NEW l \in Socks, NEW i \in 1..Len(toDev'[k]),
                          NEW j \in 1..Len(toDev'[l]), toDev'[k][i].call = toDev'[l][j].call
                   PROVE  k = l /\ i = j
        OBVIOUS
      <4>1. \A a \in Socks : \A b \in 1..Len(toDev[a]) : toDev[a][b].call # c
        BY <2>3 DEF OnWire
      <4>2. \/ j \in 1..Len(toDev[l]) /\ toDev'[l][j] = toDev[l][j]
            \/ l = on[c] /\ j = Len(toDev[l]) + 1 /\ toDev'[l][j] = m
        BY <3>2
      <4>3. \/ i \in 1..Len(toDev[k]) /\ toDev'[k][i] = toDev[k][i]
            \/ k = on[c] /\ i = Len(toDev[k]) + 1 /\ toDev'[k][i] = m
        BY <3>2
      <4> HIDE DEF m
      <4>5. CASE i \in 1..Len(toDev[k]) /\ toDev'[k][i] = toDev[k][i]
        BY <1>0, <2>3, <4>1, <4>2, <4>5 DEF Travels
      <4>6. CASE k = on[c] /\ i = Len(toDev[k]) + 1 /\ toDev'[k][i] = m
        BY <2>3, <4>1, <4>2, <4>6
      <4>4. QED
        BY <4>3, <4>5, <4>6
    <3>5. Travels'
      BY <1>0, <2>1, <2>3, <2>4, <2>5, <3>3, <3>4 DEF Travels
    <3>6. QED
      BY <2>1, <2>2, <3>5 DEF OnceInv
  <2>8. QED
    BY <2>6, <2>7
<1>10. CASE WriteFails(c)
  <2>1. Return(c, "leaving", "gone") /\ UNCHANGED <<toDev, jobs, ran, refused, toSrv, stuck, box, answer>>
    BY <1>10 DEF WriteFails
  <2>2. QED
    BY <1>1, <1>2, <1>4, <2>1 DEF OnceInv
<1>11. CASE TakeReply(c)
  <2>1. /\ Return(c, "leaving", "reply") /\ UNCHANGED <<toDev, jobs, ran, refused, toSrv, stuck>>
        /\ answer' = [answer EXCEPT ![c] = box[c]] /\ box' = [box EXCEPT ![c] = NoCall]
    BY <1>11 DEF TakeReply
  <2>2. RepliesDone'
    BY <1>0, <2>1, DoneFrame DEF RepliesDone
  <2>3. Travels' /\ Told'
    BY <1>0, <1>1, <1>4, <2>1
  <2>4. QED
    BY <2>1, <2>2, <2>3 DEF OnceInv
<1>12. CASE GiveUp(c)
  <2>1. PICK why \in Outcome \ {"none"} : Return(c, "leaving", why)
    BY <1>12 DEF GiveUp
  <2>2. UNCHANGED <<toDev, jobs, ran, refused, toSrv, stuck, box, answer>>
    BY <1>12 DEF GiveUp
  <2>3. QED
    BY <1>1, <1>2, <1>4, <2>1, <2>2 DEF OnceInv
<1>13. CASE Leave(c)
  BY <1>0, <1>1, <1>2, <1>3, <1>13 DEF Leave, Unsent, OnceInv
<1>14. QED
  BY <1>5, <1>6, <1>7, <1>8, <1>9, <1>10, <1>11, <1>12, <1>13 DEF CallStep

LEMMA ConnOnce ==
  ASSUME CallInv, OnceInv, NEW k \in Socks, ConnStep(k)
  PROVE  OnceInv' /\ UNCHANGED <<ran, refused, pc, outcome, answer, on>>
<1>0. /\ toSrv \in [Socks -> Seq(Frame)] /\ pending \in [Socks -> SUBSET Frame]
      /\ box \in [Calls -> Calls \cup {NoCall}]
      /\ stuck \in [Socks -> [by : Calls, to : Calls] \cup {NoSend}]
      /\ Travels /\ RepliesDone /\ Told
  BY DEF CallInv, TypeOK, OnceInv
<1>1. UNCHANGED <<ran, refused, pc, outcome, answer, on, toDev, jobs>>
  BY DEF ConnStep, PumpReply, PumpUnblocks, PumpEnds, Close, callVars, deviceVars, wire
<1>2. Travels' /\ Told' /\ \A c : Done(c)' = Done(c)
  BY <1>0, <1>1, TravelsFrame, ToldFrame, DoneFrame DEF Unsent
<1>3. CASE PumpReply(k)
  <2> DEFINE m == Head(toSrv[k])
  <2>1. m \in Frame /\ Done(m.call) /\ m.call \in Calls
    <3>1. m \in Frame /\ m = toSrv[k][1] /\ 1 \in 1..Len(toSrv[k])
      BY <1>0, <1>3, QueueFacts DEF PumpReply
    <3>2. QED
      BY <1>0, <3>1 DEF RepliesDone, Frame
  <2>2. \A e \in pending[k] : e.call \in Calls
    BY <1>0 DEF Frame
  <2>3. \A j \in Socks : \A i \in 1..Len(toSrv'[j]) : Done(toSrv'[j][i].call)
    <3> SUFFICES ASSUME NEW j \in Socks, NEW i \in 1..Len(toSrv'[j]) PROVE Done(toSrv'[j][i].call)
      OBVIOUS
    <3>1. CASE j # k
      BY <1>0, <1>3, <3>1 DEF PumpReply, RepliesDone
    <3>2. CASE j = k
      <4>1. toSrv'[j] = Tail(toSrv[k]) /\ toSrv[k] # << >>
        BY <1>0, <1>3, <3>2 DEF PumpReply
      <4>2. i + 1 \in 1..Len(toSrv[k]) /\ toSrv'[j][i] = toSrv[k][i + 1]
        BY <1>0, <4>1, QueueFacts
      <4>3. QED
        BY <1>0, <4>2 DEF RepliesDone
    <3>3. QED
      BY <3>1, <3>2
  <2>4. /\ \A c \in Calls : box'[c] # NoCall => Done(box'[c])
        /\ \A j \in Socks : stuck'[j] # NoSend => Done(stuck'[j].by)
    <3>1. CASE UNCHANGED <<pump, stuck, box>>
      BY <1>0, <3>1 DEF RepliesDone
    <3>2. ASSUME NEW e \in pending[k], Deliver(m, e) PROVE <2>4!1 /\ <2>4!2
      BY <1>0, <2>1, <2>2, <3>2 DEF Deliver, RepliesDone
    <3>3. ASSUME NEW e \in pending[k], BlockOn(k, m, e) PROVE <2>4!1 /\ <2>4!2
      BY <1>0, <2>1, <2>2, <3>3 DEF BlockOn, RepliesDone
    <3>4. QED
      BY <1>3, <3>1, <3>2, <3>3 DEF PumpReply
  <2>5. RepliesDone'
    BY <1>2, <2>3, <2>4 DEF RepliesDone
  <2>6. QED
    BY <1>1, <1>2, <2>5 DEF OnceInv
<1>4. CASE PumpUnblocks(k)
  <2>1. box' = [box EXCEPT ![stuck[k].to] = stuck[k].by] /\ UNCHANGED <<stuck, toSrv>>
    BY <1>4 DEF PumpUnblocks, wire
  <2>2. \A c \in Calls : box'[c] # NoCall => Done(box'[c])
    <3>1. CASE stuck[k] = NoSend
      BY <1>0, <2>1, <3>1 DEF NoSend, RepliesDone
    <3>2. CASE stuck[k] # NoSend
      BY <1>0, <2>1, <3>2 DEF RepliesDone
    <3>3. QED
      BY <3>1, <3>2
  <2>3. RepliesDone'
    BY <1>0, <1>2, <2>1, <2>2 DEF RepliesDone
  <2>4. QED
    BY <1>1, <1>2, <2>3 DEF OnceInv
<1>5. CASE PumpEnds(k) \/ Close(k)
  BY <1>0, <1>1, <1>2, <1>5, RepliesDoneFrame DEF PumpEnds, Close, callVars, wire, OnceInv
<1>6. QED
  BY <1>3, <1>4, <1>5 DEF ConnStep

\* What the device does to a command, once.
Handles(c) ==
  /\ HasKey(c) /\ ~Done(c) /\ ~Unsent(c)
  /\ \/ ran' = [ran EXCEPT ![c] = @ + 1] /\ UNCHANGED refused
     \/ refused' = refused \cup {c} /\ UNCHANGED ran

LEMMA HandlesDone ==
  ASSUME Travels, ran \in [Calls -> Nat], NEW c \in Calls, Handles(c)
  PROVE  /\ DoneNext(c) /\ \A b \in Calls : b # c => DoneNext(b) = Done(b)
         /\ \A b \in Calls : ran'[b] \in {0, 1} /\ (b \in refused' => ran'[b] = 0)
BY DEF Handles, Done, DoneNext, Travels

LEMMA DeviceOnce ==
  ASSUME CallInv, OnceInv, DeviceStep
  PROVE  /\ OnceInv' /\ UNCHANGED <<pc, outcome, answer, on>>
         /\ UNCHANGED <<ran, refused>> \/ \E c \in Calls : Handles(c)
<1>0. /\ toDev \in [Socks -> Seq(Frame)] /\ jobs \subseteq Frame /\ ran \in [Calls -> Nat]
      /\ box \in [Calls -> Calls \cup {NoCall}]
      /\ stuck \in [Socks -> [by : Calls, to : Calls] \cup {NoSend}]
      /\ toSrv \in [Socks -> Seq(Frame)]
      /\ Travels /\ RepliesDone /\ Told
  BY DEF CallInv, TypeOK, OnceInv
<1>1. UNCHANGED <<pc, outcome, answer, on, stuck, box>> /\ Told'
  <2>1. UNCHANGED <<pc, outcome, answer, on, box>>
    BY DEF DeviceStep, Dial, Drop, Receive, Refuse, Execute, callVars
  <2>2. UNCHANGED stuck
    BY DEF DeviceStep, Dial, Drop, Receive, Refuse, Execute, serverVars
  <2>3. QED
    BY <1>0, <2>1, <2>2, ToldFrame
<1>2. \A c : Unsent(c)' = Unsent(c)
  BY <1>1 DEF Unsent
<1>3. CASE Dial
  <2>1. UNCHANGED <<toDev, toSrv, jobs, ran, refused>>
    BY <1>3 DEF Dial, wire
  <2>2. QED
    BY <1>0, <1>1, <1>2, <2>1, TravelsFrame, RepliesDoneFrame, DoneFrame DEF OnceInv
<1>4. CASE Drop
  <2>1. /\ UNCHANGED <<toSrv, jobs, ran, refused>>
        /\ cur \in Socks /\ << >> \in Seq(Frame) /\ toDev' = [toDev EXCEPT ![cur] = << >>]
    BY <1>4 DEF Drop, CallInv, TypeOK, Socks
  <2>2. /\ \A c : OnWire(c)' => OnWire(c)
        /\ \A k, l \in Socks : \A i \in 1..Len(toDev'[k]), j \in 1..Len(toDev'[l]) :
              toDev'[k][i].call = toDev'[l][j].call => k = l /\ i = j
    BY <1>0, <2>1, TravelsLess
  <2>3. \A c : AtWork(c)' = AtWork(c) /\ Done(c)' = Done(c)
    BY <2>1 DEF AtWork, Done
  <2>4. Travels'
    BY <1>0, <1>2, <2>1, <2>2, <2>3 DEF Travels
  <2>5. QED
    BY <1>0, <1>1, <2>1, <2>4, RepliesDoneFrame, DoneFrame DEF OnceInv
<1>5. ASSUME cur # 0, toDev[cur] # << >>, toDev' = [toDev EXCEPT ![cur] = Tail(@)],
             NEW m, m = Head(toDev[cur])
      PROVE  /\ m \in Frame /\ m.call \in Calls /\ OnWire(m.call) /\ ~OnWire(m.call)'
             /\ \A c : OnWire(c)' => OnWire(c)
             /\ \A k, l \in Socks : \A i \in 1..Len(toDev'[k]), j \in 1..Len(toDev'[l]) :
                   toDev'[k][i].call = toDev'[l][j].call => k = l /\ i = j
  <2>1. PICK c : c = m.call
    OBVIOUS
  <2>2. /\ cur \in Socks /\ c \in Calls /\ m \in Frame /\ Tail(toDev[cur]) \in Seq(Frame)
        /\ OnWire(c) /\ ~OnWire(c)'
    BY <1>0, <1>5, <2>1, Taken
  <2>3. /\ \A d : OnWire(d)' => OnWire(d)
        /\ \A k, l \in Socks : \A i \in 1..Len(toDev'[k]), j \in 1..Len(toDev'[l]) :
              toDev'[k][i].call = toDev'[l][j].call => k = l /\ i = j
    BY <1>0, <1>5, <2>2, TravelsLess
  <2>4. QED
    BY <2>1, <2>2, <2>3
<1>6. CASE Receive
  <2>1. PICK m : m = Head(toDev[cur])
    OBVIOUS
  <2>2. /\ cur # 0 /\ toDev[cur] # << >> /\ toDev' = [toDev EXCEPT ![cur] = Tail(@)]
        /\ jobs' = jobs \cup {m} /\ UNCHANGED <<toSrv, ran, refused>>
    BY <1>6, <2>1 DEF Receive
  <2>3. /\ m.call \in Calls /\ OnWire(m.call) /\ ~OnWire(m.call)'
        /\ \A c : OnWire(c)' => OnWire(c)
        /\ \A k, l \in Socks : \A i \in 1..Len(toDev'[k]), j \in 1..Len(toDev'[l]) :
              toDev'[k][i].call = toDev'[l][j].call => k = l /\ i = j
    BY <1>5, <2>1, <2>2
  <2>4. \A c : (AtWork(c)' => AtWork(c) \/ c = m.call) /\ Done(c)' = Done(c)
    BY <2>2 DEF AtWork, Done
  <2>5. Travels'
    BY <1>0, <1>2, <2>2, <2>3, <2>4 DEF Travels
  <2>6. QED
    BY <1>0, <1>1, <2>2, <2>5, RepliesDoneFrame, DoneFrame DEF OnceInv
<1>7. ASSUME NEW m \in Frame, Handles(m.call), Reply(m), m.call \in Calls PROVE RepliesDone'
  <2>1. DoneNext(m.call) /\ \A c \in Calls : Done(c) => DoneNext(c)
    <3>1. DoneNext(m.call)
      BY <1>0, <1>7, HandlesDone
    <3>2. \A c \in Calls : Done(c) => DoneNext(c)
      BY <1>0, <1>7, HandlesDone DEF Done, DoneNext
    <3>3. QED
      BY <3>1, <3>2
  <2>2. QED
    BY <1>0, <1>1, <1>7, <2>1, ReplyDone
<1>8. ASSUME NEW c \in Calls, Handles(c), ~OnWire(c)', ~AtWork(c)', \A b : OnWire(b)' => OnWire(b),
             \A b : AtWork(b)' => AtWork(b),
             \A k, l \in Socks : \A i \in 1..Len(toDev'[k]), j \in 1..Len(toDev'[l]) :
                   toDev'[k][i].call = toDev'[l][j].call => k = l /\ i = j
      PROVE  Travels'
  <2>1. /\ \A b \in Calls : b # c => DoneNext(b) = Done(b)
        /\ \A b \in Calls : ran'[b] \in {0, 1} /\ (b \in refused' => ran'[b] = 0)
    BY <1>0, <1>8, HandlesDone
  <2>2. \A b : Done(b)' = DoneNext(b)
    BY DEF Done, DoneNext
  <2>3. ~Unsent(c)
    BY <1>8 DEF Handles
  <2>4. QED
    BY <1>0, <1>2, <1>8, <2>1, <2>2, <2>3 DEF Travels
<1>9. CASE Refuse
  <2>1. PICK m : m = Head(toDev[cur])
    OBVIOUS
  <2>2. /\ cur # 0 /\ toDev[cur] # << >> /\ toDev' = [toDev EXCEPT ![cur] = Tail(@)]
        /\ Reply(m) /\ refused' = refused \cup {m.call} /\ UNCHANGED <<jobs, ran>>
    BY <1>9, <2>1 DEF Refuse
  <2>3. /\ m \in Frame /\ m.call \in Calls /\ OnWire(m.call) /\ ~OnWire(m.call)'
        /\ \A c : OnWire(c)' => OnWire(c)
        /\ \A k, l \in Socks : \A i \in 1..Len(toDev'[k]), j \in 1..Len(toDev'[l]) :
              toDev'[k][i].call = toDev'[l][j].call => k = l /\ i = j
    BY <1>5, <2>1, <2>2
  <2>4. PICK c \in Calls : c = m.call
    BY <2>3
  <2>5. Handles(c) /\ ~AtWork(c)
    <3>1. HasKey(c)
      <4>1. cur \in Socks
        BY <2>2 DEF CallInv, TypeOK, Socks
      <4>2. m = toDev[cur][1] /\ 1 \in 1..Len(toDev[cur])
        BY <1>0, <2>1, <2>2, <4>1, QueueFacts
      <4>3. QED
        BY <2>4, <4>1, <4>2 DEF CallInv, Frames, ToDevMade, MadeFor
    <3>2. QED
      BY <1>0, <2>2, <2>3, <2>4, <3>1 DEF Handles, Travels
  <2>6. \A b : AtWork(b)' = AtWork(b)
    BY <2>2 DEF AtWork
  <2>7. Travels'
    BY <1>8, <2>3, <2>4, <2>5, <2>6
  <2>8. RepliesDone'
    BY <1>7, <2>2, <2>3, <2>4, <2>5
  <2>9. QED
    BY <1>1, <2>5, <2>7, <2>8 DEF OnceInv
<1>10. ASSUME NEW m \in jobs, Execute(m)
       PROVE  OnceInv' /\ \E c \in Calls : Handles(c)
  <2>1. /\ jobs' = jobs \ {m} /\ ran' = [ran EXCEPT ![m.call] = @ + 1] /\ Reply(m)
        /\ UNCHANGED <<refused, toDev>>
    BY <1>10 DEF Execute
  <2>2. PICK c \in Calls : c = m.call
    BY <1>0 DEF Frame
  <2>3. AtWork(c)
    BY <2>2 DEF AtWork
  <2>4. Handles(c) /\ ~OnWire(c)
    <3>1. HasKey(c)
      BY <2>2 DEF CallInv, Frames, JobsMade, MadeFor
    <3>2. QED
      BY <1>0, <2>1, <2>2, <2>3, <3>1 DEF Handles, Travels
  <2>5. \A b : OnWire(b)' = OnWire(b) /\ (AtWork(b)' => AtWork(b))
    BY <2>1 DEF OnWire, AtWork
  <2>6. ~AtWork(c)'
    <3>1. ASSUME NEW n \in jobs, n.call = c PROVE n = m
      <4>1. n.key = key[c] /\ m.key = key[c] /\ m.call = c
        BY <2>2, <3>1 DEF CallInv, Frames, JobsMade, MadeFor
      <4>2. n \in Frame /\ m \in Frame
        BY <1>0
      <4>3. QED
        BY <3>1, <4>1, <4>2 DEF Frame
    <3>2. QED
      BY <2>1, <3>1 DEF AtWork
  <2>7. \A k, l \in Socks : \A i \in 1..Len(toDev'[k]), j \in 1..Len(toDev'[l]) :
              toDev'[k][i].call = toDev'[l][j].call => k = l /\ i = j
    BY <1>0, <2>1 DEF Travels
  <2>8. Travels'
    BY <1>8, <2>4, <2>5, <2>6, <2>7
  <2>9. RepliesDone'
    BY <1>0, <1>7, <2>1, <2>2, <2>4
  <2>10. QED
    BY <1>1, <2>4, <2>8, <2>9 DEF OnceInv
<1>11. QED
  BY <1>1, <1>3, <1>4, <1>6, <1>9, <1>10 DEF DeviceStep, Drop, Receive

LEMMA OnceStep == CallInv /\ OnceInv /\ [Next]_vars => OnceInv'
<1> SUFFICES ASSUME CallInv, OnceInv, [Next]_vars PROVE OnceInv'
  OBVIOUS
<1>1. CASE UNCHANGED vars
  <2>1. UNCHANGED <<toDev, toSrv, jobs, ran, refused, pc, outcome, answer, stuck, box>>
    BY <1>1 DEF vars, serverVars, callVars, deviceVars, wire
  <2>2. QED
    BY <2>1, TravelsFrame, RepliesDoneFrame, ToldFrame, DoneFrame DEF OnceInv, Unsent
<1>2. QED
  BY <1>1, CallOnce, ConnOnce, DeviceOnce DEF Next

LEMMA CountOne == ASSUME NEW S, NEW x PROVE Cardinality(S \cap {x}) = IF x \in S THEN 1 ELSE 0
<1>1. CASE x \in S
  <2>1. S \cap {x} = {x}
    BY <1>1
  <2>2. QED
    BY <1>1, <2>1, FS_Singleton
<1>2. CASE x \notin S
  <2>1. S \cap {x} = {}
    BY <1>2
  <2>2. QED
    BY <1>2, <2>1, FS_EmptySet
<1>3. QED
  BY <1>1, <1>2

-----------------------------------------------------------------------------
(***************************************************************************)
(* The refinement                                                          *)
(***************************************************************************)
Handled == [c \in Calls |-> ran[c] + Cardinality(refused \cap {c})]
Status  == [c \in Calls |->
              IF outcome[c] = "none" THEN IF key[c] = 0 THEN "idle" ELSE "active"
              ELSE IF answer[c] = NoCall THEN "failed"
              ELSE IF answer[c] = c THEN "answered" ELSE "mistaken"]
Link    == [c \in Calls |-> IF key[c] = 0 THEN 0 ELSE on[c]]

LEMMA HandledIs ==
  ASSUME Travels, NEW c \in Calls
  PROVE  Handled[c] = IF Done(c) THEN 1 ELSE 0
<1>1. Handled[c] = ran[c] + IF c \in refused THEN 1 ELSE 0
  BY CountOne DEF Handled
<1>2. QED
  BY <1>1 DEF Travels, Done

LEMMA HandledFrame == UNCHANGED <<ran, refused>> => Handled' = Handled
  BY DEF Handled

\* A call returns without a reply.
LEMMA FailsAbstractly ==
  ASSUME CallInv, OnceInv, NEW c \in Calls, outcome[c] = "none",
         NEW st \in {"leaving", "done"}, NEW why \in Outcome \ {"none"}, Return(c, st, why),
         UNCHANGED <<answer, on, key, ran, refused>>
  PROVE  Abstract!Fail(c)
<1>1. outcome \in [Calls -> Outcome] /\ answer[c] = NoCall
  BY DEF CallInv, TypeOK, OnceInv, Told
<1>2. Status[c] \in {"idle", "active"} /\ Status' = [Status EXCEPT ![c] = "failed"]
  BY <1>1 DEF Status, Return, Outcome
<1>3. QED
  BY <1>2, HandledFrame DEF Abstract!Fail, Abstract!Return, Status, Handled, Link

\* A step that neither names a call, handles a command nor returns is a stutter.
LEMMA Stutters ==
  ASSUME UNCHANGED <<key, ran, refused, answer, outcome>>,
         \A c \in Calls : HasKey(c) => on'[c] = on[c]
  PROVE  UNCHANGED Abstract!vars
<1>1. Status' = Status
  BY DEF Status
<1>2. Link' = Link
  BY DEF Link, HasKey
<1>3. QED
  BY <1>1, <1>2, HandledFrame DEF Abstract!vars, Status, Handled, Link

\* A call is registered under its id.
LEMMA BeginsAbstractly ==
  ASSUME CallInv, OnceInv, NEW c \in Calls, pc[c] = "got", NEW i \in Keys, i # 0,
         key' = [key EXCEPT ![c] = i], UNCHANGED <<on, outcome, answer, ran, refused>>,
         c \notin Computer =>
           \A b \in Calls \ Computer : HasKey(b) /\ on[b] = on[c] => key[b] # i
  PROVE  Abstract!Begin(c)
<1>1. /\ key \in [Calls -> Keys] /\ key[c] = 0 /\ on[c] \in 1..MaxConn
      /\ outcome[c] = "none" /\ key'[c] = i
  BY DEF CallInv, TypeOK, Keyed, HasKey, OnceInv, Told, Unsent
<1>2. Status[c] = "idle" /\ Status' = [Status EXCEPT ![c] = "active"]
  BY <1>1 DEF Status
<1>3. Link' = [Link EXCEPT ![c] = on[c]] /\ Link'[c] = on[c]
  BY <1>1 DEF Link
<1>4. ASSUME c \notin Computer, NEW b \in Calls \ Computer, Link[b] = Link'[c] PROVE key[b] # key'[c]
  <2>1. on[c] # 0
    BY <1>1
  <2>2. HasKey(b) /\ on[b] = on[c]
    BY <1>3, <1>4, <2>1 DEF Link, HasKey
  <2>3. QED
    BY <1>1, <1>4, <2>2
<1>5. key' = [key EXCEPT ![c] = key'[c]] /\ key'[c] # 0
  BY <1>1
<1>6. Handled' = Handled
  BY HandledFrame
<1>7. QED
  BY <1>1, <1>2, <1>3, <1>4, <1>5, <1>6 DEF Abstract!Begin, Status, Handled, Link

LEMMA CallAbstractly ==
  ASSUME CallInv, OnceInv, NEW c \in Calls, CallStep(c)
  PROVE  Abstract!Next \/ UNCHANGED Abstract!vars
<1>0. /\ pc \in [Calls -> CallState] /\ outcome \in [Calls -> Outcome]
      /\ answer \in [Calls -> Calls \cup {NoCall}] /\ box \in [Calls -> Calls \cup {NoCall}]
      /\ Travels /\ RepliesDone /\ Told
  BY DEF CallInv, TypeOK, OnceInv
<1>1. UNCHANGED <<ran, refused>>
  BY CallOnce
<1>2. ASSUME UNCHANGED <<on, key, answer, outcome>> PROVE UNCHANGED Abstract!vars
  BY <1>1, <1>2, Stutters
<1>3. ASSUME Unsent(c) \/ pc[c] = "waiting", NEW st \in {"leaving", "done"},
             NEW why \in Outcome \ {"none"}, Return(c, st, why), UNCHANGED <<answer, on, key>>
      PROVE  Abstract!Next
  BY <1>0, <1>1, <1>3, FailsAbstractly DEF Abstract!Next, Told
<1> USE DEF CallState, Outcome, Unsent
<1>4. CASE GetConn(c)
  <2>1. UNCHANGED <<key, answer, outcome>> /\ \A b \in Calls : HasKey(b) => on'[b] = on[b]
    BY <1>4 DEF GetConn, CallInv, TypeOK, Keyed
  <2>2. QED
    BY <1>1, <2>1, Stutters
<1>5. CASE Abort(c)
  <2>1. PICK why \in Outcome \ {"none"} : Return(c, "done", why)
    BY <1>5 DEF Abort
  <2>2. QED
    BY <1>3, <1>5, <2>1 DEF Abort
<1>6. CASE Register(c)
  <2>1. /\ on[c] \in Socks /\ seq[on[c]] \in Nat /\ seq[on[c]] + 1 \in Keys /\ seq[on[c]] + 1 # 0
        /\ pc[c] = "got" /\ key' = [key EXCEPT ![c] = seq[on[c]] + 1] /\ UNCHANGED <<on, outcome, answer>>
    BY <1>6, TidKeys DEF Register, CallInv, TypeOK, Keyed, Socks
  <2>2. \A b \in Calls \ Computer : HasKey(b) /\ on[b] = on[c] => key[b] # seq[on[c]] + 1
    BY <2>1 DEF CallInv, Keyed
  <2>3. QED
    BY <1>1, <2>1, <2>2, BeginsAbstractly DEF Abstract!Next
<1>7. CASE RegisterComputer(c)
  <2>1. CASE \E e \in pending[on[c]] : e.key = Tid[c]
    BY <1>3, <1>7, <2>1 DEF RegisterComputer
  <2>2. CASE ~ \E e \in pending[on[c]] : e.key = Tid[c]
    <3>1. /\ pc[c] = "got" /\ key' = [key EXCEPT ![c] = Tid[c]] /\ UNCHANGED <<on, outcome, answer>>
          /\ c \in Computer
      BY <1>7, <2>2 DEF RegisterComputer
    <3>2. Tid[c] \in Keys /\ Tid[c] # 0
      BY <3>1, TidKeys
    <3>3. QED
      BY <1>1, <3>1, <3>2, BeginsAbstractly DEF Abstract!Next
  <2>3. QED
    BY <2>1, <2>2
<1>8. CASE WriteOk(c)
  BY <1>2, <1>8 DEF WriteOk
<1>9. CASE WriteFails(c)
  BY <1>3, <1>9 DEF WriteFails
<1>10. CASE TakeReply(c)
  <2>1. /\ pc[c] = "waiting" /\ box[c] # NoCall /\ answer' = [answer EXCEPT ![c] = box[c]]
        /\ outcome' = [outcome EXCEPT ![c] = "reply"]
        /\ UNCHANGED <<on, key>> /\ outcome[c] = "none" /\ key[c] # 0
    BY <1>0, <1>10 DEF TakeReply, Return, Told, CallInv, Keyed, HasKey
  <2>2. PICK b \in Calls : b = box[c]
    BY <1>0, <2>1
  <2>3. Done(b) /\ Fits(b, c)
    BY <1>0, <2>1, <2>2 DEF RepliesDone, CallInv, Replies
  <2>4. Handled[b] = 1
    BY <1>0, <2>3, HandledIs
  <2>5. Status[c] = "active" /\ Status' = [Status EXCEPT ![c] = IF b = c THEN "answered" ELSE "mistaken"]
    BY <1>0, <2>1, <2>2 DEF Status
  <2>6. CASE b = c
    <3>1. Abstract!Answer(c)
      BY <1>1, <2>1, <2>4, <2>5, <2>6, HandledFrame DEF Abstract!Answer, Abstract!Return, Status, Handled, Link
    <3>2. QED
      BY <3>1 DEF Abstract!Next
  <2>7. CASE b # c
    <3>1. b \in Calls \ {c} /\ key[b] = key[c] /\ Link[b] <= Link[c]
      BY <2>3, <2>7 DEF Fits, HasKey, Link
    <3>2. Link' = Link /\ Handled' = Handled
      BY <1>1, <2>1, HandledFrame DEF Link
    <3>3. Abstract!Mistake(c)
      BY <2>1, <2>4, <2>5, <2>7, <3>1, <3>2
      DEF Abstract!Mistake, Abstract!Return, Status, Handled, Link
    <3>4. QED
      BY <3>3 DEF Abstract!Next
  <2>8. QED
    BY <2>6, <2>7
<1>11. CASE GiveUp(c)
  <2>1. PICK why \in Outcome \ {"none"} : Return(c, "leaving", why)
    BY <1>11 DEF GiveUp
  <2>2. QED
    BY <1>3, <1>11, <2>1 DEF GiveUp
<1>12. CASE Leave(c)
  BY <1>2, <1>12 DEF Leave
<1>13. QED
  BY <1>4, <1>5, <1>6, <1>7, <1>8, <1>9, <1>10, <1>11, <1>12 DEF CallStep

LEMMA DeviceAbstractly ==
  ASSUME CallInv, OnceInv, DeviceStep
  PROVE  Abstract!Next \/ UNCHANGED Abstract!vars
<1>0. /\ Travels /\ Told /\ ran \in [Calls -> Nat] /\ pc \in [Calls -> CallState]
      /\ UNCHANGED <<pc, outcome, answer, on>>
  BY DeviceOnce DEF OnceInv, CallInv, TypeOK
<1>1. UNCHANGED key
  BY DEF DeviceStep, Dial, Drop, Receive, Refuse, Execute, callVars
<1>2. CASE UNCHANGED <<ran, refused>>
  BY <1>0, <1>1, <1>2, Stutters
<1>3. ASSUME NEW c \in Calls, Handles(c) PROVE Abstract!Next
  <2>1. Handled[c] = 0
    BY <1>0, <1>3, HandledIs DEF Handles
  <2>2. Handled' = [b \in Calls |-> ran'[b] + IF b \in refused' THEN 1 ELSE 0]
    BY CountOne DEF Handled
  <2>3. \A b \in Calls : Handled[b] = ran[b] + IF b \in refused THEN 1 ELSE 0
    BY CountOne DEF Handled
  <2>4. Handled' = [Handled EXCEPT ![c] = 1]
    <3>1. ran'[c] + (IF c \in refused' THEN 1 ELSE 0) = 1
      BY <1>0, <1>3 DEF Handles, Done
    <3>2. \A b \in Calls : b # c => ran'[b] = ran[b] /\ (b \in refused' <=> b \in refused)
      BY <1>0, <1>3 DEF Handles
    <3>3. Handled = [b \in Calls |-> Handled[b]]
      BY DEF Handled
    <3>4. QED
      BY <2>2, <2>3, <3>1, <3>2, <3>3
  <2>5. Status' = Status /\ Link' = Link /\ key[c] # 0
    BY <1>0, <1>1, <1>3 DEF Status, Link, Handles, HasKey
  <2>6. Abstract!Handle(c)
    BY <1>0, <1>1, <2>1, <2>4, <2>5 DEF Abstract!Handle, Status, Handled, Link
  <2>7. QED
    BY <2>6 DEF Abstract!Next
<1>4. QED
  BY <1>2, <1>3, DeviceOnce

(***************************************************************************)
(* The lane keeps the promise of Send (RemoteCall, conn.go:398-403): every *)
(* step of it is a step of the promise or none, for any number of calls,   *)
(* sockets and reconnects.                                                 *)
(***************************************************************************)
THEOREM Refinement == Spec => ImplementsRemoteCall
<1>1. Init => Abstract!Init
  <2> SUFFICES ASSUME Init PROVE Abstract!Init
    OBVIOUS
  <2>1. Status = [c \in Calls |-> "idle"]
    BY DEF Init, Status
  <2>2. Handled = [c \in Calls |-> 0]
    <3>1. \A c \in Calls : Handled[c] = 0
      BY CountOne DEF Init, Handled
    <3>2. QED
      BY <3>1 DEF Handled
  <2>3. QED
    BY <2>1, <2>2 DEF Init, Abstract!Init, Status, Handled, Link
<1>2. CallInv /\ OnceInv /\ [Next]_vars => [Abstract!Next]_Abstract!vars
  <2> SUFFICES ASSUME CallInv, OnceInv, [Next]_vars
               PROVE  Abstract!Next \/ UNCHANGED Abstract!vars
    OBVIOUS
  <2>1. ASSUME NEW k \in Socks, ConnStep(k) PROVE UNCHANGED Abstract!vars
    <3>1. UNCHANGED <<ran, refused, answer, outcome, on, key>>
      BY <2>1, ConnOnce DEF ConnStep, PumpReply, PumpUnblocks, PumpEnds, Close, callVars
    <3>2. QED
      BY <3>1, Stutters
  <2>2. CASE UNCHANGED vars
    BY <2>2, Stutters DEF vars, callVars, deviceVars
  <2>3. QED
    BY <2>1, <2>2, CallAbstractly, DeviceAbstractly DEF Next
<1>3. CallInv /\ OnceInv /\ [Next]_vars => OnceInv'
  BY OnceStep
<1>4. QED
  BY <1>1, <1>2, <1>3, CallInvariant, OnceInit, PTL DEF Spec, ImplementsRemoteCall, Abstract!Spec
=============================================================================

------------------------ MODULE AgentDispatchProofs ------------------------
(***************************************************************************)
(* The Linux agent behind its socket, for any commands in any order of     *)
(* arrival: no screenshot predates an action, the recorder knows what      *)
(* runs, and no gesture leaves a key or a button of its own held down.     *)
(***************************************************************************)
EXTENDS AgentDispatch, TLAPS

USE CmdsAssumption

-----------------------------------------------------------------------------
(***************************************************************************)
(* The dispatcher's lock.  Types as far as the arguments below need them.  *)
(***************************************************************************)
PC == {"sent", "waiting", "running", "answering", "replied"}

\* What is on the socket has not been accepted; who runs holds the lock; only a stop
\* gives its answer in a second step.
Locked ==
  /\ inbox \in Seq(Cmds) /\ IsInjective(inbox)
  /\ \A i \in DOMAIN inbox : pc[inbox[i]] = "sent"
  /\ pc \in [Cmds -> PC] /\ lock \in Cmds \cup {None}
  /\ \A c \in Cmds : pc[c] \in {"running", "answering"} => lock = c
  /\ \A c \in Cmds : pc[c] = "answering" => Verb[c] = "stop"

\* The screen, the versions seen of it, and the cache's entry.
Views ==
  /\ screen \in Nat /\ gen \in Nat
  /\ floor \in [Cmds -> 0..screen] /\ shot \in [Cmds -> Nat \cup {None}]
  /\ entry = None \/ entry \in [frame : Nat, gen : 0..gen, young : BOOLEAN]

\* An entry of the present generation shows what is on the screen, and a command that
\* may change the screen has begun a generation that has no entry.
CacheFresh ==
  /\ entry # None /\ entry.gen = gen => entry.frame = screen
  /\ \A c \in Cmds : pc[c] # "replied" => shot[c] = None
  /\ \A c \in Cmds : pc[c] = "running" /\ Verb[c] # "screenshot" => entry = None \/ entry.gen < gen

FreshInv == Locked /\ Views /\ CacheFresh /\ FreshShot

LEMMA Shorter ==
  ASSUME NEW q \in Seq(Cmds), IsInjective(q), q # << >>
  PROVE  /\ Head(q) \in Cmds /\ Tail(q) \in Seq(Cmds) /\ IsInjective(Tail(q))
         /\ \E i \in DOMAIN q : Head(q) = q[i]
         /\ \A i \in DOMAIN Tail(q) : Tail(q)[i] # Head(q) /\ \E j \in DOMAIN q : Tail(q)[i] = q[j]
  <1>1. Head(q) = q[1] /\ 1 \in DOMAIN q /\ Tail(q) \in Seq(Cmds)
    OBVIOUS
  <1>2. \A i \in DOMAIN Tail(q) : i + 1 \in DOMAIN q /\ Tail(q)[i] = q[i + 1] /\ i \in Nat /\ i >= 1
    OBVIOUS
  <1>3. IsInjective(Tail(q))
    BY <1>2 DEF IsInjective
  <1>4. \A i \in DOMAIN Tail(q) : Tail(q)[i] # Head(q)
    BY <1>1, <1>2 DEF IsInjective
  <1> QED BY <1>1, <1>2, <1>3, <1>4

LEMMA LockedInit == Init => Locked
  BY DEF Init, Locked, PC

LEMMA LockedStep ==
  ASSUME Locked, [Next]_vars PROVE Locked'
  <1> USE DEF Goto, Finish
  <1>0. /\ pc \in [Cmds -> PC] /\ inbox \in Seq(Cmds) /\ IsInjective(inbox)
        /\ \A i \in DOMAIN inbox : pc[inbox[i]] = "sent"
    BY DEF Locked
  <1>1. CASE UNCHANGED <<inbox, pc, lock>>
    BY <1>1 DEF Locked, PC
  <1>2. ASSUME NEW c \in Cmds, Refuse(c) \/ Accept(c) PROVE Locked'
    <2>1. /\ inbox # << >> /\ c = Head(inbox) /\ inbox' = Tail(inbox) /\ UNCHANGED lock
          /\ pc' = [pc EXCEPT ![c] = "replied"] \/ pc' = [pc EXCEPT ![c] = "waiting"]
      BY <1>2 DEF Refuse, Accept
    <2>2. /\ inbox' \in Seq(Cmds) /\ IsInjective(inbox')
          /\ \A i \in DOMAIN inbox' : pc'[inbox'[i]] = "sent"
      <3>1. \A i \in DOMAIN inbox' : inbox'[i] # c /\ \E j \in DOMAIN inbox : inbox'[i] = inbox[j]
        BY <1>0, <2>1, Shorter
      <3>2. \A i \in DOMAIN inbox' : pc'[inbox'[i]] = pc[inbox'[i]]
        BY <1>0, <2>1, <3>1
      <3> QED BY <1>0, <2>1, <3>1, <3>2, Shorter
    <2> QED BY <1>0, <2>1, <2>2 DEF Locked, PC
  <1>3. ASSUME NEW c \in Cmds, UNCHANGED inbox, pc[c] # "sent",
               \E q \in PC : pc' = [pc EXCEPT ![c] = q]
        PROVE  inbox' \in Seq(Cmds) /\ IsInjective(inbox') /\ \A i \in DOMAIN inbox' : pc'[inbox'[i]] = "sent"
    <2>1. \A d \in Cmds : d # c => pc'[d] = pc[d]
      BY <1>0, <1>3
    <2>2. \A i \in DOMAIN inbox : inbox[i] # c /\ inbox[i] \in Cmds
      BY <1>0, <1>3
    <2> QED BY <1>0, <1>3, <2>1, <2>2
  <1>4. ASSUME NEW c \in Cmds, Execute(c) PROVE Locked'
    BY <1>0, <1>3, <1>4 DEF Execute, Locked, PC
  <1>5. ASSUME NEW c \in Cmds, Work(c) PROVE Locked'
    <2>1. CASE TypeText(c) \/ CompositeStep(c)
      BY <1>1, <2>1 DEF TypeText, CompositeStep
    <2>2. CASE Stop(c)
      BY <1>0, <1>3, <2>2 DEF Stop, Locked, PC
    <2>3. CASE pc[c] \in {"running", "answering"} /\ Finish(c) /\ UNCHANGED inbox
      BY <1>0, <1>3, <2>3 DEF Locked, PC
    <2> QED BY <1>5, <2>1, <2>2, <2>3 DEF Work, LocalWork, Transfer, Drive, Unable, StepsDone,
           CompositeFails, ShotCached, ShotCaptured, ShotFails, Start, StartFails, Answer
  <1> QED BY <1>1, <1>2, <1>4, <1>5 DEF Next, vars, Ages, Background, TimerFires, UploadBegins, UploadEnds

-----------------------------------------------------------------------------
(***************************************************************************)
(* Screenshots                                                             *)
(***************************************************************************)
LEMMA FreshInit == Init => FreshInv
  BY LockedInit DEF Init, FreshInv, Views, CacheFresh, FreshShot

LEMMA FreshStep ==
  ASSUME FreshInv, [Next]_vars PROVE FreshInv'
  <1> USE DEF Views, CacheFresh, FreshShot
  <1>0. Locked /\ Locked' /\ Views /\ CacheFresh /\ FreshShot
    BY LockedStep DEF FreshInv
  <1>1. ASSUME UNCHANGED <<screen, cacheVars>>,
               \A c \in Cmds : \/ pc'[c] = pc[c]
                               \/ pc[c] # "replied" /\ pc'[c] \in {"waiting", "answering", "replied"}
        PROVE  FreshInv'
    BY <1>0, <1>1 DEF FreshInv, cacheVars
  <1>2. ASSUME NEW c \in Cmds, Refuse(c) \/ Accept(c) PROVE FreshInv'
    <2>1. /\ inbox # << >> /\ c = Head(inbox) /\ UNCHANGED <<screen, cacheVars>>
          /\ pc' = [pc EXCEPT ![c] = "replied"] \/ pc' = [pc EXCEPT ![c] = "waiting"]
      BY <1>2 DEF Refuse, Accept, Goto, inputVars
    <2>2. pc[c] = "sent"
      BY <1>0, <2>1, Shorter DEF Locked
    <2> QED BY <1>0, <1>1, <2>1, <2>2 DEF Locked
  <1>3. ASSUME NEW c \in Cmds, Execute(c) PROVE FreshInv'
    <2>1. /\ pc' = [pc EXCEPT ![c] = "running"] /\ UNCHANGED <<screen, entry, shot>>
          /\ gen' \in Nat /\ gen <= gen' /\ (Verb[c] # "screenshot" => gen < gen')
          /\ (Verb[c] = "screenshot" => gen' = gen)
          /\ floor' = [floor EXCEPT ![c] = screen]
      BY <1>0, <1>3 DEF Execute, Goto
    <2>2. shot[c] = None /\ \A d \in Cmds : pc[d] # "running"
      BY <1>0, <1>3 DEF Execute, Locked
    <2>3. entry # None => entry.gen <= gen /\ entry.gen \in Nat /\ entry.frame \in Nat /\ entry.young \in BOOLEAN
      BY <1>0
    <2>4. Views'
      <3>1. floor' \in [Cmds -> 0..screen]
        BY <1>0, <2>1
      <3>2. entry = None \/ entry \in [frame : Nat, gen : 0..gen', young : BOOLEAN]
        BY <1>0, <2>1, <2>3
      <3> QED BY <1>0, <2>1, <3>1, <3>2
    <2>5. CacheFresh'
      BY <1>0, <2>1, <2>2, <2>3 DEF Locked
    <2>6. FreshShot'
      BY <1>0, <2>1, <2>2
    <2> QED BY <1>0, <2>4, <2>5, <2>6 DEF FreshInv
  <1>4. ASSUME NEW c \in Cmds, pc[c] = "running", Verb[c] # "screenshot", UNCHANGED cacheVars,
               screen' \in {screen, screen + 1}, UNCHANGED pc \/ Finish(c)
        PROVE  FreshInv'
    <2>1. entry = None \/ entry.gen < gen
      BY <1>0, <1>4
    <2>2. screen' \in Nat /\ screen <= screen'
      BY <1>0, <1>4
    <2>3. floor \in [Cmds -> 0..screen']
      BY <1>0, <2>2
    <2>4. Views' /\ FreshShot'
      BY <1>0, <1>4, <2>2, <2>3 DEF cacheVars
    <2>5. CacheFresh'
      BY <1>0, <1>4, <2>1 DEF cacheVars, Finish, Goto, Locked
    <2> QED BY <1>0, <2>4, <2>5 DEF FreshInv
  <1>5. ASSUME NEW c \in Cmds, ShotCached(c) PROVE FreshInv'
    <2>1. entry.frame = screen /\ shot' = [shot EXCEPT ![c] = screen] /\ pc[c] = "running"
          /\ UNCHANGED <<screen, gen, entry, floor>> /\ pc' = [pc EXCEPT ![c] = "replied"]
      BY <1>0, <1>5 DEF ShotCached, Usable, Finish, Goto, inputVars
    <2> QED BY <1>0, <2>1 DEF FreshInv, Locked
  <1>6. ASSUME NEW c \in Cmds, ShotCaptured(c) PROVE FreshInv'
    <2>1. /\ shot' = [shot EXCEPT ![c] = screen] /\ pc[c] = "running" /\ Verb[c] = "screenshot"
          /\ UNCHANGED <<screen, gen, floor>> /\ pc' = [pc EXCEPT ![c] = "replied"]
          /\ entry' = [frame |-> screen, gen |-> gen, young |-> TRUE]
      BY <1>6 DEF ShotCaptured, Finish, Goto, inputVars
    <2>2. entry' \in [frame : Nat, gen : 0..gen, young : BOOLEAN] /\ entry'.frame = screen
      BY <1>0, <2>1
    <2>3. \A d \in Cmds : pc'[d] # "running"
      BY <1>0, <2>1 DEF Locked
    <2> QED BY <1>0, <2>1, <2>2, <2>3 DEF FreshInv, Locked
  <1>7. CASE Ages
    <2>1. UNCHANGED <<screen, gen, floor, shot, pc>> /\ entry # None /\ entry' = [entry EXCEPT !.young = FALSE]
      BY <1>7 DEF Ages, inputVars
    <2>2. entry' \in [frame : Nat, gen : 0..gen, young : BOOLEAN] /\ entry'.gen = entry.gen /\ entry'.frame = entry.frame
      BY <1>0, <2>1
    <2> QED BY <1>0, <2>1, <2>2 DEF FreshInv
  <1>8. ASSUME NEW c \in Cmds, Work(c) PROVE FreshInv'
    <2>1. CASE Drive(c) \/ TypeText(c) \/ Unable(c) \/ CompositeStep(c) \/ StepsDone(c) \/ CompositeFails(c)
      BY <1>4, <2>1 DEF Drive, TypeText, Unable, CompositeStep, StepsDone, CompositeFails, inputVars
    <2>2. CASE Transfer(c) \/ ShotFails(c) \/ Start(c) \/ StartFails(c) \/ Stop(c) \/ Answer(c)
      <3>1. /\ UNCHANGED <<screen, cacheVars>> /\ pc[c] \in {"running", "answering"}
            /\ pc' = [pc EXCEPT ![c] = "replied"] \/ pc' = [pc EXCEPT ![c] = "answering"]
        BY <2>2 DEF Transfer, ShotFails, Start, StartFails, Stop, Answer, Finish, Goto, inputVars
      <3> QED BY <1>0, <1>1, <3>1 DEF Locked
    <2> QED BY <1>5, <1>6, <1>8, <2>1, <2>2 DEF Work, LocalWork
  <1>9. CASE UNCHANGED <<screen, cacheVars, pc>>
    BY <1>1, <1>9
  <1> QED BY <1>2, <1>3, <1>7, <1>8, <1>9 DEF Next, vars, Background, TimerFires, UploadBegins, UploadEnds, inputVars

\* No screenshot predates an action, in whatever order the goroutines get the lock.
THEOREM ScreenshotsFresh == Spec => []FreshShot
  <1>1. FreshInv => FreshShot
    BY DEF FreshInv
  <1> QED BY <1>1, FreshInit, FreshStep, PTL DEF Spec

-----------------------------------------------------------------------------
(***************************************************************************)
(* The recorder                                                            *)
(***************************************************************************)
Uploading(e) == uploads[e] \in {"quitting", "uploading"}

\* A recording is named by a start that has been answered, and handed over once.
Recordings ==
  /\ uploads \in [Cmds -> {"off", "quitting", "uploading", "done"}]
  /\ phase \in {"idle", "recording", "uploading", "ready", "failed"}
  /\ cmd \in Cmds \cup {None} /\ blob \in Cmds \cup {None} /\ encoding \subseteq Cmds
  /\ notice \in BOOLEAN /\ overlap \in BOOLEAN /\ crossed \in BOOLEAN
  /\ \A e \in Cmds : uploads[e] # "off" => pc[e] = "replied"
  /\ cmd # None => pc[cmd] = "replied" /\ uploads[cmd] = "off"
  /\ blob # None => uploads[blob] = "done"

\* As long as no start came during an upload, one recording is under way at most.
Single ==
  ~overlap =>
    /\ encoding = IF phase = "recording" THEN {cmd} ELSE {}
    /\ phase = "recording" => cmd # None
    /\ \A e \in Cmds : Uploading(e) => phase = "uploading"
    /\ \A e, f \in Cmds : Uploading(e) /\ Uploading(f) => e = f

\* As long as no start and stop overlap, the notice is up while something records.
Shown ==
  ~crossed /\ ~overlap =>
    /\ UnderWay("start") = {} \/ UnderWay("stop") = {}
    /\ UnderWay("start") # {} => notice
    /\ encoding # {} => notice \/ UnderWay("stop") # {}
    /\ \A c \in Cmds : pc[c] = "answering" => encoding = {}

RecInv == Locked /\ Recordings /\ Single /\ Shown

LEMMA RecInit == Init => RecInv
  <1> SUFFICES ASSUME Init PROVE RecInv
    OBVIOUS
  <1>1. Recordings
    BY DEF Init, Recordings
  <1>2. Single
    BY DEF Init, Single, Uploading
  <1>3. UnderWay("start") = {} /\ UnderWay("stop") = {} /\ encoding = {}
    BY DEF Init, UnderWay
  <1>4. Shown
    BY <1>3 DEF Shown
  <1> QED BY <1>1, <1>2, <1>4, LockedInit DEF RecInv

\* A recording is handed over: it is the only one, and nothing encodes any more.
LEMMA HandedOver ==
  ASSUME Recordings, Single, Stoppable, HandOver,
         UNCHANGED <<notice, overlap, crossed>>, \A e \in Cmds : pc[e] = "replied" => pc'[e] = "replied"
  PROVE  Recordings' /\ Single' /\ (~overlap => encoding' = {})
  <1>1. cmd \in Cmds /\ phase = "recording" /\ uploads[cmd] = "off" /\ pc'[cmd] = "replied"
    BY DEF Stoppable, Recordings
  <1>2. /\ uploads' = [uploads EXCEPT ![cmd] = "quitting"] /\ phase' = "uploading" /\ cmd' = None
        /\ encoding' = encoding \ {cmd} /\ UNCHANGED blob
    BY DEF HandOver
  <1>3. Recordings'
    BY <1>1, <1>2 DEF Recordings
  <1>4. Single' /\ (~overlap => encoding' = {})
    BY <1>1, <1>2 DEF Single, Recordings, Uploading
  <1> QED BY <1>3, <1>4

LEMMA RecStep ==
  ASSUME RecInv, [Next]_vars PROVE RecInv'
  <1>0. Locked /\ Locked' /\ Recordings /\ Single /\ Shown /\ pc \in [Cmds -> PC]
    BY LockedStep DEF RecInv, Locked
  <1>1. ASSUME UNCHANGED <<recVars, overlap, crossed, notice>>,
               \A c \in Cmds : pc[c] = "replied" => pc'[c] = "replied",
               UnderWay("start")' \subseteq UnderWay("start"),
               UnderWay("stop")' \subseteq UnderWay("stop"),
               ~overlap /\ UnderWay("stop")' # UnderWay("stop") => encoding = {},
               \A c \in Cmds : pc'[c] = "answering" => pc[c] = "answering"
        PROVE  RecInv'
    <2>1. Recordings' /\ Single'
      BY <1>0, <1>1 DEF Recordings, Single, Uploading, recVars
    <2>2. Shown'
      BY <1>0, <1>1 DEF Shown, recVars
    <2> QED BY <1>0, <2>1, <2>2 DEF RecInv
  <1>2. CASE UNCHANGED <<pc, recVars, overlap, crossed, notice>>
    BY <1>0, <1>1, <1>2 DEF UnderWay
  <1>3. ASSUME NEW c \in Cmds, Refuse(c) \/ Accept(c) PROVE RecInv'
    <2>1. /\ inbox # << >> /\ c = Head(inbox) /\ UNCHANGED recVars /\ UNCHANGED overlap
          /\ pc' = [pc EXCEPT ![c] = "replied"] \/ pc' = [pc EXCEPT ![c] = "waiting"]
      BY <1>3 DEF Refuse, Accept, Goto, histVars
    <2>2. pc[c] = "sent"
      BY <1>0, <2>1, Shorter DEF Locked
    <2>3. CASE Refuse(c)
      <3>1. UNCHANGED <<notice, crossed>> /\ pc' = [pc EXCEPT ![c] = "replied"]
        BY <2>3 DEF Refuse, Goto, histVars
      <3> QED BY <1>0, <1>1, <2>1, <2>2, <3>1 DEF UnderWay
    <2>4. CASE Accept(c)
      <3>1. /\ pc' = [pc EXCEPT ![c] = "waiting"]
            /\ notice' = CASE Verb[c] = "start" -> TRUE [] Verb[c] = "stop" -> FALSE [] OTHER -> notice
            /\ crossed' = \/ crossed
                          \/ Verb[c] = "start" /\ UnderWay("stop") # {}
                          \/ Verb[c] = "stop" /\ UnderWay("start") # {}
        BY <2>4 DEF Accept, Goto
      <3>2. \A v \in Verbs : UnderWay(v)' = IF Verb[c] = v THEN UnderWay(v) \cup {c} ELSE UnderWay(v)
        BY <1>0, <2>2, <3>1 DEF UnderWay
      <3>3. "start" \in Verbs /\ "stop" \in Verbs
        BY DEF Verbs
      <3>4. UnderWay("start")' = IF Verb[c] = "start" THEN UnderWay("start") \cup {c} ELSE UnderWay("start")
        BY <3>2, <3>3
      <3>5. UnderWay("stop")' = IF Verb[c] = "stop" THEN UnderWay("stop") \cup {c} ELSE UnderWay("stop")
        BY <3>2, <3>3
      <3>6. Recordings'
        BY <1>0, <2>1, <2>2, <3>1 DEF Recordings, recVars
      <3>7. Single'
        BY <1>0, <2>1 DEF Single, Uploading, recVars
      <3>8. \A d \in Cmds : pc'[d] = "answering" => pc[d] = "answering"
        BY <1>0, <3>1
      <3>9. Shown'
        <4>1. CASE Verb[c] = "start"
          BY <1>0, <2>1, <3>1, <3>4, <3>5, <3>8, <4>1 DEF Shown, recVars
        <4>2. CASE Verb[c] = "stop"
          BY <1>0, <2>1, <3>1, <3>4, <3>5, <3>8, <4>2 DEF Shown, recVars
        <4>3. CASE Verb[c] \notin {"start", "stop"}
          BY <1>0, <2>1, <3>1, <3>4, <3>5, <3>8, <4>3 DEF Shown, recVars
        <4> QED BY <4>1, <4>2, <4>3
      <3> QED BY <1>0, <3>6, <3>7, <3>9 DEF RecInv
    <2> QED BY <1>3, <2>3, <2>4
  <1>4. ASSUME NEW c \in Cmds, Execute(c) PROVE RecInv'
    <2>1. pc[c] = "waiting" /\ pc' = [pc EXCEPT ![c] = "running"] /\ UNCHANGED <<recVars, overlap, crossed, notice>>
      BY <1>4 DEF Execute, Goto, histVars
    <2> QED BY <1>0, <1>1, <2>1 DEF UnderWay
  <1>5. ASSUME NEW c \in Cmds, pc[c] = "running", Verb[c] # "stop", Finish(c),
               UNCHANGED <<recVars, overlap, crossed, notice>>
        PROVE  RecInv'
    BY <1>0, <1>1, <1>5 DEF UnderWay, Finish, Goto
  <1>6. ASSUME NEW c \in Cmds, Start(c) PROVE RecInv'
    <2>1. /\ pc[c] = "running" /\ Verb[c] = "start" /\ phase # "recording"
          /\ phase' = "recording" /\ cmd' = c /\ blob' = None /\ encoding' = encoding \cup {c}
          /\ overlap' = (overlap \/ \E e \in Cmds : Uploading(e))
          /\ pc' = [pc EXCEPT ![c] = "replied"] /\ UNCHANGED <<uploads, notice, crossed>>
      BY <1>6 DEF Start, Finish, Goto, Uploading
    <2>2. UnderWay("start")' = UnderWay("start") \ {c} /\ UnderWay("stop")' = UnderWay("stop") /\ c \in UnderWay("start")
      BY <1>0, <2>1 DEF UnderWay
    <2>3. Recordings'
      BY <1>0, <2>1 DEF Recordings
    <2>4. Single'
      BY <1>0, <2>1 DEF Single, Uploading
    <2>5. \A d \in Cmds : pc[d] = "answering" => d \in UnderWay("stop")
      BY <1>0 DEF Locked, UnderWay
    <2>6. \A d \in Cmds : pc'[d] = "answering" => pc[d] = "answering"
      BY <1>0, <2>1
    <2>7. Shown'
      BY <1>0, <2>1, <2>2, <2>5, <2>6 DEF Shown
    <2> QED BY <1>0, <2>3, <2>4, <2>7 DEF RecInv
  <1>7. ASSUME NEW c \in Cmds, Stop(c) PROVE RecInv'
    <2>1. /\ pc[c] = "running" /\ Verb[c] = "stop" /\ Stoppable /\ HandOver
          /\ pc' = [pc EXCEPT ![c] = "answering"] /\ UNCHANGED <<notice, overlap, crossed>>
      BY <1>7 DEF Stop, Goto, histVars
    <2>2. \A d \in Cmds : pc[d] = "replied" => pc'[d] = "replied"
      BY <1>0, <2>1
    <2>3. Recordings' /\ Single' /\ (~overlap => encoding' = {})
      BY <1>0, <2>1, <2>2, HandedOver
    <2>4. UnderWay("start")' = UnderWay("start") /\ UnderWay("stop")' = UnderWay("stop")
      BY <1>0, <2>1 DEF UnderWay
    <2> QED BY <1>0, <2>1, <2>3, <2>4 DEF RecInv, Shown
  <1>8. ASSUME NEW c \in Cmds, Answer(c) PROVE RecInv'
    <2>1. /\ pc[c] \in {"running", "answering"} /\ pc' = [pc EXCEPT ![c] = "replied"]
          /\ pc[c] = "answering" \/ Verb[c] = "status" \/ (Verb[c] = "stop" /\ ~Stoppable)
          /\ UNCHANGED <<recVars, overlap, crossed, notice>>
      BY <1>8 DEF Answer, Finish, Goto, histVars
    <2>2. CASE Verb[c] # "stop"
      BY <1>0, <1>1, <2>1, <2>2 DEF UnderWay
    <2>3. CASE Verb[c] = "stop"
      <3>1. UnderWay("start")' = UnderWay("start") /\ UnderWay("stop")' = UnderWay("stop") \ {c}
        BY <1>0, <2>1, <2>3 DEF UnderWay
      <3>2. ~crossed /\ ~overlap => encoding = {}
        <4>1. CASE pc[c] = "answering"
          BY <1>0, <4>1 DEF Shown
        <4>2. CASE ~Stoppable
          BY <1>0, <4>2 DEF Single, Stoppable
        <4> QED BY <2>1, <2>3, <4>1, <4>2
      <3>3. Recordings' /\ Single'
        BY <1>0, <2>1 DEF Recordings, Single, Uploading, recVars
      <3>4. \A d \in Cmds : pc'[d] = "answering" => pc[d] = "answering"
        BY <1>0, <2>1
      <3>5. Shown'
        BY <1>0, <2>1, <3>1, <3>2, <3>4 DEF Shown, recVars
      <3> QED BY <1>0, <3>3, <3>5 DEF RecInv
    <2> QED BY <2>2, <2>3
  <1>9. ASSUME NEW c \in Cmds, Work(c) PROVE RecInv'
    <2>1. CASE TypeText(c) \/ CompositeStep(c)
      BY <1>2, <2>1 DEF TypeText, CompositeStep, histVars
    <2>2. CASE StartFails(c) \/ Drive(c) \/ Unable(c) \/ StepsDone(c) \/ CompositeFails(c)
               \/ ShotCached(c) \/ ShotCaptured(c) \/ ShotFails(c) \/ Transfer(c)
      BY <1>5, <2>2 DEF Transfer, StartFails, Drive, Unable, StepsDone, CompositeFails, ShotCached, ShotCaptured, ShotFails, histVars
    <2> QED BY <1>6, <1>7, <1>8, <1>9, <2>1, <2>2 DEF Work, LocalWork
  <1>10. ASSUME NEW e \in Cmds, TimerFires(e) PROVE RecInv'
    <2>1. UNCHANGED <<pc, notice, overlap, crossed>>
      BY <1>10 DEF TimerFires, histVars
    <2>2. UnderWay("start")' = UnderWay("start") /\ UnderWay("stop")' = UnderWay("stop")
      BY <2>1 DEF UnderWay
    <2>3. CASE Stoppable
      <3>1. Recordings' /\ Single' /\ (~overlap => encoding' = {})
        BY <1>0, <1>10, <2>1, <2>3, HandedOver DEF TimerFires
      <3> QED BY <1>0, <2>1, <2>2, <3>1 DEF RecInv, Shown
    <2>4. CASE ~Stoppable
      <3>1. UNCHANGED <<phase, cmd, blob, encoding, uploads>>
        BY <1>10, <2>4 DEF TimerFires
      <3>2. Recordings' /\ Single' /\ Shown'
        BY <1>0, <2>1, <2>2, <3>1 DEF Recordings, Single, Uploading, Shown
      <3> QED BY <1>0, <3>2 DEF RecInv
    <2> QED BY <2>3, <2>4
  <1>11. ASSUME NEW e \in Cmds, UploadBegins(e) \/ UploadEnds(e) PROVE RecInv'
    <2>1. UNCHANGED <<pc, cmd, encoding, notice, overlap, crossed>>
      BY <1>11 DEF UploadBegins, UploadEnds, histVars
    <2>2. UnderWay("start")' = UnderWay("start") /\ UnderWay("stop")' = UnderWay("stop")
      BY <2>1 DEF UnderWay
    <2>3. Uploading(e)
      BY <1>11 DEF UploadBegins, UploadEnds, Uploading
    <2>4. CASE UploadBegins(e)
      BY <1>0, <2>1, <2>2, <2>3, <2>4 DEF UploadBegins, RecInv, Recordings, Single, Uploading, Shown
    <2>5. CASE UploadEnds(e)
      <3>1. Recordings'
        BY <1>0, <2>1, <2>3, <2>5 DEF UploadEnds, Recordings, Uploading
      <3>2. Single'
        BY <1>0, <2>1, <2>3, <2>5 DEF UploadEnds, Recordings, Single, Uploading
      <3>3. Shown'
        BY <1>0, <2>1, <2>2 DEF Shown
      <3> QED BY <1>0, <3>1, <3>2, <3>3 DEF RecInv
    <2> QED BY <1>11, <2>4, <2>5
  <1> QED BY <1>2, <1>3, <1>4, <1>9, <1>10, <1>11 DEF Next, vars, recVars, histVars, Ages, Background

\* The recorder reports the encoder that runs, so that a stop reaches it, offers only
\* finished clips, and the person at the machine is told.
THEOREM RecorderKnows == Spec => []RecorderTruthful
  <1>1. RecInv => RecorderTruthful
    BY DEF RecInv, Recordings, Single, Shown, RecorderTruthful
  <1> QED BY <1>1, RecInit, RecStep, PTL DEF Spec
-----------------------------------------------------------------------------
(***************************************************************************)
(* What is pressed                                                         *)
(***************************************************************************)
Event == [down : BOOLEAN, key : Keys]

\* Whatever is pressed is released later.
Released(events) ==
  \A i \in DOMAIN events : events[i].down =>
    \E j \in DOMAIN events : j > i /\ events[j].key = events[i].key

LEMMA ReleasedLeavesNothing ==
  ASSUME NEW events, NEW h, Released(events) PROVE After(events, h) \subseteq h
  BY DEF Released, After, Left, Touched

LEMMA Listed ==
  ASSUME NEW S, NEW n \in Nat, NEW f \in [1 .. n -> S]
  PROVE  f \in Seq(S) /\ Len(f) = n
  OBVIOUS

LEMMA Joined ==
  ASSUME NEW q \in Seq(Event), NEW u \in Seq(Event)
  PROVE  /\ q \o u \in Seq(Event) /\ Len(q \o u) = Len(q) + Len(u)
         /\ \A i \in 1 .. Len(q) : (q \o u)[i] = q[i]
         /\ \A i \in 1 .. Len(u) : (q \o u)[Len(q) + i] = u[i]
  <1>1. q \o u \in Seq(Event) /\ Len(q \o u) = Len(q) + Len(u)
    OBVIOUS
  <1>2. ASSUME NEW i \in 1 .. Len(q) PROVE (q \o u)[i] = q[i]
    OBVIOUS
  <1>3. ASSUME NEW i \in 1 .. Len(u) PROVE (q \o u)[Len(q) + i] = u[i]
    OBVIOUS
  <1> QED BY <1>1, <1>2, <1>3

\* Held around what releases all it presses, modifiers are released themselves.
LEMMA AroundReleased ==
  ASSUME NEW ks \in Seq(Keys), NEW events \in Seq(Event), Released(events)
  PROVE  Around(ks, events) \in Seq(Event) /\ Released(Around(ks, events))
  <1> DEFINE K == Len(ks)
             N == Len(events)
             a == Around(ks, events)
  <1>1. K \in Nat /\ N \in Nat /\ DOMAIN ks = 1 .. K /\ DOMAIN events = 1 .. N
    OBVIOUS
  <1>2. /\ Presses(ks) \in Seq(Event) /\ Len(Presses(ks)) = K
        /\ \A i \in 1 .. K : Presses(ks)[i] = Down(ks[i])
    <2>1. \A i \in 1 .. K : Down(ks[i]) \in Event
      BY DEF Down, Event
    <2>2. Presses(ks) = [i \in 1 .. K |-> Down(ks[i])]
      BY <1>1 DEF Presses
    <2> QED BY <1>1, <2>1, <2>2
  <1>3. /\ Releases(ks) \in Seq(Event) /\ Len(Releases(ks)) = K
        /\ \A i \in 1 .. K : Releases(ks)[i] = Up(ks[K + 1 - i])
    <2>1. \A i \in 1 .. K : K + 1 - i \in 1 .. K
      BY <1>1
    <2>2. \A i \in 1 .. K : Up(ks[K + 1 - i]) \in Event
      BY <2>1 DEF Up, Event
    <2>3. Releases(ks) = [i \in 1 .. K |-> Up(ks[K + 1 - i])]
      BY <1>1 DEF Releases
    <2>4. Releases(ks) \in [1 .. K -> Event]
      BY <2>2, <2>3
    <2>5. Releases(ks) \in Seq(Event) /\ Len(Releases(ks)) = K
      BY <1>1, <2>4, Listed
    <2> QED BY <2>3, <2>5
  <1> DEFINE p == Presses(ks)
             r == Releases(ks)
  <1> HIDE DEF p, r
  <1>4. a = (p \o events) \o r
    BY DEF Around, p, r
  <1>5. /\ p \o events \in Seq(Event) /\ Len(p \o events) = K + N
        /\ \A i \in 1 .. K : (p \o events)[i] = p[i]
        /\ \A i \in 1 .. N : (p \o events)[K + i] = events[i]
    <2>1. p \in Seq(Event) /\ Len(p) = K
      BY <1>2 DEF p
    <2>2. /\ p \o events \in Seq(Event) /\ Len(p \o events) = Len(p) + N
          /\ \A i \in 1 .. Len(p) : (p \o events)[i] = p[i]
          /\ \A i \in 1 .. N : (p \o events)[Len(p) + i] = events[i]
      BY <2>1, Joined
    <2> QED BY <2>1, <2>2
  <1> DEFINE pe == p \o events
  <1>6. a = pe \o r /\ pe \in Seq(Event) /\ Len(pe) = K + N
    BY <1>4, <1>5
  <1>7. (\A i \in 1 .. K : pe[i] = p[i]) /\ (\A i \in 1 .. N : pe[K + i] = events[i])
    BY <1>5
  <1> HIDE DEF a, pe
  <1>8. /\ a \in Seq(Event) /\ Len(a) = K + N + K
        /\ \A i \in 1 .. K + N : a[i] = pe[i]
        /\ \A i \in 1 .. K : a[K + N + i] = r[i]
    <2>1. r \in Seq(Event) /\ Len(r) = K
      BY <1>3 DEF r
    <2>2. /\ pe \o r \in Seq(Event) /\ Len(pe \o r) = Len(pe) + Len(r)
          /\ \A i \in 1 .. Len(pe) : (pe \o r)[i] = pe[i]
          /\ \A i \in 1 .. Len(r) : (pe \o r)[Len(pe) + i] = r[i]
      BY <1>6, <2>1, Joined
    <2> QED BY <1>6, <2>1, <2>2
  <1>9. DOMAIN a = 1 .. K + N + K
    BY <1>8
  <1>10. ASSUME NEW i \in DOMAIN a, a[i].down PROVE \E j \in DOMAIN a : j > i /\ a[j].key = a[i].key
    <2>1. CASE i \in 1 .. K
      <3>1. a[i] = Down(ks[i])
        BY <1>1, <1>2, <1>7, <1>8, <2>1 DEF p
      <3>2. K + 1 - i \in 1 .. K /\ K + 1 - (K + 1 - i) = i
        BY <1>1, <2>1
      <3>3. a[K + N + (K + 1 - i)] = Up(ks[i])
        BY <1>3, <1>8, <3>2 DEF r
      <3>4. K + N + (K + 1 - i) \in DOMAIN a /\ K + N + (K + 1 - i) > i
        BY <1>1, <1>9, <2>1
      <3> QED BY <3>1, <3>3, <3>4 DEF Up, Down
    <2>2. CASE i \in K + 1 .. K + N
      <3>1. i - K \in 1 .. N /\ K + (i - K) = i /\ i \in 1 .. K + N
        BY <1>1, <2>2
      <3>2. a[i] = events[i - K]
        BY <1>7, <1>8, <3>1
      <3>3. PICK j \in 1 .. N : j > i - K /\ events[j].key = events[i - K].key
        BY <1>1, <1>10, <3>1, <3>2 DEF Released
      <3>4. K + j \in 1 .. K + N /\ K + j \in DOMAIN a /\ K + j > i
        BY <1>1, <1>9, <2>2, <3>3
      <3>5. a[K + j] = events[j]
        BY <1>7, <1>8, <3>3, <3>4
      <3> QED BY <3>2, <3>3, <3>4, <3>5
    <2>3. CASE i \in K + N + 1 .. K + N + K
      <3>1. i - (K + N) \in 1 .. K /\ K + N + (i - (K + N)) = i
        BY <1>1, <2>3
      <3>2. a[i] = Up(ks[K + 1 - (i - (K + N))])
        BY <1>3, <1>8, <3>1 DEF r
      <3> QED BY <1>10, <3>2 DEF Up
    <2> QED BY <1>1, <1>9, <2>1, <2>2, <2>3
  <1> QED BY <1>8, <1>10 DEF Released, a

LEMMA TapReleased ==
  ASSUME NEW k \in Keys PROVE <<Down(k), Up(k)>> \in Seq(Event) /\ Released(<<Down(k), Up(k)>>)
  <1>1. Down(k) \in Event /\ Up(k) \in Event /\ Down(k).key = Up(k).key /\ ~ Up(k).down
    BY DEF Down, Up, Event
  <1> DEFINE t == <<Down(k), Up(k)>>
  <1>2. t \in Seq(Event) /\ DOMAIN t = {1, 2} /\ t[1] = Down(k) /\ t[2] = Up(k)
    BY <1>1
  <1> HIDE DEF t
  <1>3. \A i \in DOMAIN t : t[i].down => 2 > i /\ 2 \in DOMAIN t /\ t[2].key = t[i].key
    BY <1>1, <1>2
  <1>4. Released(t)
    BY <1>3 DEF Released
  <1> QED BY <1>2, <1>4 DEF t

LEMMA GestureReleased == \A g \in Presser : Released(Gesture(g))
  <1> SUFFICES ASSUME NEW g \in Presser PROVE Released(Gesture(g))
    OBVIOUS
  <1>1. g.mods \in Seq(Keys) /\ g.button \in Keys
    BY DEF Presser
  <1>2. /\ <<Down(g.button), Up(g.button)>> \in Seq(Event)
        /\ Released(<<Down(g.button), Up(g.button)>>)
    BY <1>1, TapReleased
  <1>3. Released(Around(g.mods, <<Down(g.button), Up(g.button)>>))
    BY <1>1, <1>2, AroundReleased
  <1> QED BY <1>3 DEF Gesture

LEMMA ChordReleased == \A g \in [mods : Seq(Keys), mains : Seq(Keys)] : Released(Chord(g))
  <1> SUFFICES ASSUME NEW g \in [mods : Seq(Keys), mains : Seq(Keys)] PROVE Released(Chord(g))
    OBVIOUS
  <1>1. g.mods \o g.mains \in Seq(Keys)
    OBVIOUS
  <1>2. << >> \in Seq(Event) /\ Released(<< >>)
    BY DEF Released
  <1>3. Released(Around(g.mods \o g.mains, << >>))
    BY <1>1, <1>2, AroundReleased
  <1> QED BY <1>3 DEF Chord

LEMMA TypedReleased == \A ch \in Chars : Released(Typed(ch))
  <1> SUFFICES ASSUME NEW ch \in Chars PROVE Released(Typed(ch))
    OBVIOUS
  <1>1. {"key", "Shift", "spare", "mapping"} \subseteq Keys
    BY InputAssumption
  <1>2. <<"Shift">> \in Seq(Keys) /\ <<"mapping">> \in Seq(Keys)
    BY <1>1
  <1>3. CASE ch = "plain"
    BY <1>1, <1>3, TapReleased DEF Typed
  <1>4. CASE ch = "shift"
    <2>1. Released(Around(<<"Shift">>, <<Down("key"), Up("key")>>))
      BY <1>1, <1>2, TapReleased, AroundReleased
    <2> QED BY <1>4, <2>1 DEF Typed
  <1>5. CASE ch = "remap"
    <2>1. Released(Around(<<"mapping">>, <<Down("spare"), Up("spare")>>))
      BY <1>1, <1>2, TapReleased, AroundReleased
    <2> QED BY <1>5, <2>1 DEF Typed
  <1> QED BY <1>3, <1>4, <1>5 DEF Chars

\* What is down is what composites pressed and nothing has released.
Pressed == held = pinned

LEMMA PressedStep ==
  ASSUME Pressed, step \in Nat \ {0}, [Next]_vars PROVE Pressed'
  <1>1. CASE UNCHANGED <<held, pinned>>
    BY <1>1 DEF Pressed
  <1>2. ASSUME NEW events, Released(events), held' = After(events, held), pinned' = pinned \cap held'
        PROVE  Pressed'
    BY <1>2, ReleasedLeavesNothing DEF Pressed
  <1>3. ASSUME NEW c \in Cmds, Drive(c) PROVE Pressed'
    <2>1. c \in DOMAIN Input
      BY <1>3 DEF Drive
    <2>2. CASE Verb[c] = "gesture"
      <3>1. Released(Gesture(Input[c]))
        BY <2>1, <2>2, GestureReleased, InputAssumption
      <3> QED BY <1>2, <1>3, <2>2, <3>1 DEF Drive
    <2>3. CASE Verb[c] = "chord"
      <3>1. Released(Chord(Input[c]))
        BY <2>1, <2>3, ChordReleased, InputAssumption
      <3> QED BY <1>2, <1>3, <2>3, <3>1 DEF Drive
    <2> QED BY <1>3, <2>2, <2>3 DEF Drive
  <1>4. ASSUME NEW c \in Cmds, Verb[c] \in {"text", "composite"}, step \in Nat \ {0}, step <= Len(Input[c])
        PROVE  /\ Verb[c] = "text" => Input[c][step] \in Chars
               /\ Verb[c] = "composite" => Input[c][step] \in Steps
    <2>1. c \in DOMAIN Input
      BY <1>4
    <2>2. /\ Verb[c] = "text" => Input[c] \in Seq(Chars)
          /\ Verb[c] = "composite" => Input[c] \in Seq(Steps)
      BY <2>1, InputAssumption
    <2> QED BY <1>4, <2>2
  <1>5. ASSUME NEW c \in Cmds, TypeText(c) PROVE Pressed'
    <2>1. Released(Typed(Input[c][step]))
      BY <1>4, <1>5, TypedReleased DEF TypeText
    <2> QED BY <1>2, <1>5, <2>1 DEF TypeText
  <1>6. ASSUME NEW c \in Cmds, CompositeStep(c) PROVE Pressed'
    <2> DEFINE s == Input[c][step]
    <2>1. s \in Steps
      BY <1>4, <1>6 DEF CompositeStep
    <2>2. \/ s.op \in {"pointer_down", "key_down"} /\ held' = After(<<Down(s.key)>>, held) /\ pinned' = (pinned \cup {s.key}) \cap held'
          \/ s.op \in {"pointer_up", "key_up"} /\ held' = After(<<Up(s.key)>>, held) /\ pinned' = pinned \cap held'
          \/ s.op = "click" /\ held' = After(Gesture(s.click), held) /\ pinned' = pinned \cap held'
          \/ s.op = "type" /\ held' = After(Typed(s.char), held) /\ pinned' = pinned \cap held'
          \/ held' = After(<< >>, held) /\ pinned' = pinned \cap held'
      BY <1>6 DEF CompositeStep
    <2> HIDE DEF s
    <2>3. CASE s.op \in {"pointer_down", "key_down"} /\ held' = After(<<Down(s.key)>>, held) /\ pinned' = (pinned \cup {s.key}) \cap held'
      <3>1. held' \subseteq held \cup {s.key}
        BY <2>3 DEF After, Left, Touched, Down
      <3> QED BY <2>3, <3>1 DEF Pressed
    <2>4. Released(<<Up(s.key)>>) /\ Released(<< >>)
      BY DEF Released, Up
    <2>5. s.op = "click" => Released(Gesture(s.click))
      <3>1. s.op = "click" => s.click \in Presser
        BY <2>1 DEF Steps, RelayOps
      <3> QED BY <3>1, GestureReleased
    <2>6. s.op = "type" => Released(Typed(s.char))
      <3>1. s.op = "type" => s.char \in Chars
        BY <2>1 DEF Steps, RelayOps
      <3> QED BY <3>1, TypedReleased
    <2> QED BY <1>2, <2>2, <2>3, <2>4, <2>5, <2>6
  <1>7. ASSUME NEW c \in Cmds, Work(c) PROVE Pressed'
    <2>1. CASE UNCHANGED <<held, pinned>>
      BY <1>1, <2>1
    <2> QED BY <1>3, <1>5, <1>6, <1>7, <2>1 DEF Work, LocalWork, Transfer, Unable, StepsDone, CompositeFails, ShotCached, ShotCaptured,
                                               ShotFails, Start, StartFails, Stop, Answer, inputVars
  <1> QED BY <1>1, <1>7 DEF Next, vars, inputVars, Refuse, Accept, Execute, Ages, Background, TimerFires,
                            UploadBegins, UploadEnds
\* What is left of the types: clocks, the recorder's lock, and frames of screens there were.
Kept ==
  /\ timer \in [Cmds -> {"off", "armed", "done"}] /\ rmu \in Cmds \cup {None} /\ step \in Nat \ {0}
  /\ entry # None => entry.frame <= screen
  /\ \A c \in Cmds : shot[c] # None => shot[c] <= screen

AgentInv == FreshInv /\ RecInv /\ Kept /\ Pressed

LEMMA AgentInit == Init => AgentInv
  BY FreshInit, RecInit DEF Init, AgentInv, Kept, Pressed

LEMMA KeptStep ==
  ASSUME FreshInv, Kept, [Next]_vars PROVE Kept'
  <1> USE DEF inputVars, cacheVars, recVars, histVars
  <1>1. /\ screen \in Nat /\ (entry # None => entry.frame \in Nat)
        /\ shot \in [Cmds -> Nat \cup {None}]
    BY DEF FreshInv, Views
  <1>2. CASE UNCHANGED <<screen, step, entry, shot, timer, rmu>>
    BY <1>2 DEF Kept
  <1>3. ASSUME UNCHANGED <<entry, shot, timer, rmu>>, screen' \in {screen, screen + 1}, step' \in {step, step + 1, 1}
        PROVE  Kept'
    <2>1. step' \in Nat \ {0} /\ screen' >= screen /\ screen' \in Nat
      BY <1>1, <1>3 DEF Kept
    <2>2. \A c \in Cmds : shot[c] # None => shot[c] \in Nat
      BY <1>1
    <2> QED BY <1>1, <1>3, <2>1, <2>2 DEF Kept
  <1>4. ASSUME UNCHANGED <<screen, step, entry, shot>>, timer' = timer \/ \E e \in Cmds, q \in {"armed", "done"} : timer' = [timer EXCEPT ![e] = q],
               rmu' \in Cmds \cup {None}
        PROVE  Kept'
    BY <1>4 DEF Kept
  <1>5. ASSUME NEW c \in Cmds, Refuse(c) \/ Accept(c) \/ Execute(c) PROVE Kept'
    BY <1>2, <1>3, <1>5 DEF Refuse, Accept, Execute
  <1>6. ASSUME NEW c \in Cmds, Work(c) PROVE Kept'
    <2>1. CASE Drive(c) \/ TypeText(c) \/ Unable(c) \/ CompositeStep(c) \/ StepsDone(c) \/ CompositeFails(c)
      BY <1>2, <1>3, <2>1 DEF Drive, TypeText, Unable, CompositeStep, StepsDone, CompositeFails
    <2>2. CASE ShotCached(c)
      <3>1. UNCHANGED <<screen, step, entry, timer, rmu>> /\ entry # None /\ shot' = [shot EXCEPT ![c] = entry.frame]
        BY <2>2 DEF ShotCached, Usable
      <3> QED BY <1>1, <3>1 DEF Kept
    <2>3. CASE ShotCaptured(c)
      <3>1. /\ UNCHANGED <<screen, step, timer, rmu>> /\ shot' = [shot EXCEPT ![c] = screen]
            /\ entry' = [frame |-> screen, gen |-> gen, young |-> TRUE]
        BY <2>3 DEF ShotCaptured
      <3> QED BY <1>1, <3>1 DEF Kept
    <2>4. CASE Transfer(c) \/ ShotFails(c) \/ Start(c) \/ StartFails(c) \/ Stop(c) \/ Answer(c)
      <3>1. UNCHANGED <<screen, step, entry, shot, rmu>> /\ (timer' = timer \/ timer' = [timer EXCEPT ![c] = "armed"])
        BY <2>4 DEF Transfer, ShotFails, Start, StartFails, Stop, Answer
      <3>2. rmu' \in Cmds \cup {None}
        BY <3>1 DEF Kept
      <3> QED BY <1>4, <3>1, <3>2
    <2> QED BY <1>6, <2>1, <2>2, <2>3, <2>4 DEF Work, LocalWork
  <1>7. CASE Ages
    <2>1. UNCHANGED <<screen, step, shot, timer, rmu>> /\ entry # None /\ entry' = [entry EXCEPT !.young = FALSE]
      BY <1>7 DEF Ages
    <2>2. entry'.frame = entry.frame
      BY <2>1 DEF FreshInv, Views
    <2> QED BY <2>1, <2>2 DEF Kept
  <1>8. ASSUME NEW e \in Cmds, Background(e) PROVE Kept'
    <2>1. UNCHANGED <<screen, step, entry, shot>> /\ (timer' = timer \/ timer' = [timer EXCEPT ![e] = "done"])
      BY <1>8 DEF Background, TimerFires, UploadBegins, UploadEnds
    <2>2. rmu' \in {rmu, e, None}
      BY <1>8 DEF Background, TimerFires, UploadBegins, UploadEnds
    <2>3. rmu' \in Cmds \cup {None}
      BY <2>2 DEF Kept
    <2> QED BY <1>4, <2>1, <2>3
  <1> QED BY <1>2, <1>5, <1>6, <1>7, <1>8 DEF Next, vars

LEMMA AgentTypes == AgentInv => TypeOK
  <1> SUFFICES ASSUME AgentInv PROVE TypeOK
    OBVIOUS
  <1>1. /\ \A i \in DOMAIN inbox : pc[inbox[i]] = "sent"
        /\ pc \in [Cmds -> {"sent", "waiting", "running", "answering", "replied"}]
        /\ lock \in Cmds \cup {None} /\ rmu \in Cmds \cup {None}
    BY DEF AgentInv, FreshInv, Locked, PC, Kept
  <1>2. screen \in Nat /\ gen \in Nat /\ step \in Nat \ {0} /\ pinned \subseteq held
    BY DEF AgentInv, FreshInv, Views, Kept, Pressed
  <1>3. entry \in [frame : 0..screen, gen : 0..gen, young : BOOLEAN] \cup {None}
    <2>1. CASE entry # None
      <3>1. entry \in [frame : Nat, gen : 0..gen, young : BOOLEAN] /\ entry.frame <= screen
        BY <2>1 DEF AgentInv, FreshInv, Views, Kept
      <3>2. entry.frame \in 0..screen
        BY <1>2, <3>1
      <3> QED BY <3>1, <3>2
    <2> QED BY <2>1
  <1>4. ASSUME NEW c \in Cmds PROVE shot[c] \in 0..screen \cup {None} /\ floor[c] \in 0..screen
    <2>1. shot[c] \in Nat \cup {None} /\ floor[c] \in 0..screen /\ (shot[c] # None => shot[c] <= screen)
      BY DEF AgentInv, FreshInv, Views, Kept
    <2> QED BY <1>2, <2>1
  <1>5. /\ phase \in {"idle", "recording", "uploading", "ready", "failed"}
        /\ {cmd, blob} \subseteq Cmds \cup {None} /\ encoding \subseteq Cmds
        /\ uploads \in [Cmds -> {"off", "quitting", "uploading", "done"}]
        /\ timer \in [Cmds -> {"off", "armed", "done"}]
    BY DEF AgentInv, RecInv, Recordings, Kept
  <1>6. {notice, overlap, crossed} \subseteq BOOLEAN
    BY DEF AgentInv, RecInv, Recordings
  <1> QED BY <1>1, <1>2, <1>3, <1>4, <1>5, <1>6 DEF TypeOK

\* Nothing is left pressed, and no keycode remapped, but what a composite pressed and nothing
\* has released since, for any commands, characters, chords and composites, those that fail
\* halfway among them, and any number of keys (dispatcher.go:18-19).
THEOREM NothingLeftDown == Spec => []NothingStuck
  <1>1. AgentInv /\ [Next]_vars => AgentInv'
    <2> SUFFICES ASSUME AgentInv, [Next]_vars PROVE AgentInv'
      OBVIOUS
    <2>1. FreshInv' /\ RecInv'
      BY FreshStep, RecStep DEF AgentInv
    <2>2. Kept'
      BY KeptStep DEF AgentInv
    <2>3. Pressed'
      BY PressedStep DEF AgentInv, Kept
    <2> QED BY <2>1, <2>2, <2>3 DEF AgentInv
  <1>2. AgentInv => NothingStuck
    BY AgentTypes DEF AgentInv, Pressed, NothingStuck
  <1> QED BY <1>1, <1>2, AgentInit, PTL DEF Spec
=============================================================================

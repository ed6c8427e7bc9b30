---------------------------- MODULE AgentDispatch ----------------------------
(***************************************************************************)
(* The Linux agent behind its socket (linux/internal/agent): a goroutine   *)
(* per command, the dispatcher whose lock lets one of them at a time at    *)
(* the screen, the screenshot cache, input injection over XTEST (x11) with *)
(* composites, and the screen recorder with its encoder processes, its     *)
(* upload goroutines, its safety timers and a lock of its own.             *)
(*                                                                         *)
(* The screen is a version number that every command with an effect moves  *)
(* on; what is pressed is a set of keys and buttons.                       *)
(***************************************************************************)
EXTENDS Naturals, Sequences, FiniteSets, Functions

CONSTANTS
  Cmds,
  Arrivals, \* sequences of commands the server may have sent on the socket
  Verb,     \* Verb[c]: what kind of command c is
  Keys,     \* keys, modifiers and buttons
  Input,    \* Input[c]: the keystrokes or pointer presses of a gesture or chord,
            \* the characters of a text, the steps of a composite
  Capped,   \* starts of a recording with max_duration_seconds
  None

Verbs == {"gesture", "chord", "text", "composite", "screenshot", "start", "stop", "status", "transfer"}
Presser  == [mods : Seq(Keys), button : Keys]
Chars    == {"plain", "shift", "remap"}

\* The ops of a composite: those its loop knows, and those only the relay's table has.
\* A text to type is a step for each of its characters.
CompositeOps == {"pointer_down", "pointer_move", "pointer_up", "key_down", "key_up", "type",
                 "click", "wait", "screenshot"}
RelayOps == {"tap", "long_press", "swipe", "drag", "scroll"}
Steps ==
  [op : {"pointer_down", "pointer_up", "key_down", "key_up"}, key : Keys]
    \cup [op : {"type"}, char : Chars] \cup [op : {"click"}, click : Presser]
    \cup [op : {"pointer_move", "wait", "screenshot"} \cup RelayOps]

ASSUME CmdsAssumption ==
  /\ Verb \in [Cmds -> Verbs]
  /\ DOMAIN Input = {c \in Cmds : Verb[c] \in {"gesture", "chord", "text", "composite"}}
  /\ Capped \subseteq {c \in Cmds : Verb[c] = "start"}
  /\ \A a \in Arrivals : a \in Seq(Cmds) /\ IsInjective(a)
  /\ None \notin Cmds \cup Nat \cup [frame : Nat, gen : Nat, young : BOOLEAN]

\* "key" is whichever key a character is on, "mapping" the spare keycode's.
ASSUME InputAssumption ==
  /\ {"key", "Shift", "spare", "mapping"} \subseteq Keys
  /\ \A c \in DOMAIN Input :
       /\ Verb[c] = "gesture" => Input[c] \in Presser
       /\ Verb[c] = "chord" => Input[c] \in [mods : Seq(Keys), mains : Seq(Keys)]
       /\ Verb[c] = "text" => Input[c] \in Seq(Chars)
       /\ Verb[c] = "composite" => Input[c] \in Seq(Steps)

VARIABLES
  inbox,     \* messages on the socket, oldest first
  pc,        \* pc[c]: the command's goroutine
  lock,      \* holder of dispatcher.mu
  screen,    \* version of what the screen shows
  held,      \* keys and buttons down
  pinned,    \* of those, pressed by a composite's pointer_down or key_down
  step,      \* next character of the text, or step of the composite, under way
  gen,       \* shotCache.gen
  entry,     \* shotCache.entry: [frame, gen, young], None before the first
  shot,      \* shot[c]: the version a screenshot returned, None before
  floor,     \* floor[c]: the version on the screen when it took the lock
  \* the recorder; a recording is named by the command that started it
  phase, cmd,
  rmu,       \* holder of recorder.mu: a command, an uploader, a timer or None
  blob,      \* the recording whose upload is offered
  encoding,  \* ffmpeg processes that have not been told to quit
  uploads,   \* uploads[e]: "off", "quitting", "uploading" or "done"
  timer,     \* timer[e]: "off", "armed", "waiting" or "done"
  notice,    \* status.recording: what the person at the machine is shown
  \* history, no program reads it
  overlap,   \* a recording was started while the last one was not uploaded yet
  crossed    \* a start and a stop were under way at once

inputVars  == <<screen, held, pinned, step>>
cacheVars  == <<gen, entry, shot, floor>>
recVars    == <<phase, cmd, blob, encoding, uploads, timer>>
histVars   == <<overlap, crossed>>
vars == <<inbox, pc, lock, inputVars, cacheVars, recVars, rmu, notice, histVars>>

Init ==
  /\ inbox \in Arrivals
  /\ pc = [c \in Cmds |-> "sent"]
  /\ lock = None
  /\ screen = 0 /\ held = {} /\ pinned = {} /\ step = 1
  /\ gen = 0 /\ entry = None
  /\ shot = [c \in Cmds |-> None]
  /\ floor = [c \in Cmds |-> 0]
  /\ phase = "idle" /\ cmd = None /\ rmu = None /\ blob = None
  /\ encoding = {}
  /\ uploads = [c \in Cmds |-> "off"]
  /\ timer = [c \in Cmds |-> "off"]
  /\ notice = FALSE
  /\ overlap = FALSE /\ crossed = FALSE

Goto(c, where) == pc' = [pc EXCEPT ![c] = where]

-----------------------------------------------------------------------------
(***************************************************************************)
(* handleText                                                              *)
(***************************************************************************)
UnderWay(v) == {c \in Cmds : Verb[c] = v /\ pc[c] \notin {"sent", "replied"}}

\* Turned down before anything else: paused, or not exposed.
Refuse(c) ==
  /\ inbox # << >> /\ c = Head(inbox)
  /\ inbox' = Tail(inbox)
  /\ Goto(c, "replied")
  /\ UNCHANGED <<lock, inputVars, cacheVars, recVars, rmu, notice, histVars>>

\* What the person at the machine sees follows the commands as they arrive,
\* before they run, and whether they succeed or not.
Accept(c) ==
  /\ inbox # << >> /\ c = Head(inbox)
  /\ inbox' = Tail(inbox)
  /\ Goto(c, "waiting")
  /\ notice' = CASE Verb[c] = "start" -> TRUE [] Verb[c] = "stop" -> FALSE [] OTHER -> notice
  /\ crossed' = \/ crossed
                \/ Verb[c] = "start" /\ UnderWay("stop") # {}
                \/ Verb[c] = "stop" /\ UnderWay("start") # {}
  /\ UNCHANGED <<lock, inputVars, cacheVars, recVars, rmu, overlap>>

-----------------------------------------------------------------------------
(***************************************************************************)
(* dispatcher.execute                                                      *)
(***************************************************************************)
\* Mutant: only the named verbs invalidate the cache.
BugExecute(c) ==
  /\ pc[c] = "waiting" /\ lock = None
  /\ lock' = c
  /\ Goto(c, "running")
  /\ gen' = IF Verb[c] \in {"gesture", "chord", "text"} THEN gen + 1 ELSE gen
  /\ floor' = [floor EXCEPT ![c] = screen]
  /\ step' = 1
  /\ UNCHANGED <<inbox, screen, held, pinned, entry, shot, recVars, rmu, notice, histVars>>

\* Take the lock; anything but a screenshot invalidates the cache first.
Execute(c) ==
  /\ pc[c] = "waiting" /\ lock = None
  /\ lock' = c
  /\ Goto(c, "running")
  /\ gen' = IF Verb[c] = "screenshot" THEN gen ELSE gen + 1
  /\ floor' = [floor EXCEPT ![c] = screen]
  /\ step' = 1
  /\ UNCHANGED <<inbox, screen, held, pinned, entry, shot, recVars, rmu, notice, histVars>>

\* The result or the error goes back and the lock is free.
Finish(c) == Goto(c, "replied") /\ lock' = None

-----------------------------------------------------------------------------
(***************************************************************************)
(* x11: what each verb presses and releases                                *)
(***************************************************************************)
Down(k) == [down |-> TRUE, key |-> k]
Up(k)   == [down |-> FALSE, key |-> k]

Presses(ks)  == [i \in DOMAIN ks |-> Down(ks[i])]
Releases(ks) == [i \in DOMAIN ks |-> Up(ks[Len(ks) + 1 - i])]

\* Mutant: releases only what it pressed last.
BugAround(mods, events) == Presses(mods) \o events \o SubSeq(Releases(mods), 1, 1)

\* Modifiers are held around the rest and released in reverse.
Around(mods, events) == Presses(mods) \o events \o Releases(mods)

\* Click, LongPress and Drag with their modifiers; a chord; one typed character,
\* with Shift, or on the spare keycode that is remapped and restored.
Gesture(g)  == Around(g.mods, <<Down(g.button), Up(g.button)>>)
Chord(g)    == Around(g.mods \o g.mains, << >>)
Typed(ch)   == CASE ch = "plain"  -> <<Down("key"), Up("key")>>
                 [] ch = "shift"  -> Around(<<"Shift">>, <<Down("key"), Up("key")>>)
                 [] ch = "remap"  -> Around(<<"mapping">>, <<Down("spare"), Up("spare")>>)

\* The X server's account of what is down: what no event touched, and what was last pressed.
Touched(events)  == {events[i].key : i \in DOMAIN events}
Left(events)     == {events[i].key : i \in {n \in DOMAIN events :
                       events[n].down /\ \A m \in DOMAIN events : m > n => events[m].key # events[n].key}}
After(events, h) == (h \ Touched(events)) \cup Left(events)

Drive(c) ==
  /\ pc[c] = "running" /\ Verb[c] \in {"gesture", "chord"}
  /\ held' = After(IF Verb[c] = "gesture" THEN Gesture(Input[c]) ELSE Chord(Input[c]), held)
  /\ pinned' = pinned \cap held'
  /\ screen' = screen + 1
  /\ Finish(c)
  /\ UNCHANGED <<inbox, step, cacheVars, recVars, rmu, notice, histVars>>

\* TypeText, a character at a time.
TypeText(c) ==
  /\ pc[c] = "running" /\ Verb[c] = "text" /\ step <= Len(Input[c])
  /\ held' = After(Typed(Input[c][step]), held)
  /\ pinned' = pinned \cap held'
  /\ screen' = screen + 1 /\ step' = step + 1
  /\ UNCHANGED <<inbox, pc, lock, cacheVars, recVars, rmu, notice, histVars>>

\* No display, no key of the chord known, no text or no steps: nothing is pressed.
Unable(c) ==
  /\ pc[c] = "running" /\ Verb[c] \in {"gesture", "chord", "text"} /\ step = 1
  /\ Finish(c)
  /\ UNCHANGED <<inbox, inputVars, cacheVars, recVars, rmu, notice, histVars>>

\* One step of a composite: its presses outlive it until something releases them.
CompositeStep(c) ==
  /\ pc[c] = "running" /\ Verb[c] = "composite" /\ step <= Len(Input[c])
  /\ LET s == Input[c][step]
         events == CASE s.op \in {"pointer_down", "key_down"} -> <<Down(s.key)>>
                     [] s.op \in {"pointer_up", "key_up"}     -> <<Up(s.key)>>
                     [] s.op = "click"                        -> Gesture(s.click)
                     [] s.op = "type"                         -> Typed(s.char)
                     [] OTHER                                 -> << >>
     IN  /\ s.op \in CompositeOps
         /\ held' = After(events, held)
         /\ pinned' = (IF s.op \in {"pointer_down", "key_down"} THEN pinned \cup {s.key} ELSE pinned) \cap held'
         /\ screen' = IF s.op \in {"wait", "screenshot"} THEN screen ELSE screen + 1
  /\ step' = step + 1
  /\ UNCHANGED <<inbox, pc, lock, cacheVars, recVars, rmu, notice, histVars>>

StepsDone(c) ==
  /\ pc[c] = "running" /\ Verb[c] \in {"text", "composite"} /\ step > Len(Input[c])
  /\ Finish(c)
  /\ UNCHANGED <<inbox, inputVars, cacheVars, recVars, rmu, notice, histVars>>

\* A capture fails, or the op is one the relay's table has and this loop has
\* not: the rest is not run and nothing is released.
CompositeFails(c) ==
  /\ pc[c] = "running" /\ Verb[c] = "composite" /\ step <= Len(Input[c])
  /\ Input[c][step].op \in {"screenshot"} \cup RelayOps
  /\ Finish(c)
  /\ UNCHANGED <<inbox, inputVars, cacheVars, recVars, rmu, notice, histVars>>

-----------------------------------------------------------------------------
(***************************************************************************)
(* shotCache.screenshot                                                    *)
(***************************************************************************)
Usable == entry # None /\ entry.gen = gen /\ entry.young

ShotCached(c) ==
  /\ pc[c] = "running" /\ Verb[c] = "screenshot" /\ Usable
  /\ shot' = [shot EXCEPT ![c] = entry.frame]
  /\ Finish(c)
  /\ UNCHANGED <<inbox, inputVars, gen, entry, floor, recVars, rmu, notice, histVars>>

\* A fresh capture, cached under the generation it was begun in.  Nothing that
\* holds the dispatcher's lock can move that on meanwhile.
ShotCaptured(c) ==
  /\ pc[c] = "running" /\ Verb[c] = "screenshot" /\ ~Usable
  /\ entry' = [frame |-> screen, gen |-> gen, young |-> TRUE]
  /\ shot' = [shot EXCEPT ![c] = screen]
  /\ Finish(c)
  /\ UNCHANGED <<inbox, inputVars, gen, floor, recVars, rmu, notice, histVars>>

ShotFails(c) ==
  /\ pc[c] = "running" /\ Verb[c] = "screenshot" /\ ~Usable
  /\ Finish(c)
  /\ UNCHANGED <<inbox, inputVars, cacheVars, recVars, rmu, notice, histVars>>

\* A file pushed or pulled over HTTP, from end to end under the dispatcher's lock.
Transfer(c) ==
  /\ pc[c] = "running" /\ Verb[c] = "transfer"
  /\ Finish(c)
  /\ UNCHANGED <<inbox, inputVars, cacheVars, recVars, rmu, notice, histVars>>

\* The window of a second passes.
Ages ==
  /\ entry # None /\ entry.young
  /\ entry' = [entry EXCEPT !.young = FALSE]
  /\ UNCHANGED <<inbox, pc, lock, inputVars, gen, shot, floor, recVars, rmu, notice, histVars>>

-----------------------------------------------------------------------------
(***************************************************************************)
(* recorder                                                                *)
(***************************************************************************)
\* Mutant: start does not look at the phase.
BugStart(c) ==
  /\ pc[c] = "running" /\ Verb[c] = "start" /\ rmu = None
  /\ phase' = "recording" /\ cmd' = c /\ blob' = None
  /\ encoding' = encoding \cup {c}
  /\ timer' = IF c \in Capped THEN [timer EXCEPT ![c] = "armed"] ELSE timer
  /\ overlap' = (overlap \/ \E e \in Cmds : uploads[e] \in {"quitting", "uploading"})
  /\ Finish(c)
  /\ UNCHANGED <<inbox, inputVars, cacheVars, uploads, rmu, notice, crossed>>

\* Refused only while the phase is "recording".
Start(c) ==
  /\ pc[c] = "running" /\ Verb[c] = "start" /\ rmu = None
  /\ phase # "recording"
  /\ phase' = "recording" /\ cmd' = c /\ blob' = None
  /\ encoding' = encoding \cup {c}
  /\ timer' = IF c \in Capped THEN [timer EXCEPT ![c] = "armed"] ELSE timer
  /\ overlap' = (overlap \/ \E e \in Cmds : uploads[e] \in {"quitting", "uploading"})
  /\ Finish(c)
  /\ UNCHANGED <<inbox, inputVars, cacheVars, uploads, rmu, notice, crossed>>

\* Already recording, or ffmpeg is missing or does not start.
StartFails(c) ==
  /\ pc[c] = "running" /\ Verb[c] = "start" /\ rmu = None
  /\ Finish(c)
  /\ UNCHANGED <<inbox, inputVars, cacheVars, recVars, rmu, notice, histVars>>

\* The current encoder is told to quit and a goroutine of its own finishes it.
HandOver ==
  /\ phase' = "uploading" /\ cmd' = None
  /\ encoding' = encoding \ {cmd}
  /\ uploads' = [uploads EXCEPT ![cmd] = "quitting"]
  /\ UNCHANGED blob

Stoppable == phase = "recording" /\ cmd # None

\* stop releases the recorder's lock and then takes it again for the answer.
Stop(c) ==
  /\ pc[c] = "running" /\ Verb[c] = "stop" /\ rmu = None /\ Stoppable
  /\ HandOver
  /\ Goto(c, "answering")
  /\ UNCHANGED <<inbox, lock, inputVars, cacheVars, timer, rmu, notice, histVars>>

\* A status, the answer of a stop, or a stop with nothing to stop.
Answer(c) ==
  /\ rmu = None
  /\ \/ pc[c] = "answering"
     \/ pc[c] = "running" /\ Verb[c] = "status"
     \/ pc[c] = "running" /\ Verb[c] = "stop" /\ ~Stoppable
  /\ Finish(c)
  /\ UNCHANGED <<inbox, inputVars, cacheVars, recVars, rmu, notice, histVars>>

\* The safety cap is a sleep that ends in stop, whatever is recorded by then.
TimerFires(e) ==
  /\ timer[e] = "armed" /\ rmu = None
  /\ timer' = [timer EXCEPT ![e] = "done"]
  /\ IF Stoppable THEN HandOver ELSE UNCHANGED <<phase, cmd, blob, encoding, uploads>>
  /\ UNCHANGED <<inbox, pc, lock, inputVars, cacheVars, rmu, notice, histVars>>

\* ffmpeg has exited: the goroutine takes the lock and keeps it while it uploads.
UploadBegins(e) ==
  /\ uploads[e] = "quitting" /\ rmu = None
  /\ rmu' = e
  /\ uploads' = [uploads EXCEPT ![e] = "uploading"]
  /\ UNCHANGED <<inbox, pc, lock, inputVars, cacheVars, phase, cmd, blob, encoding, timer, notice, histVars>>

\* Mutant: an empty or failed upload returns without its unlock.
BugUploadEnds(e) ==
  /\ uploads[e] = "uploading"
  /\ uploads' = [uploads EXCEPT ![e] = "done"]
  /\ \/ phase' = "ready" /\ blob' = e /\ rmu' = None
     \/ phase' = "failed" /\ UNCHANGED <<blob, rmu>>
  /\ UNCHANGED <<inbox, pc, lock, inputVars, cacheVars, cmd, encoding, timer, notice, histVars>>

\* The phase is set whatever it has become since.
UploadEnds(e) ==
  /\ uploads[e] = "uploading"
  /\ rmu' = None
  /\ uploads' = [uploads EXCEPT ![e] = "done"]
  /\ \/ phase' = "ready" /\ blob' = e
     \/ phase' = "failed" /\ UNCHANGED blob
  /\ UNCHANGED <<inbox, pc, lock, inputVars, cacheVars, cmd, encoding, timer, notice, histVars>>

-----------------------------------------------------------------------------
LocalWork(c) ==
  \/ Drive(c) \/ TypeText(c) \/ Unable(c) \/ CompositeStep(c) \/ StepsDone(c) \/ CompositeFails(c)
  \/ ShotCached(c) \/ ShotCaptured(c) \/ ShotFails(c)
  \/ Start(c) \/ StartFails(c) \/ Stop(c) \/ Answer(c)
Work(c) == LocalWork(c) \/ Transfer(c)
Background(e) == TimerFires(e) \/ UploadBegins(e) \/ UploadEnds(e)

Next ==
  \/ \E c \in Cmds : Refuse(c) \/ Accept(c) \/ Execute(c) \/ Work(c)
  \/ Ages
  \/ \E e \in Cmds : Background(e)

Spec == Init /\ [][Next]_vars

(***************************************************************************)
(* As long as a goroutine can move, one does, and ffmpeg quits when told   *)
(* to.  Bytes on their way to or from the server need not arrive: the HTTP *)
(* client has no timeout (blobclient.go:35).  Nothing is assumed of clocks *)
(* either.  That the locks do not starve whoever waits (Go's mutex) is not *)
(* needed with finitely many commands.                                     *)
(***************************************************************************)
Fairness == WF_vars(\E c \in Cmds : Execute(c) \/ LocalWork(c) \/ UploadBegins(c))

FairSpec == Spec /\ Fairness

-----------------------------------------------------------------------------
TypeOK ==
  /\ \A i \in DOMAIN inbox : pc[inbox[i]] = "sent"
  /\ pc \in [Cmds -> {"sent", "waiting", "running", "answering", "replied"}]
  /\ lock \in Cmds \cup {None} /\ rmu \in Cmds \cup {None}
  /\ screen \in Nat /\ pinned \subseteq held /\ step \in Nat \ {0} /\ gen \in Nat
  /\ entry \in [frame : 0..screen, gen : 0..gen, young : BOOLEAN] \cup {None}
  /\ \A c \in Cmds : shot[c] \in 0..screen \cup {None} /\ floor[c] \in 0..screen
  /\ phase \in {"idle", "recording", "uploading", "ready", "failed"}
  /\ {cmd, blob} \subseteq Cmds \cup {None} /\ encoding \subseteq Cmds
  /\ uploads \in [Cmds -> {"off", "quitting", "uploading", "done"}]
  /\ timer \in [Cmds -> {"off", "armed", "done"}]
  /\ {notice, overlap, crossed} \subseteq BOOLEAN

(***************************************************************************)
(* A screenshot never predates an action: whichever commands the agent was *)
(* sent and in whatever order their goroutines got the lock, the frame is  *)
(* no older than what was on the screen when the screenshot's turn came.   *)
(***************************************************************************)
FreshShot == \A c \in Cmds : shot[c] # None => shot[c] >= floor[c]

(***************************************************************************)
(* Between commands nothing is pressed, and no keycode is left remapped,   *)
(* but what a composite pressed and has not released, also when it failed  *)
(* halfway (dispatcher.go:18-19: running two at once could interleave      *)
(* their events).                                                          *)
(***************************************************************************)
NothingStuck == TypeOK /\ (lock = None => held \subseteq pinned)

(***************************************************************************)
(* The recorder knows what runs: as long as no recording is started before *)
(* the last one is uploaded, the encoder that runs is the one it reports,  *)
(* so that a stop reaches it, an offered clip is a finished one, and while *)
(* no start and stop overlap the person at the machine is told.  (A start  *)
(* during an upload is let in, and its encoder is forgotten when the       *)
(* upload ends: two may run, against recorder.go:23.)                      *)
(***************************************************************************)
RecorderTruthful ==
  ~overlap =>
    /\ encoding = IF phase = "recording" THEN {cmd} ELSE {}
    /\ blob # None => uploads[blob] = "done"
    /\ (~crossed /\ encoding # {}) => notice \/ UnderWay("stop") # {}

(***************************************************************************)
(* Every command accepted is answered: the two locks and the stop that     *)
(* takes one of them twice never wait on each other.  What can stop the    *)
(* agent is bytes that do not move: a transfer of the command that has the *)
(* dispatcher's lock, or an upload that keeps the recorder's, once a       *)
(* command that needs that lock has the dispatcher's (recorder.go:163-172; *)
(* recorder.go:19-21 has it that a clip "never blocks the command window").*)
(***************************************************************************)
Settled  == \A c \in Cmds : pc[c] \in {"sent", "replied"}
Hung ==
  lock # None /\ \/ Verb[lock] = "transfer"
                 \/ Verb[lock] \in {"start", "stop", "status"} /\ rmu # None /\ uploads[rmu] = "uploading"
Answered == (~Settled ~> Settled) \/ <>[]Hung
=============================================================================

----------------------------- MODULE ReplayStore -----------------------------
(***************************************************************************)
(* The recorded steps of one device at rest: rows in SQLite                *)
(* (store/replay.go) and frame files on disk (replay/frames.go), the one   *)
(* goroutine that writes them, the retention loop (replay/replay.go), and  *)
(* the deletion of the device (api.go, devicegc).                          *)
(*                                                                         *)
(* The pool has one connection, so a statement is atomic and a select and  *)
(* the delete of what it found are not.  Steps are numbered in the order   *)
(* they are recorded.  Instead of a clock every step has an age, which     *)
(* stops counting once it is past the window.                              *)
(***************************************************************************)
EXTENDS Naturals, FiniteSets

CONSTANTS
  MaxSteps,    \* bound: how many steps are recorded
  Bare,        \* the steps that carry no image
  Keep,        \* per-device cap (maxSteps)
  Window,      \* retention, in ticks
  MaxFaults    \* bound: failing statements, failing file operations, crashes

Steps == 1 .. MaxSteps
Ages  == 0 .. Window + 1

ASSUME ReplayAssumption ==
  /\ MaxSteps \in Nat /\ Bare \subseteq Steps
  /\ Keep \in Nat \ {0} /\ Window \in Nat /\ MaxFaults \in Nat

VARIABLES
  known,            \* the device's own row exists
  stage,            \* of each step: where the recorder has it
  temp, file,       \* images on disk: temporary, and under the frame's name
  row, framed,      \* rows, and those of them that name a frame
  age, fileAge,     \* since Record stamped the step; since its image was written
  part,             \* what gcLoop is at: "prune", "trim" or "sweep"
  gc, forget,       \* the two deleters: [pc |-> step, ids |-> steps in hand]
  faults

storeVars == <<known, stage, temp, file, row, framed, age, fileAge, part, gc, forget, faults>>

Deleter(pc, ids) == [pc |-> pc, ids |-> ids]

StoreInit ==
  /\ known = TRUE
  /\ stage = [n \in Steps |-> "none"]
  /\ temp = {} /\ file = {} /\ row = {} /\ framed = {}
  /\ age = [n \in Steps |-> 0] /\ fileAge = [n \in Steps |-> 0]
  /\ part = "prune" /\ gc = Deleter("select", {}) /\ forget = Deleter("idle", {})
  /\ faults = 0

Fault == faults < MaxFaults /\ faults' = faults + 1

-----------------------------------------------------------------------------
(***************************************************************************)
(* The writer.  A frame is saved before its row is inserted; a row that    *)
(* cannot be inserted takes its file back out.                             *)
(***************************************************************************)
Goes(n, to) == stage' = [stage EXCEPT ![n] = to]
InHand == {"temp", "saved", "frameless", "undo"}

\* Record: a command answered on the device's socket, which outlives the device's row.
Record(n) ==
  /\ stage[n] = "none" /\ \A m \in 1 .. n - 1 : stage[m] # "none"
  /\ Goes(n, "queued")
  /\ UNCHANGED <<known, temp, file, row, framed, age, fileAge, part, gc, forget, faults>>

\* n is what the writer takes next from the channel.
IsNext(n) ==
  /\ stage[n] = "queued"
  /\ \A m \in Steps : stage[m] \notin InHand /\ (m < n => stage[m] # "queued")

SaveTemp(n) ==
  /\ IsNext(n) /\ n \notin Bare
  /\ Goes(n, "temp") /\ temp' = temp \cup {n}
  /\ fileAge' = [fileAge EXCEPT ![n] = 0]
  /\ UNCHANGED <<known, file, row, framed, age, part, gc, forget, faults>>

SaveRename(n) ==
  /\ stage[n] = "temp"
  /\ Goes(n, "saved") /\ temp' = temp \ {n} /\ file' = file \cup {n}
  /\ UNCHANGED <<known, row, framed, age, fileAge, part, gc, forget, faults>>

\* The step is still recorded, without its frame.
SaveFails(n) ==
  /\ (IsNext(n) /\ n \notin Bare) \/ stage[n] = "temp"
  /\ Fault
  /\ Goes(n, "frameless") /\ temp' = temp \ {n}
  /\ UNCHANGED <<known, file, row, framed, age, fileAge, part, gc, forget>>

\* MUTANT of Insert: the row is inserted while its frame is still being written.
BugInsert(n) ==
  /\ stage[n] \in {"temp", "frameless"} \/ (IsNext(n) /\ n \in Bare)
  /\ row' = row \cup {n} /\ framed' = IF stage[n] = "temp" THEN framed \cup {n} ELSE framed
  /\ Goes(n, "over")
  /\ UNCHANGED <<known, temp, file, age, fileAge, part, gc, forget, faults>>

Insert(n) ==
  /\ stage[n] \in {"saved", "frameless"} \/ (IsNext(n) /\ n \in Bare)
  /\ row' = row \cup {n} /\ framed' = IF stage[n] = "saved" THEN framed \cup {n} ELSE framed
  /\ Goes(n, "over")
  /\ UNCHANGED <<known, temp, file, age, fileAge, part, gc, forget, faults>>

InsertFails(n) ==
  /\ stage[n] \in {"saved", "frameless"} \/ (IsNext(n) /\ n \in Bare)
  /\ Fault
  /\ Goes(n, IF stage[n] = "saved" THEN "undo" ELSE "over")
  /\ UNCHANGED <<known, temp, file, row, framed, age, fileAge, part, gc, forget>>

Undo(n) ==
  /\ stage[n] = "undo"
  /\ Goes(n, "over") /\ file' = file \ {n}
  /\ UNCHANGED <<known, temp, row, framed, age, fileAge, part, gc, forget, faults>>

-----------------------------------------------------------------------------
(***************************************************************************)
(* The two deleters: each selects ids, deletes those rows, then removes    *)
(* the files of the rows it deleted, one at a time.  A statement that      *)
(* fails ends the round with nothing in hand.                              *)
(***************************************************************************)
Newer(n) == {m \in row : m > n}

Delete(d, next) ==
  /\ d.pc = "rows"
  /\ row' = row \ d.ids /\ framed' = framed \ d.ids
  /\ next = Deleter("files", d.ids)

DeleteFile(d, next, n) ==
  /\ d.pc = "files" /\ n \in d.ids
  /\ next = [d EXCEPT !.ids = @ \ {n}]

\* api.deleteDevice: the row goes, then Forget.  The device's socket stays.
DeleteDevice ==
  /\ known /\ known' = FALSE
  /\ forget' = Deleter("select", {})
  /\ UNCHANGED <<stage, temp, file, row, framed, age, fileAge, part, gc, faults>>

\* devicegc.sweep deletes the row of an expired device, and nothing else of it.
ExpireDevice ==
  /\ known /\ known' = FALSE
  /\ UNCHANGED <<stage, temp, file, row, framed, age, fileAge, part, gc, forget, faults>>

ForgetSelect ==
  /\ forget.pc = "select"
  /\ forget' = Deleter("rows", row)
  /\ UNCHANGED <<known, stage, temp, file, row, framed, age, fileAge, part, gc, faults>>

ForgetDelete ==
  /\ Delete(forget, forget')
  /\ UNCHANGED <<known, stage, temp, file, age, fileAge, part, gc, faults>>

ForgetFile(n) ==
  /\ DeleteFile(forget, forget', n) /\ file' = file \ {n}
  /\ UNCHANGED <<known, stage, temp, row, framed, age, fileAge, part, gc, faults>>

ForgetDone ==
  /\ forget.pc = "files" /\ forget.ids = {}
  /\ forget' = Deleter("idle", {})
  /\ UNCHANGED <<known, stage, temp, file, row, framed, age, fileAge, part, gc, faults>>

ForgetFails ==
  /\ forget.pc \in {"select", "rows"} /\ Fault
  /\ forget' = Deleter("idle", {})
  /\ UNCHANGED <<known, stage, temp, file, row, framed, age, fileAge, part, gc>>

-----------------------------------------------------------------------------
(***************************************************************************)
(* gcLoop: prune by age, trim to the newest Keep, sweep old files, sleep.  *)
(* Prune and trim go on to the next part whether they succeed or not.      *)
(***************************************************************************)
\* MUTANT of Surplus: counts from the wrong end.
BugSurplus == {n \in row : Cardinality({m \in row : m < n}) >= Keep}

\* What TrimReplayDevice selects: all but the newest Keep.
Surplus == {n \in row : Cardinality(Newer(n)) >= Keep}

GcSelect ==
  /\ part \in {"prune", "trim"} /\ gc.pc = "select"
  /\ gc' = Deleter("rows", IF part = "prune" THEN {n \in row : age[n] > Window} ELSE Surplus)
  /\ UNCHANGED <<known, stage, temp, file, row, framed, age, fileAge, part, forget, faults>>

GcDelete ==
  /\ Delete(gc, gc')
  /\ UNCHANGED <<known, stage, temp, file, age, fileAge, part, forget, faults>>

GcFile(n) ==
  /\ DeleteFile(gc, gc', n) /\ file' = file \ {n}
  /\ UNCHANGED <<known, stage, temp, row, framed, age, fileAge, part, forget, faults>>

NextPart == part' = IF part = "prune" THEN "trim" ELSE "sweep"

GcPartDone ==
  /\ gc.pc = "files" /\ gc.ids = {}
  /\ gc' = Deleter("select", {}) /\ NextPart
  /\ UNCHANGED <<known, stage, temp, file, row, framed, age, fileAge, forget, faults>>

GcPartFails ==
  /\ gc.pc \in {"select", "rows"} /\ part # "sweep" /\ Fault
  /\ gc' = Deleter("select", {}) /\ NextPart
  /\ UNCHANGED <<known, stage, temp, file, row, framed, age, fileAge, forget>>

\* MUTANT of Sweep: a file without a row is left alone.
BugSweep ==
  /\ part = "sweep"
  /\ file' = {n \in file : fileAge[n] =< Window \/ n \notin row}
  /\ part' = "prune"
  /\ UNCHANGED <<known, stage, temp, row, framed, age, fileAge, gc, forget, faults>>

\* sweepOrphans looks at files under a frame's name only, never at temporary ones.
Sweep ==
  /\ part = "sweep"
  /\ file' = {n \in file : fileAge[n] =< Window}
  /\ part' = "prune"
  /\ UNCHANGED <<known, stage, temp, row, framed, age, fileAge, gc, forget, faults>>

-----------------------------------------------------------------------------
\* os.Remove fails, and nobody looks.
RemoveFails ==
  /\ Fault
  /\ \/ \E n \in Steps : DeleteFile(gc, gc', n) /\ UNCHANGED forget
     \/ \E n \in Steps : DeleteFile(forget, forget', n) /\ UNCHANGED gc
  /\ UNCHANGED <<known, stage, temp, file, row, framed, age, fileAge, part>>

\* The process dies: the channel, the step in hand and both deleters' ids are lost.
Crash ==
  /\ Fault
  /\ stage' = [n \in Steps |-> IF stage[n] = "none" THEN "none" ELSE "over"]
  /\ part' = "prune" /\ gc' = Deleter("select", {}) /\ forget' = Deleter("idle", {})
  /\ UNCHANGED <<known, temp, file, row, framed, age, fileAge>>

Older(f, S) == [n \in Steps |-> IF n \in S /\ f[n] =< Window THEN f[n] + 1 ELSE f[n]]
Tick ==
  /\ age' = Older(age, {n \in Steps : stage[n] \notin {"none", "over"}} \cup row)
  /\ fileAge' = Older(fileAge, temp \cup file)
  /\ UNCHANGED <<known, stage, temp, file, row, framed, part, gc, forget, faults>>

WriterStep(n) ==
  \/ SaveTemp(n) \/ SaveRename(n) \/ SaveFails(n) \/ Insert(n) \/ InsertFails(n) \/ Undo(n)
Forget == ForgetSelect \/ ForgetDelete \/ (\E n \in Steps : ForgetFile(n)) \/ ForgetDone \/ ForgetFails
Gc == GcSelect \/ GcDelete \/ (\E n \in Steps : GcFile(n)) \/ GcPartDone \/ GcPartFails \/ Sweep

StoreNext ==
  \/ \E n \in Steps : Record(n) \/ WriterStep(n)
  \/ DeleteDevice \/ ExpireDevice \/ Forget
  \/ Gc \/ RemoveFails \/ Crash \/ Tick

StoreSpec == StoreInit /\ [][StoreNext]_storeVars

(***************************************************************************)
(* The writer and the loop are goroutines that run on, and time passes.    *)
(***************************************************************************)
StoreFairness ==
  /\ \A n \in Steps : WF_storeVars(WriterStep(n))
  /\ WF_storeVars(Gc) /\ WF_storeVars(Tick)

StoreFairSpec == StoreSpec /\ StoreFairness

-----------------------------------------------------------------------------
StoreTypeOK ==
  /\ known \in BOOLEAN
  /\ stage \in [Steps -> {"none", "queued", "over"} \cup InHand]
  /\ temp \subseteq Steps /\ file \subseteq Steps \ Bare
  /\ row \subseteq Steps /\ framed \subseteq row \ Bare
  /\ age \in [Steps -> Ages] /\ fileAge \in [Steps -> Ages]
  /\ part \in {"prune", "trim", "sweep"}
  /\ gc \in [pc : {"select", "rows", "files"}, ids : SUBSET Steps]
  /\ forget \in [pc : {"idle", "select", "rows", "files"}, ids : SUBSET Steps]
  /\ faults \in 0 .. MaxFaults

(***************************************************************************)
(* A row inside the window that names a frame has it on disk, whatever is  *)
(* being written, deleted, swept or was cut off by a crash (replay.go:     *)
(* 256-260; frames.go:84-91).                                              *)
(***************************************************************************)
FramesBacked == \A n \in framed : age[n] =< Window => n \in file

(***************************************************************************)
(* A step is deleted only with its device, or past the window, or when the *)
(* device has Keep newer ones (store/replay.go:183-210).                   *)
(***************************************************************************)
OnlyOldGo ==
  [][\A n \in row \ row' : ~ known \/ age[n] > Window \/ Cardinality(Newer(n)) >= Keep]_storeVars

(***************************************************************************)
(* The window is a promise about the disk (docs/replay.md, Retention): no  *)
(* row stays, and no image under a frame's name, not even one a crash or a *)
(* failed delete has left without a row.                                   *)
(***************************************************************************)
WindowHolds == \A n \in Steps : (n \in row \/ n \in file) ~> (n \notin row /\ n \notin file)

(***************************************************************************)
(* The tables and the directory agree: the types, and FramesBacked.        *)
(***************************************************************************)
Kept == StoreTypeOK /\ FramesBacked
=============================================================================

----------------------------- MODULE Enrollment -----------------------------
(***************************************************************************)
(* Device-first enrollment: a client registers itself with the relay,      *)
(* shows its id and a claim code, and polls until somebody has claimed it  *)
(* (api/enroll.go, store/store.go; linux/internal/enroll).  Modelled are   *)
(* the heartbeat and claim handlers, one SQL statement or transaction to a *)
(* step, the sweep that reaps what nobody claims (devicegc), and Session   *)
(* under its two front ends: the daemon (linux/cmd/abacad), which ends on  *)
(* an error, and the window (linux/internal/gui), which offers to retry.   *)
(*                                                                         *)
(* An identity is a device id with its token, numbered in the order they   *)
(* are minted; a claim code is the number of rotations behind it.          *)
(***************************************************************************)
EXTENDS Naturals, FiniteSets

CONSTANTS
  Claimers,          \* people at the claim page, each with an account
  Fronts,            \* front ends of the client: "daemon", "gui"
  MaxClaimAttempts,
  MaxTransient,      \* maxTransient: failed heartbeats in a row
  None,
  MaxIds,            \* BOUND: identities the relay has room for
  MaxCode,           \* BOUND: rotation of a code starts only below this
  MaxFaults          \* BOUND: lost messages, failed saves, stopped clients

Ids == 1 .. MaxIds

ASSUME EnrollmentAssumption ==
  /\ IsFiniteSet(Claimers) /\ Fronts \subseteq {"daemon", "gui"}
  /\ MaxClaimAttempts \in Nat \ {0} /\ MaxTransient \in Nat \ {0}
  /\ None \notin Ids \cup Claimers
  /\ MaxIds \in Nat /\ MaxCode \in Nat /\ MaxFaults \in Nat

VARIABLES
  \* the relay
  row,      \* what the store has of each identity
  hb,       \* the heartbeat handler
  claim,    \* each person's request: [pc |-> step, id |-> , code |-> as typed]
  \* the client
  front, pc,
  mem,      \* the identity Run works with
  disk,     \* the one in the config file
  given,    \* the one the front end read there, or was left with
  allow,    \* Run may register
  pass,     \* passes of Run's loop
  missed,   \* heartbeats failed in a row
  screen,   \* id and code on display
  faults

relay  == <<row, hb, claim>>
client == <<front, pc, mem, disk, given, allow, pass, missed, screen>>
vars   == <<relay, client, faults>>

(***************************************************************************)
(* A row: the table it is in, its code with the code's remaining life and  *)
(* its wrong guesses, when the client was last heard of, whose it is and   *)
(* whether the enrollment has run out.                                     *)
(***************************************************************************)
Row(at) == [at |-> at, code |-> 1, life |-> "fresh", attempts |-> 0,
            wear |-> "live", owner |-> None, term |-> "valid"]

Registered(i) == row[i].at = "registered"
Resolves(i) == row[i].at = "claimed" /\ row[i].term # "lapsed"

Quiet == [pc |-> "idle", id |-> None, code |-> 0, due |-> FALSE, heard |-> FALSE]
NoClaim == [pc |-> "idle", id |-> None, code |-> 0]
Blank == [id |-> None, code |-> 0]

Init ==
  /\ row = [i \in Ids |-> Row("none")]
  /\ hb = Quiet /\ claim = [c \in Claimers |-> NoClaim]
  /\ front \in Fronts /\ pc = "off"
  /\ mem = None /\ disk = None /\ given = None
  /\ allow = FALSE /\ pass = 0 /\ missed = 0 /\ screen = Blank
  /\ faults = 0

Fault == faults < MaxFaults /\ faults' = faults + 1

-----------------------------------------------------------------------------
(***************************************************************************)
(* The client: its front end starts Run, Run registers if it must, and     *)
(* polls until it is claimed or turned away.                               *)
(***************************************************************************)
Run(token, may) ==
  /\ pc' = "run" /\ mem' = token /\ allow' = may /\ pass' = 0 /\ missed' = 0

\* The daemon registers unasked; the window resumes what it has, or waits for the button.
Launch ==
  /\ pc = "off"
  /\ given' = disk
  /\ IF front = "gui" /\ disk = None
     THEN pc' = "window" /\ UNCHANGED <<mem, allow, pass, missed>>
     ELSE Run(disk, front = "daemon")
  /\ UNCHANGED <<relay, front, disk, screen, faults>>

Press ==
  /\ pc = "window"
  /\ Run(given, TRUE)
  /\ UNCHANGED <<relay, front, disk, given, screen, faults>>

\* Run returns an error: the daemon exits, the window drops the code ...
RunEnds(shown) ==
  /\ pc' = (IF front = "gui" THEN "window" ELSE "off")
  /\ mem' = None /\ screen' = shown
  /\ UNCHANGED <<front, disk, given, allow, pass>>

RunPass ==
  /\ pc = "run" /\ pass < 2
  /\ mem # None \/ allow
  /\ pc' = (IF mem = None THEN "register" ELSE "beat") /\ missed' = 0
  /\ UNCHANGED <<relay, front, mem, disk, given, allow, pass, screen, faults>>

\* ... unless it only waits for the button (ErrSetupRequired), which leaves an
\* old code up.  Not allowed to register, or turned away twice.
RunRefuses ==
  /\ pc = "run"
  /\ \/ pass = 2 /\ RunEnds(Blank)
     \/ pass < 2 /\ mem = None /\ ~allow /\ RunEnds(screen)
  /\ UNCHANGED <<relay, missed, faults>>

Unused == {i \in Ids : row[i].at = "none"}
Mint(i) ==
  /\ i \in Unused /\ \A j \in Unused : i =< j
  /\ row' = [row EXCEPT ![i] = Row("registered")]

\* registerDevice, and its answer.
Register(i) ==
  /\ pc = "register"
  /\ Mint(i) /\ mem' = i /\ pc' = "persist"
  /\ UNCHANGED <<hb, claim, front, disk, given, allow, pass, missed, screen, faults>>

\* The relay is full.
RegisterRefused ==
  /\ pc = "register" /\ Unused = {}
  /\ RunEnds(Blank)
  /\ UNCHANGED <<relay, missed, faults>>

\* The request is lost or throttled, or its answer is lost and the row is nobody's.
RegisterLost ==
  /\ pc = "register" /\ Fault
  /\ UNCHANGED row \/ \E i \in Ids : Mint(i)
  /\ RunEnds(Blank)
  /\ UNCHANGED <<hb, claim, missed>>

Persist ==
  /\ pc = "persist"
  /\ disk' = mem /\ screen' = [id |-> mem, code |-> 1]
  /\ pc' = "beat"
  /\ UNCHANGED <<relay, front, mem, given, allow, pass, missed, faults>>

PersistFails ==
  /\ pc = "persist" /\ Fault
  /\ RunEnds(Blank)
  /\ UNCHANGED <<relay, missed>>

Beat ==
  /\ pc = "beat" /\ hb = Quiet
  /\ hb' = [Quiet EXCEPT !.pc = "registration", !.id = mem, !.heard = TRUE]
  /\ pc' = "asked"
  /\ UNCHANGED <<row, claim, front, mem, disk, given, allow, pass, missed, screen, faults>>

\* MUTANT of BeatLost: no answer is taken for a rejection.
HastyBeatLost ==
  /\ pc \in {"beat", "asked"} /\ Fault
  /\ hb' = [hb EXCEPT !.heard = FALSE]
  /\ disk' = None /\ mem' = None /\ pc' = "run" /\ pass' = pass + 1
  /\ UNCHANGED <<row, claim, front, given, allow, missed, screen>>

\* The heartbeat or its answer is lost; the handler, if it was reached, goes on.
BeatLost ==
  /\ pc \in {"beat", "asked"} /\ Fault
  /\ hb' = [hb EXCEPT !.heard = FALSE]
  /\ IF missed + 1 >= MaxTransient
     THEN RunEnds(Blank) /\ UNCHANGED missed
     ELSE /\ missed' = missed + 1 /\ pc' = "rest"
          /\ UNCHANGED <<front, mem, disk, given, allow, pass, screen>>
  /\ UNCHANGED <<row, claim>>

Rest ==
  /\ pc = "rest" /\ pc' = "beat"
  /\ UNCHANGED <<relay, front, mem, disk, given, allow, pass, missed, screen, faults>>

Answered(say) == pc = "asked" /\ hb.pc = say /\ hb' = Quiet

Show ==
  /\ Answered("code")
  /\ screen' = [id |-> mem, code |-> hb.code]
  /\ pc' = "rest" /\ missed' = 0
  /\ UNCHANGED <<row, claim, front, mem, disk, given, allow, pass, faults>>

\* Run returns the credential; the window keeps it for a retry, and both dial.
Dial ==
  /\ Answered("claimed")
  /\ given' = (IF front = "gui" THEN mem ELSE given)
  /\ screen' = Blank /\ pc' = "dialing"
  /\ UNCHANGED <<row, claim, front, mem, disk, allow, pass, missed, faults>>

\* ErrUnknownToken: wipe the credential (if the file lets us) and pass again.
Rejected ==
  /\ Answered("unknown")
  /\ \/ disk' = None /\ UNCHANGED faults
     \/ Fault /\ UNCHANGED disk
  /\ mem' = None /\ pass' = pass + 1 /\ pc' = "run"
  /\ UNCHANGED <<row, claim, front, given, allow, missed, screen>>

\* The client is killed, or quits, and can be launched again.
Stop ==
  /\ pc # "off" /\ Fault
  /\ pc' = "off" /\ mem' = None /\ screen' = Blank
  /\ hb' = [hb EXCEPT !.heard = FALSE]
  /\ UNCHANGED <<row, claim, front, disk, given, allow, pass, missed>>

-----------------------------------------------------------------------------
(***************************************************************************)
(* deviceHeartbeat: the registrations first, then the devices.             *)
(***************************************************************************)
HbGoes(to) == hb' = [hb EXCEPT !.pc = to]
Rotated(r) == [r EXCEPT !.code = @ + 1, !.life = "fresh", !.attempts = 0]
Rotate(i) == row' = [row EXCEPT ![i] = IF Registered(i) THEN Rotated(@) ELSE @]

HbLookup ==
  /\ hb.pc = "registration"
  /\ IF Registered(hb.id)
     THEN hb' = [hb EXCEPT !.pc = "touch", !.code = row[hb.id].code,
                           !.due = row[hb.id].life # "fresh"]
     ELSE HbGoes("device")
  /\ UNCHANGED <<row, claim, client, faults>>

HbTouch ==
  /\ hb.pc = "touch"
  /\ row' = [row EXCEPT ![hb.id].wear = IF Registered(hb.id) /\ @ = "idle" THEN "live" ELSE @]
  /\ HbGoes(IF hb.due THEN "rotate" ELSE "code")
  /\ UNCHANGED <<claim, client, faults>>

HbRotate ==
  /\ hb.pc = "rotate"
  /\ Rotate(hb.id) /\ HbGoes("reread")
  /\ UNCHANGED <<claim, client, faults>>

\* The row as it is now, or as it was if it is gone.
HbReread ==
  /\ hb.pc = "reread"
  /\ hb' = [hb EXCEPT !.pc = "code", !.code = IF Registered(hb.id) THEN row[hb.id].code ELSE @]
  /\ UNCHANGED <<row, claim, client, faults>>

\* MUTANT of HbDevice: the claimed device is not looked for.
BugHbDevice ==
  /\ hb.pc = "device" /\ HbGoes("code")
  /\ UNCHANGED <<row, claim, client, faults>>

HbDevice ==
  /\ hb.pc = "device"
  /\ HbGoes(IF Resolves(hb.id) THEN "claimed" ELSE "unknown")
  /\ UNCHANGED <<row, claim, client, faults>>

\* Nobody is listening for the answer any more.
HbUnheard ==
  /\ hb.pc \in {"code", "claimed", "unknown"} /\ ~hb.heard
  /\ hb' = Quiet
  /\ UNCHANGED <<row, claim, client, faults>>

-----------------------------------------------------------------------------
(***************************************************************************)
(* claimPreview and claimDevice                                            *)
(***************************************************************************)
ClaimGoes(c, to) == claim' = [claim EXCEPT ![c].pc = to]
ClaimEnds(c) == claim' = [claim EXCEPT ![c] = NoClaim]

\* Somebody types what the screen shows, or mistypes it.
Type(c) ==
  /\ claim[c].pc = "idle" /\ screen # Blank
  /\ \E typed \in {screen.code, 0} :
       /\ typed # row[screen.id].code => row[screen.id].code < MaxCode
       /\ claim' = [claim EXCEPT ![c] = [pc |-> "look", id |-> screen.id, code |-> typed]]
  /\ UNCHANGED <<row, hb, client, faults>>

\* What the request matches: the present code, before it expires.
Matches(c) ==
  /\ Registered(claim[c].id)
  /\ claim[c].code = row[claim[c].id].code /\ row[claim[c].id].life # "expired"

\* lookupClaimable, which is all of a preview.
Look(c) ==
  /\ claim[c].pc = "look"
  /\ \/ Registered(claim[c].id) /\ ~Matches(c) /\ ClaimGoes(c, "note")
     \/ Matches(c) /\ ClaimGoes(c, "claim")
     \/ (Matches(c) \/ ~Registered(claim[c].id)) /\ ClaimEnds(c)
  /\ UNCHANGED <<row, hb, client, faults>>

Note(c) ==
  /\ claim[c].pc = "note"
  /\ row' = [row EXCEPT ![claim[c].id].attempts = IF Registered(claim[c].id) THEN @ + 1 ELSE @]
  /\ ClaimGoes(c, "count")
  /\ UNCHANGED <<hb, client, faults>>

\* MUTANT of Count: one guess too many.
BugCount(c) ==
  /\ claim[c].pc = "count"
  /\ IF Registered(claim[c].id) /\ row[claim[c].id].attempts > MaxClaimAttempts
     THEN ClaimGoes(c, "rotate") ELSE ClaimEnds(c)
  /\ UNCHANGED <<row, hb, client, faults>>

Count(c) ==
  /\ claim[c].pc = "count"
  /\ IF Registered(claim[c].id) /\ row[claim[c].id].attempts >= MaxClaimAttempts
     THEN ClaimGoes(c, "rotate") ELSE ClaimEnds(c)
  /\ UNCHANGED <<row, hb, client, faults>>

ForceRotate(c) ==
  /\ claim[c].pc = "rotate"
  /\ Rotate(claim[c].id) /\ ClaimEnds(c)
  /\ UNCHANGED <<hb, client, faults>>

Graduate(c) ==
  row' = [row EXCEPT ![claim[c].id] = [Row("claimed") EXCEPT !.owner = c]]

\* MUTANT of ClaimIt: trusts what lookupClaimable found.
BugClaimIt(c) ==
  /\ claim[c].pc = "claim"
  /\ IF Registered(claim[c].id) THEN Graduate(c) ELSE UNCHANGED row
  /\ ClaimEnds(c)
  /\ UNCHANGED <<hb, client, faults>>

\* ClaimRegistration, one transaction that checks the code again.
ClaimIt(c) ==
  /\ claim[c].pc = "claim"
  /\ IF Matches(c) THEN Graduate(c) ELSE UNCHANGED row
  /\ ClaimEnds(c)
  /\ UNCHANGED <<hb, client, faults>>

-----------------------------------------------------------------------------
(***************************************************************************)
(* Time, the owner and the sweep                                           *)
(***************************************************************************)
OnlyRow == UNCHANGED <<hb, claim, client, faults>>

CodeAges(i) ==
  /\ Registered(i)
  /\ \/ row[i].life = "fresh" /\ row[i].code < MaxCode /\ row' = [row EXCEPT ![i].life = "near"]
     \/ row[i].life = "near" /\ row' = [row EXCEPT ![i].life = "expired"]
  /\ OnlyRow

\* A client in its loop gives up long before the relay calls it idle.
Polling == pc \in {"beat", "asked", "rest"}
GoesIdle(i) ==
  /\ Registered(i) /\ row[i].wear = "live" /\ ~(Polling /\ mem = i)
  /\ row' = [row EXCEPT ![i].wear = "idle"]
  /\ OnlyRow

\* registrationMaxAge.
GetsOld(i) ==
  /\ Registered(i) /\ row[i].wear # "old"
  /\ row' = [row EXCEPT ![i].wear = "old"]
  /\ OnlyRow

Lapses(i) ==
  /\ row[i].at = "claimed" /\ row[i].term = "valid"
  /\ row' = [row EXCEPT ![i].term = "lapsed"]
  /\ OnlyRow

Extend(i) ==
  /\ row[i].at = "claimed" /\ row[i].term = "lapsed"
  /\ row' = [row EXCEPT ![i].term = "extended"]
  /\ OnlyRow

\* deleteDevice, or the sweep of devices long expired.
Delete(i) ==
  /\ row[i].at = "claimed"
  /\ row' = [row EXCEPT ![i] = Row("gone")]
  /\ OnlyRow

Stale == {i \in Ids : Registered(i) /\ row[i].wear # "live"}

\* DeleteStaleRegistrations, one statement.
Reap ==
  /\ Stale # {}
  /\ row' = [i \in Ids |-> IF i \in Stale THEN Row("gone") ELSE row[i]]
  /\ OnlyRow

-----------------------------------------------------------------------------
FrontEnd == Launch \/ Press
Session ==
  \/ RunPass \/ RunRefuses \/ RegisterRefused \/ Persist \/ Beat \/ Rest
  \/ Show \/ Dial \/ Rejected \/ \E i \in Ids : Register(i)
Mishap == RegisterLost \/ PersistFails \/ BeatLost \/ Stop
Heartbeat == HbLookup \/ HbTouch \/ HbRotate \/ HbReread \/ HbDevice \/ HbUnheard
Request(c) == Look(c) \/ Note(c) \/ Count(c) \/ ForceRotate(c) \/ ClaimIt(c)

Next ==
  \/ FrontEnd \/ Session \/ Mishap \/ Heartbeat \/ Reap
  \/ \E c \in Claimers : Type(c) \/ Request(c)
  \/ \E i \in Ids :
       CodeAges(i) \/ GoesIdle(i) \/ GetsOld(i) \/ Lapses(i) \/ Extend(i) \/ Delete(i)

Spec == Init /\ [][Next]_vars

(***************************************************************************)
(* A client that runs goes on polling, handlers finish, a week passes and  *)
(* the sweep comes round.  Nobody has to launch a client or claim one.     *)
(***************************************************************************)
Fairness ==
  /\ WF_vars(Session) /\ WF_vars(Heartbeat)
  /\ WF_vars(Reap) /\ \A i \in Ids : WF_vars(GetsOld(i))

FairSpec == Spec /\ Fairness

-----------------------------------------------------------------------------
TypeOK ==
  /\ row \in [Ids -> [at : {"none", "registered", "claimed", "gone"}, code : Nat,
                      life : {"fresh", "near", "expired"}, attempts : Nat,
                      wear : {"live", "idle", "old"}, owner : Claimers \cup {None},
                      term : {"valid", "lapsed", "extended"}]]
  /\ hb \in [pc : {"idle", "registration", "touch", "rotate", "reread", "device",
                   "code", "claimed", "unknown"},
             id : Ids \cup {None}, code : Nat, due : BOOLEAN, heard : BOOLEAN]
  /\ claim \in [Claimers -> [pc : {"idle", "look", "note", "count", "rotate", "claim"},
                             id : Ids \cup {None}, code : Nat]]
  /\ front \in {"daemon", "gui"}
  /\ pc \in {"off", "window", "run", "register", "persist", "beat", "asked", "rest", "dialing"}
  /\ {mem, disk, given} \subseteq Ids \cup {None}
  /\ allow \in BOOLEAN /\ pass \in 0 .. 2 /\ missed \in 0 .. MaxTransient - 1
  /\ screen \in [id : Ids \cup {None}, code : Nat]
  /\ faults \in 0 .. MaxFaults

\* The relay will not have this identity again, or not without its owner's help.
Spent(i) == row[i].at = "gone" \/ row[i].term # "valid"

(***************************************************************************)
(* A daemon gives up the identity on its disk only when the relay has: not *)
(* for lost messages, restarts, a claim that commits during its heartbeat  *)
(* or a code that rotates (session.go:26-29: losing the token "would       *)
(* orphan" the device).                                                    *)
(***************************************************************************)
DaemonKeepsIdentity ==
  [][front = "daemon" /\ disk # None /\ disk' # disk => Spent(disk)]_vars

(***************************************************************************)
(* A device goes to whoever types the code that is current at that moment: *)
(* a code rotated away or expired after the lookup claims nothing          *)
(* (store.go, ClaimRegistration).                                          *)
(***************************************************************************)
CurrentCodeClaims ==
  [][\A i \in Ids : Registered(i) /\ row'[i].at = "claimed" =>
       \E c \in Claimers :
         /\ row'[i].owner = c /\ claim[c].id = i
         /\ claim[c].code = row[i].code /\ row[i].life # "expired"]_vars

(***************************************************************************)
(* However wrong guesses interleave, one code is compared with at most     *)
(* MaxClaimAttempts of them before it rotates, and one more for each       *)
(* request that is under way beside the last of these (enroll.go:48-51).   *)
(***************************************************************************)
Noting(i) == {c \in Claimers : claim[c].pc = "note" /\ claim[c].id = i}
GuessesBounded ==
  /\ TypeOK
  /\ \A i \in Ids :
       row[i].attempts + Cardinality(Noting(i)) =< MaxClaimAttempts - 1 + Cardinality(Claimers)

(***************************************************************************)
(* A client that polls learns that it was claimed, whatever the claim      *)
(* interleaved with, unless it is stopped or loses its owner meanwhile     *)
(* (enroll.go:129-131).                                                    *)
(***************************************************************************)
ClaimIsLearned ==
  \A i \in Ids :
    row[i].at = "claimed" /\ mem = i /\ Polling ~>
      (pc = "dialing" /\ mem = i) \/ Spent(i) \/ pc \in {"off", "window"}

(***************************************************************************)
(* No identity is held unclaimed for ever, neither by a client that polls  *)
(* on nor by a row whose client never heard of it (devicegc.go:35-45).     *)
(***************************************************************************)
UnclaimedGo == \A i \in Ids : Registered(i) ~> ~Registered(i)

(***************************************************************************)
(* An identity never hangs: it is claimed and its client learns it, or it  *)
(* goes.                                                                   *)
(***************************************************************************)
Settles == ClaimIsLearned /\ UnclaimedGo
=============================================================================

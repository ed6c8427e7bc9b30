-------------------------- MODULE EnrollmentProofs --------------------------
(***************************************************************************)
(* Enrollment for any number of claimers, identities, codes and faults:    *)
(* only the current code claims, guesses at one code are bounded, and a    *)
(* daemon keeps its identity as long as the relay does.                    *)
(***************************************************************************)
EXTENDS Enrollment, FiniteSetTheorems, TLAPS

USE EnrollmentAssumption

-----------------------------------------------------------------------------
(***************************************************************************)
(* Types.  Who is named is there: a request that is under way and a client *)
(* that polls have an identity.                                            *)
(***************************************************************************)
RowSet == [at : {"none", "registered", "claimed", "gone"}, code : Nat,
           life : {"fresh", "near", "expired"}, attempts : Nat,
           wear : {"live", "idle", "old"}, owner : Claimers \cup {None},
           term : {"valid", "lapsed", "extended"}]
HbSet == [pc : {"idle", "registration", "touch", "rotate", "reread", "device",
                "code", "claimed", "unknown"},
          id : Ids \cup {None}, code : Nat, due : BOOLEAN, heard : BOOLEAN]
ClaimSet == [pc : {"idle", "look", "note", "count", "rotate", "claim"},
             id : Ids \cup {None}, code : Nat]
ScreenSet == [id : Ids \cup {None}, code : Nat]

RowOk(r) == /\ r \in RowSet
            /\ r.at # "claimed" => r.term = "valid"
            /\ r.at # "registered" => r.attempts = 0
RowType == row \in [Ids -> RowSet] /\ \A i \in Ids : RowOk(row[i])
HbType == hb \in HbSet /\ (hb.pc # "idle" => hb.id \in Ids)
ClaimType == /\ claim \in [Claimers -> ClaimSet]
             /\ \A c \in Claimers : claim[c].pc # "idle" => claim[c].id \in Ids
ClientType ==
  /\ front \in {"daemon", "gui"}
  /\ pc \in {"off", "window", "run", "register", "persist", "beat", "asked", "rest", "dialing"}
  /\ mem \in Ids \cup {None} /\ disk \in Ids \cup {None} /\ given \in Ids \cup {None}
  /\ allow \in BOOLEAN /\ pass \in 0 .. 2 /\ missed \in 0 .. MaxTransient - 1
  /\ screen \in ScreenSet /\ (screen # Blank => screen.id \in Ids)
  /\ faults \in 0 .. MaxFaults
  /\ pc \in {"persist", "beat", "asked", "rest"} => mem \in Ids
  /\ pc \in {"register", "persist", "beat", "asked", "rest"} => pass < 2

Typed == RowType /\ HbType /\ ClaimType /\ ClientType

LEMMA TypedIsTypeOK == Typed => TypeOK
  BY DEF Typed, RowType, RowOk, HbType, ClaimType, ClientType, TypeOK, RowSet, HbSet, ClaimSet, ScreenSet

LEMMA TypedInit == Init => Typed
  <1> SUFFICES ASSUME Init PROVE Typed
    OBVIOUS
  <1>1. Row("none") \in RowSet /\ Quiet \in HbSet /\ NoClaim \in ClaimSet /\ Blank \in ScreenSet
    BY DEF Row, RowSet, Quiet, HbSet, NoClaim, ClaimSet, Blank, ScreenSet
  <1>2. RowType
    BY <1>1 DEF Init, RowType, RowOk, Row
  <1>4. HbType /\ ClaimType
    BY <1>1 DEF Init, HbType, ClaimType, Quiet, NoClaim
  <1>3. ClientType
    <2>1. 0 \in 0 .. MaxTransient - 1 /\ 0 \in 0 .. MaxFaults /\ front \in {"daemon", "gui"} /\ 0 \in 0 .. 2
      BY DEF Init
    <2> QED BY <1>1, <2>1 DEF Init, ClientType
  <1> QED BY <1>2, <1>3, <1>4 DEF Typed

-----------------------------------------------------------------------------
(***************************************************************************)
(* What may become of a row in a step                                      *)
(***************************************************************************)
\* The request of c names the row and its present code, which has not expired.
Current(c, i) == /\ claim[c].id = i /\ claim[c].code = row[i].code /\ row[i].life # "expired"

Guessed(c, i) == claim[c].pc = "note" /\ claim[c].id = i /\ claim'[c].pc = "count"

\* A row r of identity i becomes q: nobody gets an identity back, one that is lost to
\* its client stays lost, it is given to a person with the current code, and a wrong
\* guess is counted for a request that goes on to look at the count.
Becomes(i, r, q) ==
  /\ RowOk(q)
  /\ r.at # "none" => q.at # "none"
  /\ r.at \in {"claimed", "gone"} => q.at \in {"claimed", "gone"}
  /\ r.at = "gone" \/ r.term # "valid" => q.at = "gone" \/ q.term # "valid"
  /\ r.at = "registered" /\ q.at = "claimed" => \E c \in Claimers : q.owner = c /\ Current(c, i)
  /\ \/ q.attempts \in {0, r.attempts}
     \/ q.attempts = r.attempts + 1 /\ \E c \in Claimers : Guessed(c, i)

RowsMove == row' \in [Ids -> RowSet] /\ \A j \in Ids : Becomes(j, row[j], row'[j])

LEMMA Stays == ASSUME NEW i, NEW r, RowOk(r) PROVE Becomes(i, r, r)
  BY DEF Becomes

LEMMA Unmoved == ASSUME RowType, UNCHANGED row PROVE RowsMove
  BY Stays DEF RowType, RowsMove

LEMMA NewRow == Row("registered").at = "registered" /\ RowOk(Row("registered")) /\ RowOk(Row("gone")) /\ Row("gone").at = "gone"
                 /\ Row("registered").attempts = 0 /\ Row("gone").attempts = 0
  BY DEF Row, RowOk, RowSet

LEMMA OneRow ==
  ASSUME RowType, NEW i \in Ids, NEW q, Becomes(i, row[i], q), row' = [row EXCEPT ![i] = q]
  PROVE  RowsMove
  BY Stays DEF RowType, RowsMove, Becomes, RowOk

LEMMA MintRow ==
  ASSUME RowType, NEW i \in Ids, Mint(i) PROVE RowsMove
  <1>1. Becomes(i, row[i], Row("registered"))
    BY NewRow DEF Mint, Unused, Becomes, RowType, RowOk, Row
  <1> QED BY <1>1, OneRow DEF Mint

LEMMA RotatedRow == ASSUME NEW r \in RowSet PROVE Rotated(r) \in RowSet /\ Rotated(r).at = r.at /\ Rotated(r).term = r.term
                                               /\ Rotated(r).attempts = 0
  <1>1. r.code + 1 \in Nat
    BY DEF RowSet
  <1> QED BY <1>1 DEF Rotated, RowSet

LEMMA RotateRow ==
  ASSUME RowType, NEW i \in Ids, Rotate(i) PROVE RowsMove
  <1>0. row[i] \in RowSet /\ RowOk(row[i])
    BY DEF RowType
  <1>1. Registered(i) => Becomes(i, row[i], Rotated(row[i]))
    BY <1>0, RotatedRow DEF Registered, Becomes, RowOk
  <1>2. Becomes(i, row[i], row[i])
    BY Stays DEF RowType
  <1> QED BY <1>1, <1>2, OneRow DEF Rotate

\* The steps of people, clocks and the sweep, a row at a time.
LEMMA AgeRow ==
  ASSUME RowType, NEW i \in Ids,
         CodeAges(i) \/ GoesIdle(i) \/ GetsOld(i) \/ Lapses(i) \/ Extend(i) \/ Delete(i)
  PROVE  RowsMove
  <1> USE DEF Becomes, RowOk, RowSet, Registered
  <1>0. RowOk(row[i]) /\ row[i] \in RowSet
    BY DEF RowType
  <1> HIDE DEF RowType
  <1>1. CASE CodeAges(i)
    <2>1. \A l \in {"near", "expired"} : row[i].at = "registered" => Becomes(i, row[i], [row[i] EXCEPT !.life = l])
      BY <1>0
    <2>2. \E l \in {"near", "expired"} : row' = [row EXCEPT ![i] = [row[i] EXCEPT !.life = l]]
      BY <1>1 DEF CodeAges
    <2> QED BY <1>1, <2>1, <2>2, OneRow DEF CodeAges
  <1>2. CASE GoesIdle(i) \/ GetsOld(i)
    <2>1. \A w \in {"idle", "old"} : row[i].at = "registered" => Becomes(i, row[i], [row[i] EXCEPT !.wear = w])
      BY <1>0
    <2>2. row[i].at = "registered" /\ \E w \in {"idle", "old"} : row' = [row EXCEPT ![i] = [row[i] EXCEPT !.wear = w]]
      BY <1>2 DEF GoesIdle, GetsOld
    <2> QED BY <2>1, <2>2, OneRow
  <1>3. CASE Lapses(i) \/ Extend(i)
    <2>1. \A w \in {"lapsed", "extended"} : row[i].at = "claimed" => Becomes(i, row[i], [row[i] EXCEPT !.term = w])
      BY <1>0
    <2>2. row[i].at = "claimed" /\ \E w \in {"lapsed", "extended"} : row' = [row EXCEPT ![i] = [row[i] EXCEPT !.term = w]]
      BY <1>3 DEF Lapses, Extend
    <2> QED BY <2>1, <2>2, OneRow
  <1>4. CASE Delete(i)
    <2>1. row[i].at = "claimed" => Becomes(i, row[i], Row("gone"))
      BY <1>0, NewRow
    <2> QED BY <1>4, <2>1, OneRow DEF Delete
  <1> QED BY <1>1, <1>2, <1>3, <1>4

LEMMA ReapRow ==
  ASSUME RowType, Reap PROVE RowsMove
  <1>1. \A j \in Ids : (row'[j] = Row("gone") /\ row[j].at = "registered") \/ row'[j] = row[j]
    BY DEF Reap, Stale, Registered
  <1>2. \A j \in Ids : Becomes(j, row[j], row'[j])
    BY <1>1, Stays, NewRow DEF RowType, Becomes
  <1> QED BY <1>2 DEF Reap, RowsMove, Becomes, RowOk

LEMMA RequestRow ==
  ASSUME Typed, NEW c \in Claimers, Request(c)
  PROVE  RowsMove
  <1> DEFINE i == claim[c].id
  <1>0. RowType /\ claim[c] \in ClaimSet /\ (claim[c].pc # "idle" => i \in Ids)
    BY DEF Typed, ClaimType
  <1>1. CASE Look(c) \/ Count(c)
    BY <1>0, <1>1, Unmoved DEF Look, Count
  <1>2. CASE Note(c)
    <2>1. i \in Ids /\ row[i] \in RowSet /\ RowOk(row[i])
      BY <1>0, <1>2 DEF Note, RowType
    <2>5. Guessed(c, i)
      <3>1. claim[c].pc = "note" /\ claim' = [claim EXCEPT ![c].pc = "count"] /\ claim \in [Claimers -> ClaimSet]
        BY <1>2 DEF Note, ClaimGoes, Typed, ClaimType
      <3>2. claim'[c] = [claim[c] EXCEPT !.pc = "count"]
        BY <3>1
      <3> QED BY <1>0, <3>1, <3>2 DEF Guessed, ClaimSet
    <2>6. row[i].attempts + 1 \in Nat
      BY <2>1 DEF RowSet
    <2>2. Registered(i) => Becomes(i, row[i], [row[i] EXCEPT !.attempts = @ + 1])
      <3>1. [row[i] EXCEPT !.attempts = @ + 1] \in RowSet
        BY <2>1, <2>6 DEF RowSet
      <3>2. Registered(i) => RowOk([row[i] EXCEPT !.attempts = @ + 1])
        BY <2>1, <3>1 DEF RowOk, RowSet, Registered
      <3> HIDE DEF i
      <3> QED BY <2>1, <2>5, <3>2 DEF Becomes, Registered, RowSet
    <2>3. ~Registered(i) => Becomes(i, row[i], [row[i] EXCEPT !.attempts = @])
      BY <2>1 DEF Becomes, RowOk, RowSet, Registered
    <2>4. row' = [row EXCEPT ![i] = [row[i] EXCEPT !.attempts = IF Registered(i) THEN @ + 1 ELSE @]]
      BY <1>2 DEF Note
    <2> QED BY <1>0, <2>1, <2>2, <2>3, <2>4, OneRow
  <1>3. CASE ForceRotate(c)
    BY <1>0, <1>3, RotateRow DEF ForceRotate
  <1>4. CASE ClaimIt(c)
    <2>1. i \in Ids /\ row[i] \in RowSet /\ RowOk(row[i])
      BY <1>0, <1>4 DEF ClaimIt, RowType
    <2>2. CASE Matches(c)
      <3>1. Becomes(i, row[i], [Row("claimed") EXCEPT !.owner = c])
        BY <2>1, <2>2 DEF Becomes, Matches, Registered, Current, Row, RowOk, RowSet
      <3> QED BY <1>0, <1>4, <2>1, <2>2, <3>1, OneRow DEF ClaimIt, Graduate
    <2>3. CASE ~Matches(c)
      BY <1>0, <1>4, <2>3, Unmoved DEF ClaimIt
    <2> QED BY <2>2, <2>3
  <1> QED BY <1>1, <1>2, <1>3, <1>4 DEF Request

LEMMA HeartbeatRow ==
  ASSUME Typed, Heartbeat PROVE RowsMove
  <1>0. RowType /\ hb \in HbSet /\ (hb.pc # "idle" => hb.id \in Ids)
    BY DEF Typed, HbType
  <1>1. CASE HbTouch
    <2>1. hb.id \in Ids /\ row[hb.id] \in RowSet /\ RowOk(row[hb.id])
      BY <1>0, <1>1 DEF HbTouch, RowType
    <2>2. \A w \in {"live", row[hb.id].wear} : Becomes(hb.id, row[hb.id], [row[hb.id] EXCEPT !.wear = w])
      BY <2>1 DEF Becomes, RowOk, RowSet
    <2>3. \E w \in {"live", row[hb.id].wear} : row' = [row EXCEPT ![hb.id] = [row[hb.id] EXCEPT !.wear = w]]
      BY <1>1 DEF HbTouch
    <2> QED BY <1>0, <2>1, <2>2, <2>3, OneRow
  <1>2. CASE HbRotate
    BY <1>0, <1>2, RotateRow DEF HbRotate
  <1>3. CASE UNCHANGED row
    BY <1>0, <1>3, Unmoved
  <1> QED BY <1>1, <1>2, <1>3 DEF Heartbeat, HbLookup, HbReread, HbDevice, HbUnheard

LEMMA RowStep ==
  ASSUME Typed, [Next]_vars PROVE RowType' /\ RowsMove
  <1>0. RowType
    BY DEF Typed
  <1>1. ASSUME FrontEnd \/ Session \/ Mishap PROVE RowsMove
    <2>1. UNCHANGED row \/ \E i \in Ids : Mint(i)
      BY <1>1 DEF FrontEnd, Launch, Press, Session, RunPass, RunRefuses, RegisterRefused, Persist, Beat, Rest, Show,
                  Dial, Rejected, Register, Mishap, RegisterLost, PersistFails, BeatLost, Stop, relay
    <2>2. CASE \E i \in Ids : Mint(i)
      BY <1>0, <2>2, MintRow
    <2> QED BY <1>0, <2>1, <2>2, Unmoved
  <1>2. ASSUME NEW c \in Claimers, Type(c) PROVE RowsMove
    BY <1>0, <1>2, Unmoved DEF Type
  <1>3. RowsMove
    BY <1>0, <1>1, <1>2, Unmoved, RequestRow, HeartbeatRow, ReapRow, AgeRow DEF Next, vars, relay
  <1> QED BY <1>3 DEF RowType, RowsMove, Becomes

-----------------------------------------------------------------------------
(***************************************************************************)
(* The other types                                                         *)
(***************************************************************************)
LEMMA CodeIsNat ==
  ASSUME Typed, NEW i \in Ids PROVE row[i].code \in Nat
  <1>1. row[i] \in RowSet
    BY DEF Typed, RowType
  <1> QED BY <1>1 DEF RowSet

LEMMA HbStep ==
  ASSUME Typed, [Next]_vars PROVE HbType'
  <1>1. hb \in HbSet /\ (hb.pc # "idle" => hb.id \in Ids) /\ (hb.id \in Ids => row[hb.id].code \in Nat)
    BY CodeIsNat DEF Typed, HbType
  <1>2. Quiet \in HbSet /\ Quiet.pc = "idle"
    BY DEF Quiet, HbSet
  <1>3. CASE UNCHANGED hb
    BY <1>1, <1>3 DEF HbType
  <1>4. CASE FrontEnd \/ Mishap
    BY <1>1, <1>4 DEF HbType, HbSet, FrontEnd, Launch, Press, Mishap, RegisterLost, PersistFails, BeatLost, Stop, relay
  <1>5. CASE Session
    <2>1. CASE Beat
      BY <2>1, <1>2 DEF Beat, Quiet, Typed, ClientType, HbSet, HbType
    <2>2. CASE UNCHANGED hb \/ hb' = Quiet
      BY <1>1, <1>2, <2>2 DEF HbType
    <2> QED BY <1>5, <2>1, <2>2 DEF Session, RunPass, RunRefuses, RegisterRefused, Persist, Rest, Show,
                  Dial, Rejected, Register, Answered, relay
  <1>6. CASE Heartbeat
    <2>1. CASE HbLookup
      BY <1>1, <2>1 DEF HbLookup, HbGoes, HbType, HbSet
    <2>2. CASE HbTouch \/ HbRotate \/ HbDevice
      BY <1>1, <2>2 DEF HbTouch, HbRotate, HbDevice, HbGoes, HbType, HbSet
    <2>3. CASE HbReread
      BY <1>1, <2>3 DEF HbReread, HbGoes, HbType, HbSet
    <2>4. CASE HbUnheard
      BY <1>2, <2>4 DEF HbUnheard, HbType
    <2> QED BY <1>6, <2>1, <2>2, <2>3, <2>4 DEF Heartbeat
  <1> QED BY <1>3, <1>4, <1>5, <1>6 DEF Next, vars, relay, Type, Request, Look, Note, Count, ForceRotate, ClaimIt,
             Reap, CodeAges, GoesIdle, GetsOld, Lapses, Extend, Delete, OnlyRow

LEMMA ClaimStep ==
  ASSUME Typed, [Next]_vars PROVE ClaimType'
  <1>1. ClaimType /\ NoClaim \in ClaimSet /\ NoClaim.pc = "idle"
    BY DEF Typed, NoClaim, ClaimSet
  <1>2. CASE UNCHANGED claim
    BY <1>1, <1>2 DEF ClaimType
  <1>3. ASSUME NEW c \in Claimers, Type(c) PROVE ClaimType'
    <2>1. screen \in ScreenSet /\ screen.id \in Ids
      BY <1>3 DEF Typed, ClientType, Type
    <2>2. \A n \in {screen.code, 0} : [pc |-> "look", id |-> screen.id, code |-> n] \in ClaimSet
      BY <2>1 DEF ScreenSet, ClaimSet
    <2> QED BY <1>1, <1>3, <2>1, <2>2 DEF Type, ClaimType
  <1>4. ASSUME NEW c \in Claimers, Request(c) PROVE ClaimType'
    <2>1. \/ claim' = [claim EXCEPT ![c] = NoClaim]
          \/ claim[c].pc # "idle" /\ \E q \in {"note", "count", "rotate", "claim"} : claim' = [claim EXCEPT ![c].pc = q]
      BY <1>4 DEF Request, Look, Note, Count, ForceRotate, ClaimIt, ClaimGoes, ClaimEnds
    <2>2. CASE claim' = [claim EXCEPT ![c] = NoClaim]
      BY <1>1, <2>2 DEF ClaimType
    <2>3. ASSUME claim[c].pc # "idle", NEW q \in {"note", "count", "rotate", "claim"}, claim' = [claim EXCEPT ![c].pc = q]
          PROVE  ClaimType'
      <3>1. [claim[c] EXCEPT !.pc = q] \in ClaimSet
        BY <1>1 DEF ClaimType, ClaimSet
      <3> QED BY <1>1, <2>3, <3>1 DEF ClaimType, ClaimSet
    <2> QED BY <2>1, <2>2, <2>3
  <1> QED BY <1>2, <1>3, <1>4 DEF Next, vars, relay, FrontEnd, Launch, Press, Session, RunPass, RunRefuses, RegisterRefused, Persist, Beat, Rest, Show,
                  Dial, Rejected, Register, Mishap, RegisterLost, PersistFails, BeatLost, Stop,
             Heartbeat, HbLookup, HbTouch, HbRotate, HbReread, HbDevice, HbUnheard,
             Reap, CodeAges, GoesIdle, GetsOld, Lapses, Extend, Delete, OnlyRow

LEMMA ClientStep ==
  ASSUME Typed, [Next]_vars PROVE ClientType'
  <1>1. ClientType /\ Blank \in ScreenSet /\ hb \in HbSet
    BY DEF Typed, HbType, Blank, ScreenSet
  <1>2. CASE UNCHANGED <<client, faults>>
    BY <1>1, <1>2 DEF ClientType, client
  <1>3. 0 \in 0 .. MaxTransient - 1 /\ 0 \in 0 .. 2
    OBVIOUS
  <1>4. Fault => faults' \in 0 .. MaxFaults
    BY <1>1 DEF Fault, ClientType
  <1>5. CASE FrontEnd
    BY <1>1, <1>3, <1>5 DEF FrontEnd, Launch, Press, Run, ClientType
  <1>6. CASE Mishap
    <2>1. CASE RegisterLost \/ PersistFails \/ Stop
      BY <1>1, <1>4, <2>1 DEF RegisterLost, PersistFails, Stop, RunEnds, ClientType, relay
    <2>2. CASE BeatLost
      <3>1. CASE missed + 1 >= MaxTransient
        BY <1>1, <1>4, <2>2, <3>1 DEF BeatLost, RunEnds, ClientType
      <3>2. CASE ~(missed + 1 >= MaxTransient)
        <4>1. missed + 1 \in 0 .. MaxTransient - 1
          BY <1>1, <3>2 DEF ClientType
        <4> QED BY <1>1, <1>4, <2>2, <3>2, <4>1 DEF BeatLost, ClientType
      <3> QED BY <3>1, <3>2
    <2> QED BY <1>6, <2>1, <2>2 DEF Mishap
  <1>7. CASE Session
    <2>1. CASE RunPass \/ RunRefuses \/ RegisterRefused
      BY <1>1, <1>3, <2>1 DEF RunPass, RunRefuses, RegisterRefused, RunEnds, ClientType, relay
    <2>2. CASE Persist
      <3>1. mem \in Ids /\ [id |-> mem, code |-> 1] \in ScreenSet
        BY <1>1, <2>2 DEF Persist, ClientType, ScreenSet
      <3> QED BY <1>1, <2>2, <3>1 DEF Persist, ClientType
    <2>3. CASE Beat \/ Rest \/ Dial
      BY <1>1, <2>3 DEF Beat, Rest, Dial, Answered, ClientType
    <2>4. CASE Show
      <3>1. mem \in Ids /\ [id |-> mem, code |-> hb.code] \in ScreenSet
        BY <1>1, <2>4 DEF Show, Answered, ClientType, ScreenSet, HbSet
      <3> QED BY <1>1, <1>3, <2>4, <3>1 DEF Show, Answered, ClientType
    <2>5. CASE Rejected
      <3>1. pass + 1 \in 0 .. 2
        BY <1>1, <2>5 DEF Rejected, Answered, ClientType
      <3>2. faults' \in 0 .. MaxFaults
        BY <1>1, <1>4, <2>5 DEF Rejected, ClientType
      <3> QED BY <1>1, <2>5, <3>1, <3>2 DEF Rejected, Answered, ClientType
    <2>6. ASSUME NEW i \in Ids, Register(i) PROVE ClientType'
      BY <1>1, <2>6 DEF Register, ClientType
    <2> QED BY <1>7, <2>1, <2>2, <2>3, <2>4, <2>5, <2>6 DEF Session
  <1> QED BY <1>2, <1>5, <1>6, <1>7 DEF Next, vars, client,
             Heartbeat, HbLookup, HbTouch, HbRotate, HbReread, HbDevice, HbUnheard,
             Type, Request, Look, Note, Count, ForceRotate, ClaimIt,
             Reap, CodeAges, GoesIdle, GetsOld, Lapses, Extend, Delete, OnlyRow

LEMMA TypedStep == Typed /\ [Next]_vars => Typed'
  BY RowStep, HbStep, ClaimStep, ClientStep DEF Typed

LEMMA TypedAlways == Spec => []Typed
  BY TypedInit, TypedStep, PTL DEF Spec

\* Every variable keeps its type.
THEOREM TypeCorrect == Spec => []TypeOK
  BY TypedAlways, TypedIsTypeOK, PTL

\* A device goes to whoever has the code that is current when it is claimed.
THEOREM OnlyTheCurrentCode == Spec => CurrentCodeClaims
  <1> DEFINE Claims == \A i \in Ids : Registered(i) /\ row'[i].at = "claimed" =>
       \E c \in Claimers :
         /\ row'[i].owner = c /\ claim[c].id = i
         /\ claim[c].code = row[i].code /\ row[i].life # "expired"
  <1>1. Typed /\ [Next]_vars => Claims
    BY RowStep DEF RowsMove, Becomes, Current, Registered
  <1> QED BY <1>1, TypedAlways, PTL DEF Spec, CurrentCodeClaims

-----------------------------------------------------------------------------
(***************************************************************************)
(* Guesses.  What is counted above the limit belongs to requests that have *)
(* counted and have yet to look at the count or to rotate the code.        *)
(***************************************************************************)
Counting(i) == {c \in Claimers : claim[c].pc \in {"count", "rotate"} /\ claim[c].id = i}
Counted == \A i \in Ids : row[i].attempts =< MaxClaimAttempts - 1 + Cardinality(Counting(i))

LEMMA Counts ==
  ASSUME NEW i
  PROVE  /\ IsFiniteSet(Counting(i)) /\ Cardinality(Counting(i)) \in Nat
         /\ IsFiniteSet(Noting(i)) /\ Cardinality(Noting(i)) \in Nat
         /\ Cardinality(Counting(i)) + Cardinality(Noting(i)) =< Cardinality(Claimers)
  <1>1. /\ Counting(i) \subseteq Claimers /\ Noting(i) \subseteq Claimers
        /\ Counting(i) \cap Noting(i) = {} /\ Counting(i) \cup Noting(i) \subseteq Claimers
    BY DEF Counting, Noting
  <1>2. IsFiniteSet(Counting(i)) /\ IsFiniteSet(Noting(i))
    BY <1>1, FS_Subset
  <1>3. Cardinality(Counting(i) \cup Noting(i)) = Cardinality(Counting(i)) + Cardinality(Noting(i))
                                                 - Cardinality(Counting(i) \cap Noting(i))
    BY <1>2, FS_Union
  <1>4. Cardinality(Counting(i) \cap Noting(i)) = 0
    BY <1>1, FS_EmptySet
  <1>5. Cardinality(Counting(i) \cup Noting(i)) =< Cardinality(Claimers)
    BY <1>1, FS_Subset
  <1>6. Cardinality(Counting(i)) \in Nat /\ Cardinality(Noting(i)) \in Nat
    BY <1>2, FS_CardinalityType
  <1> QED BY <1>2, <1>3, <1>4, <1>5, <1>6

LEMMA CountedInit == Init => Counted
  <1> SUFFICES ASSUME Init, NEW i \in Ids PROVE row[i].attempts =< MaxClaimAttempts - 1 + Cardinality(Counting(i))
    BY DEF Counted
  <1>1. row[i].attempts = 0
    BY DEF Init, Row
  <1>2. Cardinality(Counting(i)) \in Nat
    BY Counts
  <1> QED BY <1>1, <1>2

LEMMA CountedStep == Typed /\ Counted /\ [Next]_vars => Counted'
  <1> SUFFICES ASSUME Typed, Counted, [Next]_vars, NEW i \in Ids
               PROVE  row'[i].attempts =< MaxClaimAttempts - 1 + Cardinality(Counting(i)')
    BY DEF Counted
  <1>1. PICK k \in Nat : k = Cardinality(Counting(i))
    BY Counts
  <1>2. row[i].attempts =< MaxClaimAttempts - 1 + k
    BY <1>1 DEF Counted
  <1>3. row[i] \in RowSet /\ row'[i] \in RowSet /\ Becomes(i, row[i], row'[i])
    BY RowStep DEF RowsMove, Typed, RowType
  <1>4. row[i].attempts \in Nat /\ row'[i].attempts \in Nat
    BY <1>3 DEF RowSet
  <1>5. ASSUME Counting(i)' = Counting(i), \A c \in Claimers : ~Guessed(c, i)
        PROVE  row'[i].attempts =< MaxClaimAttempts - 1 + Cardinality(Counting(i)')
    BY <1>1, <1>2, <1>3, <1>4, <1>5 DEF Becomes
  <1>6. claim \in [Claimers -> ClaimSet]
    BY DEF Typed, ClaimType
  <1>7. CASE UNCHANGED claim
    <2>1. Counting(i)' = Counting(i) /\ \A c \in Claimers : ~Guessed(c, i)
      BY <1>7 DEF Counting, Guessed
    <2> QED BY <1>5, <2>1
  <1>8. ASSUME NEW c \in Claimers, Type(c)
        PROVE  row'[i].attempts =< MaxClaimAttempts - 1 + Cardinality(Counting(i)')
    BY <1>5, <1>6, <1>8 DEF Type, Counting, Guessed
  <1>9. ASSUME NEW c \in Claimers, Request(c)
        PROVE  row'[i].attempts =< MaxClaimAttempts - 1 + Cardinality(Counting(i)')
    <2>1. CASE Look(c) \/ ClaimIt(c)
      <3>1. \A d \in Claimers : claim'[d] = claim[d] \/ (d = c /\ claim[d].pc \in {"look", "claim"}
                                                       /\ claim'[d].pc \in {"note", "claim", "idle"})
        BY <1>6, <2>1 DEF Look, ClaimIt, ClaimGoes, ClaimEnds, NoClaim, ClaimSet
      <3>2. Counting(i)' = Counting(i) /\ \A d \in Claimers : ~Guessed(d, i)
        BY <3>1 DEF Counting, Guessed
      <3> QED BY <1>5, <3>2
    <2>2. CASE Note(c)
      <3>1. CASE claim[c].id = i
        <4>1. Counting(i)' = Counting(i) \cup {c} /\ c \notin Counting(i)
          BY <1>6, <2>2, <3>1 DEF Note, ClaimGoes, Counting
        <4>2. Cardinality(Counting(i)') = k + 1
          BY <1>1, <4>1, Counts, FS_AddElement
        <4>3. row'[i].attempts =< row[i].attempts + 1
          BY <1>3, <1>4 DEF Becomes
        <4> QED BY <1>1, <1>2, <1>4, <4>2, <4>3
      <3>2. CASE claim[c].id # i
        <4>1. \A d \in Claimers : claim'[d] = claim[d] \/ (d = c /\ claim'[d].id = claim[d].id)
          BY <1>6, <2>2 DEF Note, ClaimGoes, ClaimSet
        <4>2. Counting(i)' = Counting(i) /\ \A d \in Claimers : ~Guessed(d, i)
          BY <3>2, <4>1 DEF Counting, Guessed
        <4> QED BY <1>5, <4>2
      <3> QED BY <3>1, <3>2
    <2>3. CASE Count(c) \/ ForceRotate(c)
      <3>1. CASE claim[c].id = i /\ claim'[c].pc = "idle"
        <4>1. row'[i].attempts =< MaxClaimAttempts - 1
          <5>1. RowOk(row[i])
            BY DEF Typed, RowType
          <5>2. CASE Count(c)
            <6>1. UNCHANGED row /\ (row[i].at = "registered" => row[i].attempts < MaxClaimAttempts)
              BY <1>4, <1>6, <3>1, <5>2 DEF Count, ClaimGoes, Registered, ClaimSet
            <6> QED BY <1>4, <5>1, <6>1 DEF RowOk
          <5>3. CASE ForceRotate(c)
            <6>1. row'[i].attempts = 0
              BY <1>3, <3>1, <5>1, <5>3, RotatedRow DEF ForceRotate, Rotate, RowOk, Registered, Typed, RowType
            <6> QED BY <6>1
          <5> QED BY <2>3, <5>2, <5>3
        <4>2. Cardinality(Counting(i)') \in Nat
          <5>1. Counting(i)' \subseteq Claimers
            BY DEF Counting
          <5> QED BY <5>1, FS_Subset, FS_CardinalityType
        <4> QED BY <1>4, <4>1, <4>2
      <3>2. CASE claim[c].id # i \/ claim'[c].pc # "idle"
        <4>1. \A d \in Claimers :
                \/ claim'[d] = claim[d]
                \/ d = c /\ claim[d].pc \in {"count", "rotate"} /\ claim'[d].pc = "idle"
                \/ d = c /\ claim[d].pc = "count" /\ claim'[d].pc = "rotate" /\ claim'[d].id = claim[d].id
          BY <1>6, <2>3 DEF Count, ForceRotate, ClaimGoes, ClaimEnds, NoClaim, ClaimSet
        <4>2. Counting(i)' = Counting(i) /\ \A d \in Claimers : ~Guessed(d, i)
          BY <3>2, <4>1 DEF Counting, Guessed
        <4> QED BY <1>5, <4>2
      <3> QED BY <3>1, <3>2
    <2> QED BY <1>9, <2>1, <2>2, <2>3 DEF Request
  <1> QED BY <1>7, <1>8, <1>9 DEF Next, vars, relay, FrontEnd, Launch, Press, Session, RunPass, RunRefuses, RegisterRefused, Persist, Beat, Rest, Show,
                  Dial, Rejected, Register, Mishap, RegisterLost, PersistFails, BeatLost, Stop,
             Heartbeat, HbLookup, HbTouch, HbRotate, HbReread, HbDevice, HbUnheard,
             Reap, CodeAges, GoesIdle, GetsOld, Lapses, Extend, Delete, OnlyRow

\* One code is compared with a bounded number of wrong guesses, however they interleave.
THEOREM FewGuesses == Spec => []GuessesBounded
  <1>1. Typed /\ Counted => GuessesBounded
    <2> SUFFICES ASSUME Typed, Counted, NEW i \in Ids
                 PROVE  row[i].attempts + Cardinality(Noting(i)) =< MaxClaimAttempts - 1 + Cardinality(Claimers)
      BY TypedIsTypeOK DEF GuessesBounded
    <2>1. row[i] \in RowSet
      BY DEF Typed, RowType
    <2>2. row[i].attempts \in Nat /\ Cardinality(Claimers) \in Nat
      BY <2>1, FS_CardinalityType DEF RowSet
    <2>3. row[i].attempts =< MaxClaimAttempts - 1 + Cardinality(Counting(i))
      BY DEF Counted
    <2> QED BY <2>2, <2>3, Counts
  <1> QED BY <1>1, CountedInit, CountedStep, TypedInit, TypedStep, PTL DEF Spec

-----------------------------------------------------------------------------
(***************************************************************************)
(* The daemon's identity                                                   *)
(***************************************************************************)
Present(i) == i \in Ids => row[i].at # "none"

\* The identities the client and the handler hold were minted; the handler looks for a
\* device, and calls a token unknown, only when the relay is done with it.
Held ==
  /\ Present(mem) /\ Present(disk) /\ Present(given) /\ Present(hb.id)
  /\ hb.pc = "device" => row[hb.id].at \in {"claimed", "gone"}
  /\ hb.pc = "unknown" => Spent(hb.id)
  /\ pc = "asked" => hb.pc # "idle" /\ hb.id = mem /\ hb.heard

\* A daemon works with what is on its disk, or what is on its disk is lost already.
Lost(i) == i = None \/ (i \in Ids /\ Spent(i))
DaemonWorks ==
  front = "daemon" =>
    /\ pc # "window"
    /\ pc \in {"beat", "asked", "rest"} => mem = disk
    /\ pc = "run" => mem = disk \/ (mem = None /\ Lost(disk))
    /\ pc \in {"register", "persist"} => Lost(disk)

DaemonInv == Typed /\ Held /\ DaemonWorks

LEMMA DaemonInit == Init => DaemonInv
  BY TypedInit DEF Init, DaemonInv, Held, Present, Quiet, DaemonWorks

\* What the relay has given out stays given out, and what is lost stays lost.
LEMMA RelayKeeps ==
  ASSUME Typed, [Next]_vars
  PROVE  /\ \A i : Present(i) => (i \in Ids => row'[i].at # "none")
         /\ \A i \in Ids : Spent(i) => Spent(i)'
         /\ \A i \in Ids : row[i].at \in {"claimed", "gone"} => row'[i].at \in {"claimed", "gone"}
         /\ \A i : Lost(i) => Lost(i)'
  <1>1. \A i \in Ids : Becomes(i, row[i], row'[i])
    BY RowStep DEF RowsMove
  <1>2. \A i \in Ids : Spent(i) => Spent(i)'
    BY <1>1 DEF Becomes, Spent
  <1>3. \A i \in Ids : row[i].at # "none" => row'[i].at # "none"
    BY <1>1 DEF Becomes
  <1>4. \A i \in Ids : row[i].at \in {"claimed", "gone"} => row'[i].at \in {"claimed", "gone"}
    BY <1>1 DEF Becomes
  <1>5. \A i : Lost(i) => Lost(i)'
    BY <1>2 DEF Lost
  <1> QED BY <1>2, <1>3, <1>4, <1>5 DEF Present

LEMMA HeldStep ==
  ASSUME DaemonInv, [Next]_vars PROVE Held'
  <1> USE DEF Held, Present
  <1>0. Typed /\ Held /\ HbType /\ ClientType /\ RowType
    BY DEF DaemonInv, Typed
  <1>1. /\ \A i : Present(i) => (i \in Ids => row'[i].at # "none")
        /\ \A i \in Ids : Spent(i) => Spent(i)'
        /\ \A i \in Ids : row[i].at \in {"claimed", "gone"} => row'[i].at \in {"claimed", "gone"}
    BY <1>0, RelayKeeps
  <1>2. CASE UNCHANGED <<hb, client>>
    BY <1>0, <1>1, <1>2 DEF client, HbType
  <1>3. CASE FrontEnd
    BY <1>0, <1>1, <1>3 DEF FrontEnd, Launch, Press, Run, relay, HbType
  <1>4. CASE Mishap
    <2>1. \A i \in Ids : Mint(i) => row'[i].at = "registered"
      BY <1>0, NewRow DEF Mint, RowType
    <2>2. CASE RegisterLost \/ PersistFails
      BY <1>0, <1>1, <2>1, <2>2 DEF RegisterLost, PersistFails, RunEnds, relay, HbType
    <2>3. CASE BeatLost \/ Stop
      <3>1. hb'.pc = hb.pc /\ hb'.id = hb.id
        BY <1>0, <2>3 DEF BeatLost, Stop, HbType, HbSet
      <3>2. pc' # "asked" /\ mem' \in {mem, None} /\ UNCHANGED <<disk, given, row>>
        BY <2>3 DEF BeatLost, Stop, RunEnds
      <3> QED BY <1>0, <1>1, <3>1, <3>2 DEF HbType, Spent
    <2> QED BY <1>4, <2>2, <2>3 DEF Mishap
  <1>5. CASE Session
    <2>1. CASE RunPass \/ RunRefuses \/ RegisterRefused \/ Persist \/ Rest
      BY <1>0, <1>1, <2>1 DEF RunPass, RunRefuses, RegisterRefused, Persist, Rest, RunEnds, relay, HbType
    <2>2. CASE Beat
      <3>1. hb'.pc = "registration" /\ hb'.id = mem /\ hb'.heard = TRUE
        BY <2>2 DEF Beat, Quiet
      <3> QED BY <1>0, <1>1, <2>2, <3>1 DEF Beat
    <2>3. CASE Show \/ Dial \/ Rejected
      <3>1. hb'.pc = "idle" /\ hb'.id = None
        BY <2>3 DEF Show, Dial, Rejected, Answered, Quiet
      <3>2. pc' # "asked" /\ mem' \in {mem, None} /\ disk' \in {disk, None} /\ given' \in {given, mem}
        BY <2>3 DEF Show, Dial, Rejected, Answered
      <3> QED BY <1>0, <1>1, <3>1, <3>2
    <2>4. ASSUME NEW i \in Ids, Register(i) PROVE Held'
      <3>1. row'[i].at = "registered"
        BY <1>0, <2>4, NewRow DEF Register, Mint, RowType
      <3> QED BY <1>0, <1>1, <2>4, <3>1 DEF Register, HbType
    <2> QED BY <1>5, <2>1, <2>2, <2>3, <2>4 DEF Session
  <1>6. CASE Heartbeat
    <2>0. hb \in HbSet /\ UNCHANGED client
      BY <1>0, <1>6 DEF HbType, Heartbeat, HbLookup, HbTouch, HbRotate, HbReread, HbDevice, HbUnheard
    <2>1. CASE HbUnheard
      <3>1. hb'.pc = "idle" /\ hb'.id = None /\ ~hb.heard
        BY <2>1 DEF HbUnheard, Quiet
      <3> QED BY <1>0, <1>1, <2>0, <3>1 DEF client
    <2>2. CASE ~HbUnheard
      <3>1. hb'.id = hb.id /\ hb'.heard = hb.heard /\ hb'.pc # "idle" /\ hb.pc # "idle"
        BY <1>6, <2>0, <2>2 DEF Heartbeat, HbLookup, HbTouch, HbRotate, HbReread, HbDevice, HbGoes, HbSet
      <3>2. hb'.pc = "device" => row'[hb.id].at \in {"claimed", "gone"}
        <4>1. hb'.pc = "device" => HbLookup /\ ~Registered(hb.id)
          BY <1>6, <2>0, <2>2 DEF Heartbeat, HbLookup, HbTouch, HbRotate, HbReread, HbDevice, HbGoes, HbSet
        <4>2. hb.id \in Ids /\ row[hb.id] \in RowSet /\ row[hb.id].at # "none"
          BY <1>0, <3>1 DEF HbType, RowType
        <4>3. ~Registered(hb.id) => row[hb.id].at \in {"claimed", "gone"}
          BY <4>2 DEF Registered, RowSet
        <4> QED BY <4>1, <4>2, <4>3 DEF HbLookup
      <3>3. hb'.pc = "unknown" => Spent(hb.id)'
        <4>1. hb'.pc = "unknown" => HbDevice /\ hb.pc = "device" /\ ~Resolves(hb.id)
          BY <1>6, <2>0, <2>2 DEF Heartbeat, HbLookup, HbTouch, HbRotate, HbReread, HbDevice, HbGoes, HbSet
        <4>2. hb.id \in Ids
          BY <1>0, <3>1 DEF HbType
        <4>3. hb.pc = "device" /\ ~Resolves(hb.id) => Spent(hb.id)
          BY <1>0, <4>2 DEF Resolves, Spent
        <4> QED BY <1>1, <3>1, <4>1, <4>2, <4>3 DEF Spent
      <3> QED BY <1>0, <1>1, <2>0, <3>1, <3>2, <3>3 DEF client, Spent
    <2> QED BY <2>1, <2>2
  <1> QED BY <1>2, <1>3, <1>4, <1>5, <1>6 DEF Next, vars, relay, client, Type, Request, Look, Note, Count, ForceRotate, ClaimIt,
             Reap, CodeAges, GoesIdle, GetsOld, Lapses, Extend, Delete, OnlyRow

LEMMA DaemonStep ==
  ASSUME DaemonInv, [Next]_vars
  PROVE  /\ DaemonWorks'
         /\ front = "daemon" /\ disk # None /\ disk' # disk => Spent(disk)
  <1> USE DEF DaemonWorks
  <1>0. Typed /\ Held /\ ClientType /\ DaemonWorks
    BY DEF DaemonInv, Typed
  <1>1. \A i : Lost(i) => Lost(i)'
    BY <1>0, RelayKeeps
  <1>2. CASE UNCHANGED client
    BY <1>0, <1>1, <1>2 DEF client, Lost, Spent
  <1>3. CASE FrontEnd
    BY <1>0, <1>1, <1>3 DEF FrontEnd, Launch, Press, Run, relay, Lost, Spent
  <1>4. CASE Mishap
    BY <1>0, <1>1, <1>4 DEF Mishap, RegisterLost, PersistFails, BeatLost, Stop, RunEnds, relay, Lost, Spent
  <1>5. CASE Session
    <2>1. CASE RunPass \/ RunRefuses \/ RegisterRefused \/ Persist \/ Rest \/ Beat \/ Show \/ Dial
      BY <1>0, <1>1, <2>1 DEF RunPass, RunRefuses, RegisterRefused, Persist, Rest, Beat, Show, Dial, Answered,
                              RunEnds, relay, Lost, Spent
    <2>2. CASE Rejected
      <3>1. Spent(hb.id) /\ hb.id = mem /\ pc' = "run" /\ mem' = None /\ disk' \in {disk, None} /\ UNCHANGED <<row, front>>
        BY <1>0, <2>2 DEF Rejected, Answered, Held
      <3>2. front = "daemon" => mem = disk
        BY <1>0, <2>2 DEF Rejected, Answered
      <3>3. disk' = None \/ (disk' = disk /\ (front = "daemon" => disk \in Ids))
        BY <1>0, <2>2, <3>1, <3>2 DEF Rejected, Answered, ClientType
      <3> QED BY <1>0, <3>1, <3>2, <3>3 DEF Lost, Spent
    <2>3. ASSUME NEW i \in Ids, Register(i) PROVE DaemonWorks' /\ disk' = disk
      BY <1>0, <1>1, <2>3 DEF Register, Lost
    <2> QED BY <1>5, <2>1, <2>2, <2>3 DEF Session
  <1> QED BY <1>2, <1>3, <1>4, <1>5 DEF Next, vars, client, Heartbeat, HbLookup, HbTouch, HbRotate, HbReread, HbDevice, HbUnheard,
             Type, Request, Look, Note, Count, ForceRotate, ClaimIt,
             Reap, CodeAges, GoesIdle, GetsOld, Lapses, Extend, Delete, OnlyRow

\* A daemon gives up the identity on its disk only when the relay has.
THEOREM IdentityKept == Spec => DaemonKeepsIdentity
  <1>1. DaemonInv /\ [Next]_vars => DaemonInv'
    BY TypedStep, HeldStep, DaemonStep DEF DaemonInv
  <1>2. DaemonInv /\ [Next]_vars => (front = "daemon" /\ disk # None /\ disk' # disk => Spent(disk))
    BY DaemonStep
  <1> QED BY <1>1, <1>2, DaemonInit, PTL DEF Spec, DaemonKeepsIdentity
=============================================================================

----------------------------- MODULE FilesProofs -----------------------------
(***************************************************************************)
(* Sign-in, access and files for any accounts, keys, devices, pairings and *)
(* requests, in any batches: guesses are bounded, a Google identity is one *)
(* account, a pairing one device, accounts do not mix, nobody gets at a    *)
(* device on a right that never held, and blobs are whole and delivered.   *)
(***************************************************************************)
EXTENDS Files, FiniteSetTheorems, TLAPS

-----------------------------------------------------------------------------
(***************************************************************************)
(* Places.  Some steps are shared by several handlers and name only the    *)
(* place; which handlers can be there.                                     *)
(***************************************************************************)
Places ==
  {"away", "new", "done", "signedIn", "allowed", "right", "wrong", "byEmail", "linking", "creating", "in",
   "forgetting", "unindexing", "indexing", "approved", "claimed", "listing", "scoped", "permitted", "resolved",
   "sent", "waiting", "known", "putting", "delivering"}

Placed ==
  /\ pc \in [Reqs -> Places]
  /\ \A r \in Reqs :
       /\ pc[r] = "right" => Op[r].kind = "login"
       /\ pc[r] = "signedIn" => Op[r].kind \in {"register", "login", "google"}
       /\ pc[r] \in {"byEmail", "linking", "creating"} => Op[r].kind = "google"
       /\ pc[r] = "permitted" => Op[r].kind \in {"call", "connect", "jump"}
       /\ pc[r] = "resolved" => Op[r].kind \in {"call", "connect", "jump", "live"}

-----------------------------------------------------------------------------
(***************************************************************************)
(* Sign-in                                                                 *)
(***************************************************************************)
\* Whoever is signed in, or about to be, has an account.
Accounted ==
  \A r \in Reqs :
    /\ pc[r] \in {"right", "linking", "signedIn"} => who[r] \in accounts
    /\ Op[r].kind \in Dashboard /\ pc[r] = "in" => who[r] \in accounts

Racers == {r \in Reqs : Op[r].kind = "login" /\ Busy(r)}

\* Once the address is locked, every wrong password still to come is of a
\* login that was past the limiter by then.
Counted ==
  /\ ~locked => burst = fails /\ fails < MaxFails
  /\ locked => burst + Cardinality(Racers) <= MaxFails + racing

Midway(r) == pc[r] \in {"byEmail", "linking", "creating"}

\* A Google sign-in half way has its subject unlinked, or linked to its own
\* email, or had a rival.
Identities ==
  /\ \A r \in Reqs : Op[r].kind = "google" /\ Op[r].sub \notin contended =>
       /\ pc[r] = "linking" => who[r] = Op[r].email
       /\ Midway(r) => link[Op[r].sub] \in {None, Op[r].email}
       /\ pc[r] = "signedIn" => who[r] = link[Op[r].sub]
  /\ \A q, r \in Reqs : Midway(q) /\ Midway(r) /\ Op[q].sub = Op[r].sub /\ Op[q].email # Op[r].email =>
       Op[r].sub \in contended

SignInInv == SignInTypeOK /\ Accounted /\ Counted /\ Identities /\ OneIdentity

-----------------------------------------------------------------------------
(***************************************************************************)
(* Devices, keys and pairings                                              *)
(***************************************************************************)
\* The one request that makes device d is done with it.
Made(d) == d \in DOMAIN OwnerOf \/ \E r \in Makers : Op[r].dev = d /\ pc[r] = "done"

\* A device exists only after it was made, so it never changes hands.
DevicesMade == \A d \in Devs : device[d] # None => Made(d)

\* What buildScope has verified stays the account's, or goes.
Checked ==
  \A r \in Editors : pc[r] = "in" /\ ~Op[r].scope.allDevices =>
    \A d \in Op[r].scope.devices \ left[r] : Made(d) /\ (device[d] # None => device[d].owner = who[r])

ListsApart == \A p \in listed : key[p[1]] # None /\ Owns(key[p[1]].account, p[2])

Claimant(c, r) == Op[r].kind = "poll" /\ Op[r].code = c /\ pc[r] = "claimed"

\* Nothing of a pairing exists before it is started ...
Unstarted ==
  \A c \in Codes, r \in Reqs : Op[r].kind = "pair" /\ Op[r].code = c /\ pc[r] = "new" =>
    pairing[c] = None /\ minted[c] = {} /\ approver[c] = None /\ \A q \in Reqs : ~Claimant(c, q)

\* ... its row goes with its first approver and with who has used it up ...
Settled ==
  \A c \in Codes : pairing[c] # None =>
    /\ pairing[c].owner = approver[c]
    /\ pairing[c].status = "pending" => ~pairing[c].consumed /\ approver[c] = None
    /\ pairing[c].status = "approved" \/ pairing[c].consumed => approver[c] # None
    /\ ~pairing[c].consumed => minted[c] = {} /\ \A r \in Reqs : ~Claimant(c, r)

\* ... and it is used up once.
OneClaim  == \A c \in Codes, r \in Reqs : Claimant(c, r) => minted[c] = {} /\ \A q \in Reqs : Claimant(c, q) => q = r
OneMinted == \A c \in Codes, d, e \in Devs : d \in minted[c] /\ e \in minted[c] => d = e

PairedOnce ==
  /\ minted \in [Codes -> SUBSET Devs] /\ approver \in [Codes -> Emails \cup {None}]
  /\ Unstarted /\ Settled /\ OneClaim /\ OneMinted

\* What a pairing made is its approver's, made by a poll that is done.
Paired ==
  \A c \in Codes, d \in Devs : d \in minted[c] =>
    Made(d) /\ (device[d] # None => device[d].owner = approver[c])

AccessInv == AccessTypeOK /\ DevicesMade /\ Checked /\ ListsApart /\ PairedOnce /\ Paired

CoreInv == Placed /\ SignInInv /\ AccessInv

-----------------------------------------------------------------------------
(***************************************************************************)
(* Rights.  A right a request has passed the check of was seen to hold.    *)
(***************************************************************************)
Allowing(r) == pc[r] \in {"listing", "scoped", "permitted"}

KeyRight(r) ==
  Op[r].kind \in Agent =>
    /\ Allowing(r) \/ pc[r] = "resolved" => "key" \in seen[r]
    /\ Allowing(r) => who[r] # None
    /\ Allowing(r) /\ "inScope" \in Needs(r) /\ AllowsDevice(scope[r], Op[r].dev) => "inScope" \in seen[r]
    /\ pc[r] \in {"listing", "scoped"} =>
         /\ Op[r].kind = "call" /\ AllowsMethod(scope[r], Op[r].method) => "method" \in seen[r]
         /\ Op[r].kind = "connect" /\ scope[r].tunnel => "tunnel" \in seen[r]
    /\ pc[r] \in {"permitted", "resolved"} =>
         /\ Op[r].kind = "call" => "method" \in seen[r]
         /\ Op[r].kind = "connect" => "tunnel" \in seen[r]
    /\ pc[r] = "resolved" => {"inScope", "owned"} \subseteq seen[r]

PrintRight(r) ==
  Op[r].kind = "jump" =>
    /\ pc[r] \in {"permitted", "resolved"} => "print" \in seen[r]
    /\ pc[r] = "permitted" => who[r] # None
    /\ pc[r] = "resolved" => "owned" \in seen[r]

DirectRight(r) ==
  /\ Op[r].kind \in {"live", "sessionRead"} /\ pc[r] \in {"in", "resolved"} => "session" \in seen[r]
  /\ Op[r].kind = "live" /\ pc[r] = "resolved" => "owned" \in seen[r]
  /\ Op[r].kind = "dial" /\ pc[r] = "known" => "token" \in seen[r]
  /\ Op[r].kind = "hostDial" /\ pc[r] = "known" => "exists" \in seen[r]
  /\ Op[r].kind = "deviceRead" /\ pc[r] = "in" => "known" \in seen[r] /\ who[r] # None
  /\ Op[r].kind = "send" /\ pc[r] = "putting" => "signed" \in seen[r]

SentRight(r) == InHand(r) => Needs(r) \subseteq seen[r]

Right(r) == KeyRight(r) /\ PrintRight(r) /\ DirectRight(r) /\ SentRight(r)

RightsInv == \A r \in Watched : Right(r)

-----------------------------------------------------------------------------
(***************************************************************************)
(* Blobs                                                                   *)
(***************************************************************************)
BlobRows == [account : Emails \cup {None}, device : Devs \cup {None}]

\* A blob is put once: a send when it is posted, a pull when the device
\* begins.
PutFor(b) ==
  /\ Op[b].kind = "send" /\ pc[b] = "new" => put[b] = "none"
  /\ Op[b].kind = "call" => /\ work[b] \in {"none", "asked"} => put[b] = "none"
                            /\ pc[b] \notin {"waiting", "done"} => work[b] = "none"

\* A row is there only after the bytes, and they outlive it only in the hands
\* of a prune.
RowFor(b) ==
  /\ put[b] = "record" => bytes[b] = "whole"
  /\ put[b] = "deleting" => bytes[b] = "none" /\ b \in old
  /\ row[b] # None => /\ put[b] \in {"stored", "deleting"}
                      /\ row[b].device = IF Op[b].kind = "send" THEN None ELSE Op[b].dev
                      /\ bytes[b] = "whole" \/ (b \in old /\ bytes[b] = "none")

Rows == todo \subseteq old /\ \A b \in Blobs : PutFor(b) /\ RowFor(b)

\* A URL, and the bytes that came of it, are of a call that was authenticated,
\* and the row of the bytes names its account.
Traced ==
  /\ DOMAIN url = Minters /\ \A m \in Minters : url[m] => pc[m] # "new"
  /\ \A b \in Blobs : put[b] # "none" => pc[AskedBy(b)] # "new"
  /\ \A b \in Blobs : row[b] # None => row[b].account = Asker(b)

\* The device says so only of what it has put in place.
Said ==
  /\ told \cup wrote \subseteq Blobs
  /\ \A b \in Blobs : Op[b].kind = "send" /\ work[b] = "did" => b \in wrote
  /\ \A b \in wrote : \E c \in wrote : dest[Target(b)] = c /\ Target(c) = Target(b)

BlobTypeOK == TypeOK /\ row \in [Blobs -> BlobRows \cup {None}]

BlobInv == BlobTypeOK /\ Rows /\ Traced /\ Said

FilesInv == CoreInv /\ RightsInv /\ BlobInv /\ Delivered

-----------------------------------------------------------------------------
(***************************************************************************)
(* Places are kept                                                         *)
(***************************************************************************)
LEMMA PlacedInit == SignInInit => Placed
  BY DEF SignInInit, Placed, Places

LEMMA PlacedStep == Placed /\ [Next]_allVars => Placed'
  <1> SUFFICES ASSUME Placed, [Next]_allVars PROVE Placed'
    OBVIOUS
  <1> USE DEF Placed, Places, At, Goto, Open
  <1>1. CASE UNCHANGED pc
    BY <1>1
  <1>2. CASE SignInStep
    <2>1. ASSUME NEW r \in Open, Register(r) \/ Logout(r) \/ StartSession(r) PROVE Placed'
      BY <2>1 DEF Register, Logout, StartSession
    <2>2. ASSUME NEW r \in Open, Allowed(r) \/ CheckPassword(r) \/ RecordFail(r) \/ Reset(r) PROVE Placed'
      BY <2>2 DEF Allowed, CheckPassword, RecordFail, Reset
    <2>3. ASSUME NEW r \in Open, BySubject(r) \/ ByEmail(r) \/ LinkAccount(r) \/ CreateLinked(r) PROVE Placed'
      BY <2>3 DEF BySubject, ByEmail, LinkAccount, CreateLinked
    <2> QED BY <1>1, <1>2, <2>1, <2>2, <2>3 DEF SignInStep, SessionExpires, TimePasses
  <1>3. ASSUME NEW r \in Open, DashboardStep(r) PROVE Placed'
    BY <1>3 DEF DashboardStep, Dashboard, Authenticate, CreateDevice, RotateDeviceToken, DeleteDevice, BuildScope,
             Editors, StoreKey, DeleteAPIKey, AddSSHKey, DeleteSSHKey
  <1>4. ASSUME NEW r \in Open, PairStep(r) PROVE Placed'
    BY <1>4 DEF PairStep, PairStart, ApprovePairing, PairPoll, ConsumePairing, MintDevice
  <1>5. ASSUME NEW r \in Open, AgentStep(r) \/ DialStep(r) PROVE Placed'
    <2>1. CASE KeyByToken(r) \/ KeyDeviceIDs(r)
      BY <2>1 DEF Agent, KeyByToken, KeyDeviceIDs
    <2>2. CASE Permit(r)
      BY <2>2 DEF Permit
    <2>3. CASE AccountForKey(r) \/ HubGet(r) \/ DialStep(r)
      BY <2>3 DEF AccountForKey, HubGet, DialStep, DeviceByToken, DeviceByHost, RegisterConn
    <2>4. CASE Resolve(r)
      BY <2>4 DEF Resolve, Agent
    <2> QED BY <1>5, <2>1, <2>2, <2>3, <2>4 DEF AgentStep
  <1>6. ASSUME NEW r \in Reqs, SendFile(r) \/ GetFile(r) \/ SaveShot(r) \/ LinkBlob(r) \/ Send(r) \/ Deliver(r) \/ Answer(r)
        PROVE Placed'
    BY <1>6 DEF SendFile, GetFile, SaveShot, LinkBlob, Send, Deliver, Answer
  <1>7. ASSUME NEW r \in Reqs, \/ Fetch(r) \/ ReadAsDevice(r) \/ Download(r) \/ LiveScreenshot(r)
                               \/ IndexShot(r) \/ ForgetShot(r) \/ UnindexShot(r)
        PROVE Placed'
    BY <1>7 DEF Fetch, ReadAsDevice, Download, LiveScreenshot, IndexShot, ForgetShot, UnindexShot
  <1>8. CASE Crash
    BY <1>8 DEF Crash
  <1>9. CASE FileStep
    BY <1>1, <1>6, <1>7, <1>8, <1>9 DEF FileStep, PutStep, DeviceStep, BlobAges, UrlExpires, ShotAges, PruneStep, SweepStep
  <1> QED
    BY <1>1, <1>2, <1>3, <1>4, <1>5, <1>9 DEF Next, AccessStep, PairingExpires, Disconnect, allVars

-----------------------------------------------------------------------------
(***************************************************************************)
(* Sign-in                                                                 *)
(***************************************************************************)
LEMMA FiniteParts == \A S \in SUBSET Reqs : IsFiniteSet(S) /\ Cardinality(S) \in Nat
  <1> SUFFICES ASSUME NEW S \in SUBSET Reqs PROVE IsFiniteSet(S) /\ Cardinality(S) \in Nat
    OBVIOUS
  <1>1. IsFiniteSet(Reqs)
    BY ReqsAssumption
  <1>2. IsFiniteSet(S)
    BY <1>1, FS_Subset
  <1> QED BY <1>2, FS_CardinalityType

LEMMA RegisterFields == ASSUME NEW r \in Open, At(r, "register", "new") PROVE r \in Reqs /\ Op[r].email \in Emails
  BY ReqsAssumption DEF Open, At

LEMMA GoogleFields == ASSUME NEW r \in Reqs, Op[r].kind = "google" PROVE Op[r].email \in Emails /\ Op[r].sub \in Subjects
  BY ReqsAssumption

LEMMA ClearTypes == Clear => fails' \in 0..MaxFails /\ locked' \in BOOLEAN /\ burst' \in Nat /\ racing' \in Nat
  <1> SUFFICES ASSUME Clear PROVE fails' \in 0..MaxFails /\ locked' \in BOOLEAN /\ burst' \in Nat /\ racing' \in Nat
    OBVIOUS
  <1>1. fails' = 0 /\ burst' = 0 /\ racing' = 0
    BY DEF Clear
  <1>2. locked' \in BOOLEAN
    BY Zenon DEF Clear
  <1> QED BY <1>1, <1>2, MaxFailsAssumption

\* What was typed by the accounts is so when there are more.
LEMMA MoreAccounts ==
  ASSUME NEW S, NEW A, NEW B, A \subseteq B, NEW f \in [S -> A \cup {None}]
  PROVE  f \in [S -> B \cup {None}]
  OBVIOUS

\* The handlers of sign-in keep the types.
LEMMA SignInTypes ==
  ASSUME Placed, SignInTypeOK, Accounted, SignInStep
  PROVE  SignInTypeOK'
  <1> USE DEF SignInTypeOK, At, Goto, Become, Open, signVars, limiterVars
  <1>1. ASSUME NEW r \in Open, Register(r) PROVE SignInTypeOK'
    <2>0. r \in Reqs /\ Op[r].email \in Emails
      BY <1>1, RegisterFields DEF Register
    <2>1. accounts \subseteq accounts' /\ accounts' \subseteq Emails
      BY <1>1, <2>0 DEF Register
    <2>2. link' = link /\ session' = session /\ UNCHANGED <<limiterVars, contended>>
      BY <1>1 DEF Register
    <2>3. link' \in [Subjects -> accounts' \cup {None}] /\ session' \in [Sessions -> accounts' \cup {None}]
      BY <2>1, <2>2, MoreAccounts
    <2>4. who' \in [Reqs -> Emails \cup {None}]
      BY <1>1, <2>0 DEF Register
    <2> QED BY <2>1, <2>2, <2>3, <2>4
  <1>2. ASSUME NEW r \in Open, Logout(r) \/ StartSession(r) PROVE SignInTypeOK'
    BY <1>2 DEF Logout, StartSession, Accounted
  <1>3. ASSUME NEW r \in Open, Allowed(r) \/ CheckPassword(r) PROVE SignInTypeOK'
    <2>1. r \in Reqs /\ Op[r].kind = "login" /\ UNCHANGED signVars
      BY <1>3 DEF Allowed, CheckPassword
    <2>2. Op[r].email \in Emails
      BY <2>1, ReqsAssumption
    <2>3. who' \in [Reqs -> Emails \cup {None}]
      BY <1>3, <2>1, <2>2 DEF Allowed, CheckPassword
    <2> QED BY <2>1, <2>3
  <1>4. ASSUME NEW r \in Open, RecordFail(r) PROVE SignInTypeOK'
    <2>1. {l \in Reqs : Op[l].kind = "login" /\ Busy(l)} \ {r} \in SUBSET Reqs
      OBVIOUS
    <2>2. Cardinality({l \in Reqs : Op[l].kind = "login" /\ Busy(l)} \ {r}) \in Nat
      BY <2>1, FiniteParts
    <2>3. UNCHANGED <<who, accounts, link, session, contended>> /\ burst' \in Nat
      BY <1>4 DEF RecordFail
    <2>4. CASE fails + 1 >= MaxFails
      <3>1. fails' = 0 /\ racing' \in Nat
        BY <1>4, <2>2, <2>4 DEF RecordFail
      <3>2. locked' = TRUE
        BY <1>4, <2>4, Zenon DEF RecordFail
      <3> QED BY <2>3, <3>1, <3>2, MaxFailsAssumption
    <2>5. CASE ~(fails + 1 >= MaxFails)
      <3>1. fails' = fails + 1 /\ UNCHANGED <<locked, racing>>
        BY <1>4, <2>5 DEF RecordFail
      <3> QED BY <2>3, <2>5, <3>1, MaxFailsAssumption
    <2> QED BY <2>4, <2>5
  <1>5. ASSUME NEW r \in Open, Reset(r) PROVE SignInTypeOK'
    <2>1. UNCHANGED <<who, accounts, link, session, contended>>
      BY <1>5 DEF Reset
    <2> QED BY <1>5, <2>1, ClearTypes DEF Reset
  <1>6. ASSUME NEW r \in Open, BySubject(r) PROVE SignInTypeOK'
    <2>0. r \in Reqs /\ Op[r].kind = "google" /\ UNCHANGED <<accounts, link, session, limiterVars>>
      BY <1>6 DEF BySubject
    <2>1. Op[r].sub \in Subjects /\ UNCHANGED <<accounts, link, session, limiterVars>>
      BY <2>0, GoogleFields
    <2>2. contended' \subseteq Subjects
      BY <1>6, <2>1 DEF BySubject
    <2>3. who' \in [Reqs -> Emails \cup {None}]
      BY <1>6, <2>1 DEF BySubject
    <2> QED BY <2>1, <2>2, <2>3
  <1>7. ASSUME NEW r \in Open, ByEmail(r) PROVE SignInTypeOK'
    BY <1>7 DEF ByEmail
  <1>8. ASSUME NEW r \in Open, LinkAccount(r) PROVE SignInTypeOK'
    BY <1>8 DEF LinkAccount, Accounted
  <1>9. ASSUME NEW r \in Open, CreateLinked(r) PROVE SignInTypeOK'
    <2>1. Op[r].email \in Emails /\ Op[r].sub \in Subjects
      <3>1. r \in Reqs /\ Op[r].kind = "google"
        BY <1>9 DEF CreateLinked, Placed
      <3> QED BY <3>1, GoogleFields
    <2>2. CASE UNCHANGED <<accounts, link, who>>
      BY <1>9, <2>2 DEF CreateLinked
    <2>3. CASE /\ accounts' = accounts \cup {Op[r].email}
               /\ link' = [link EXCEPT ![Op[r].sub] = Op[r].email]
               /\ who' = [who EXCEPT ![r] = Op[r].email]
      <3>1. accounts' \subseteq Emails /\ accounts \subseteq accounts' /\ UNCHANGED <<session, limiterVars, contended>>
        BY <1>9, <2>1, <2>3 DEF CreateLinked
      <3>2. session' \in [Sessions -> accounts' \cup {None}]
        BY <3>1, MoreAccounts
      <3>3. link \in [Subjects -> accounts' \cup {None}]
        BY <3>1, MoreAccounts
      <3>4. link' \in [Subjects -> accounts' \cup {None}]
        BY <2>1, <2>3, <3>3
      <3>5. who' \in [Reqs -> Emails \cup {None}]
        BY <2>1, <2>3
      <3> QED BY <3>1, <3>2, <3>4, <3>5
    <2> QED BY <1>9, <2>2, <2>3 DEF CreateLinked
  <1>10. ASSUME NEW s \in Sessions, SessionExpires(s) PROVE SignInTypeOK'
    BY <1>10 DEF SessionExpires
  <1>11. CASE TimePasses
    <2>1. UNCHANGED <<who, accounts, link, session, contended>>
      BY <1>11 DEF TimePasses
    <2> QED BY <1>11, <2>1, ClearTypes DEF TimePasses
  <1> QED
    BY <1>1, <1>2, <1>3, <1>4, <1>5, <1>6, <1>7, <1>8, <1>9, <1>10, <1>11 DEF SignInStep

\* Whoever they let past a password or a link has an account.
LEMMA SignInAccounted ==
  ASSUME Placed, SignInTypeOK, Accounted, SignInStep
  PROVE  Accounted'
  <1> USE DEF Accounted, SignInTypeOK, At, Goto, Become, Open, signVars, limiterVars, Placed, Places, Dashboard
  <1>1. ASSUME NEW r \in Open, Register(r) PROVE Accounted'
    BY <1>1, RegisterFields DEF Register
  <1>2. ASSUME NEW r \in Open, Logout(r) \/ StartSession(r) PROVE Accounted'
    BY <1>2 DEF Logout, StartSession
  <1>3. ASSUME NEW r \in Open, Allowed(r) \/ CheckPassword(r) PROVE Accounted'
    BY <1>3 DEF Allowed, CheckPassword
  <1>4. ASSUME NEW r \in Open, RecordFail(r) \/ Reset(r) PROVE Accounted'
    BY <1>4 DEF RecordFail, Reset
  <1>6. ASSUME NEW r \in Open, BySubject(r) PROVE Accounted'
    <2>0. r \in Reqs /\ Op[r].kind = "google" /\ UNCHANGED accounts
      BY <1>6 DEF BySubject
    <2>1. Op[r].sub \in Subjects /\ UNCHANGED accounts
      BY <2>0, GoogleFields
    <2>2. link[Op[r].sub] # None => link[Op[r].sub] \in accounts
      BY <2>1
    <2> QED BY <1>6, <2>1, <2>2 DEF BySubject
  <1>7. ASSUME NEW r \in Open, ByEmail(r) PROVE Accounted'
    BY <1>7 DEF ByEmail
  <1>8. ASSUME NEW r \in Open, LinkAccount(r) PROVE Accounted'
    BY <1>8 DEF LinkAccount
  <1>9. ASSUME NEW r \in Open, CreateLinked(r) PROVE Accounted'
    BY <1>9 DEF CreateLinked
  <1>10. ASSUME NEW s \in Sessions, SessionExpires(s) PROVE Accounted'
    BY <1>10 DEF SessionExpires
  <1>11. CASE TimePasses
    BY <1>11 DEF TimePasses
  <1> QED
    BY <1>1, <1>2, <1>3, <1>4, <1>6, <1>7, <1>8, <1>9, <1>10, <1>11 DEF SignInStep

\* What a step of anything else leaves of it.
Aside ==
  /\ UNCHANGED <<accounts, link, session, contended>>
  /\ UNCHANGED limiterVars \/ Clear
  /\ \A r \in Reqs : Op[r].kind \in {"register", "login", "logout", "google"} =>
       who'[r] = who[r] /\ pc'[r] \in {pc[r], "done"}

LEMMA OthersAside == ASSUME Placed, SignInTypeOK, [Next]_allVars PROVE SignInStep \/ Aside
  <1> USE DEF Placed, Aside, At, Goto, Become, Open, signVars, restVars, limiterVars
  <1>1. CASE UNCHANGED <<pc, who, signVars>>
    BY <1>1
  <1>2. ASSUME NEW r \in Open, DashboardStep(r) PROVE Aside
    <2>1. pc \in [Reqs -> Places] /\ who \in [Reqs -> Emails \cup {None}] /\ r \in Reqs
      BY DEF SignInTypeOK
    <2>2. CASE Authenticate(r)
      BY <2>1, <2>2 DEF Authenticate, Dashboard
    <2>3. CASE CreateDevice(r) \/ RotateDeviceToken(r) \/ DeleteDevice(r)
      BY <2>1, <2>3 DEF CreateDevice, RotateDeviceToken, DeleteDevice
    <2>4. CASE BuildScope(r) \/ StoreKey(r)
      BY <2>1, <2>4 DEF BuildScope, Editors, StoreKey
    <2>5. CASE DeleteAPIKey(r) \/ AddSSHKey(r) \/ DeleteSSHKey(r)
      BY <2>1, <2>5 DEF DeleteAPIKey, AddSSHKey, DeleteSSHKey
    <2> QED BY <1>2, <2>2, <2>3, <2>4, <2>5 DEF DashboardStep
  <1>3. ASSUME NEW r \in Open, PairStep(r) PROVE Aside
    <2>1. pc \in [Reqs -> Places] /\ who \in [Reqs -> Emails \cup {None}] /\ r \in Reqs
      BY DEF SignInTypeOK
    <2> QED BY <1>3, <2>1 DEF PairStep, PairStart, ApprovePairing, PairPoll, ConsumePairing, MintDevice
  <1>4. ASSUME NEW r \in Open, AgentStep(r) \/ DialStep(r) PROVE Aside
    <2>1. pc \in [Reqs -> Places] /\ who \in [Reqs -> Emails \cup {None}] /\ r \in Reqs
      BY DEF SignInTypeOK
    <2>2. CASE KeyByToken(r) \/ KeyDeviceIDs(r)
      BY <2>1, <2>2 DEF Agent, KeyByToken, KeyDeviceIDs
    <2>3. CASE Permit(r)
      BY <2>1, <2>3 DEF Permit
    <2>4. CASE AccountForKey(r) \/ HubGet(r) \/ DialStep(r)
      BY <2>1, <2>4 DEF AccountForKey, HubGet, DialStep, DeviceByToken, DeviceByHost, RegisterConn
    <2>5. CASE Resolve(r)
      BY <2>1, <2>5 DEF Resolve, Agent
    <2> QED BY <1>4, <2>2, <2>3, <2>4, <2>5 DEF AgentStep
  <1>5. ASSUME NEW r \in Reqs, SendFile(r) \/ GetFile(r) \/ SaveShot(r) \/ LinkBlob(r) \/ Send(r) \/ Deliver(r) \/ Answer(r)
        PROVE Aside
    <2>1. pc \in [Reqs -> Places] /\ who \in [Reqs -> Emails \cup {None}] /\ r \in Reqs
      BY DEF SignInTypeOK
    <2> QED BY <1>5, <2>1 DEF SendFile, GetFile, SaveShot, LinkBlob, Send, Deliver, Answer
  <1>6. ASSUME NEW r \in Reqs, \/ Fetch(r) \/ ReadAsDevice(r) \/ Download(r) \/ LiveScreenshot(r)
                               \/ IndexShot(r) \/ ForgetShot(r) \/ UnindexShot(r)
        PROVE Aside
    <2>1. pc \in [Reqs -> Places] /\ who \in [Reqs -> Emails \cup {None}] /\ r \in Reqs
      BY DEF SignInTypeOK
    <2> QED BY <1>6, <2>1 DEF Fetch, ReadAsDevice, Download, LiveScreenshot, IndexShot, ForgetShot, UnindexShot
  <1>7. CASE Crash
    BY <1>7 DEF Crash, Clear
  <1>8. CASE FileStep
    BY <1>1, <1>5, <1>6, <1>7, <1>8 DEF FileStep, PutStep, DeviceStep, BlobAges, UrlExpires, ShotAges, PruneStep, SweepStep
  <1> QED
    BY <1>1, <1>2, <1>3, <1>4, <1>8 DEF Next, AccessStep, PairingExpires, Disconnect, allVars

\* Nobody comes to be past the limiter while the address is locked.
LEMMA RacersFew ==
  ASSUME Placed, NEW S \in SUBSET Racers
  PROVE  IsFiniteSet(S) /\ IsFiniteSet(Racers) /\ Cardinality(S) \in Nat /\ Cardinality(Racers) \in Nat
         /\ Cardinality(S) <= Cardinality(Racers)
  <1>1. Racers \in SUBSET Reqs /\ S \in SUBSET Reqs
    BY DEF Racers
  <1>2. IsFiniteSet(S) /\ IsFiniteSet(Racers) /\ Cardinality(S) \in Nat /\ Cardinality(Racers) \in Nat
    BY <1>1, FiniteParts
  <1> QED BY <1>2, FS_Subset

LEMMA CountedQuiet ==
  ASSUME Placed, SignInTypeOK, Counted, UNCHANGED limiterVars, locked => Racers' \subseteq Racers
  PROVE  Counted'
  <1>1. UNCHANGED <<fails, locked, burst, racing>>
    BY DEF limiterVars
  <1>2. CASE ~locked
    <2>1. burst = fails /\ fails < MaxFails
      BY <1>2 DEF Counted
    <2> QED BY <1>1, <1>2, <2>1 DEF Counted
  <1>3. CASE locked
    <2>1. burst + Cardinality(Racers) <= MaxFails + racing
      BY <1>3 DEF Counted
    <2>2. Cardinality(Racers') \in Nat /\ Cardinality(Racers) \in Nat /\ Cardinality(Racers') <= Cardinality(Racers)
      BY <1>3, RacersFew
    <2>3. burst + Cardinality(Racers') <= MaxFails + racing
      BY <2>1, <2>2, MaxFailsAssumption DEF SignInTypeOK
    <2> QED BY <1>1, <1>3, <2>3 DEF Counted
  <1> QED BY <1>2, <1>3

LEMMA CountedClear == ASSUME Clear PROVE Counted'
  <1>1. ~locked'
    BY Zenon DEF Clear
  <1>2. burst' = fails' /\ fails' < MaxFails
    BY MaxFailsAssumption DEF Clear
  <1> QED BY <1>1, <1>2 DEF Counted

LEMMA CountedFail ==
  ASSUME Placed, SignInTypeOK, Counted, NEW r \in Open, RecordFail(r)
  PROVE  Counted'
  <1>1. r \in Reqs /\ Op[r].kind = "login" /\ pc[r] = "wrong" /\ pc' = [pc EXCEPT ![r] = "done"]
    BY DEF RecordFail, At, Goto, Open
  <1>2. r \in Racers /\ Racers' = Racers \ {r}
    BY <1>1 DEF Racers, Busy, Placed
  <1>3. /\ Cardinality(Racers) \in Nat /\ Cardinality(Racers') \in Nat
        /\ Cardinality(Racers') = Cardinality(Racers) - 1
    BY <1>2, RacersFew, FS_RemoveElement
  <1>4. burst' = burst + 1
    BY DEF RecordFail
  <1>5. CASE fails + 1 >= MaxFails /\ ~locked
    <2>1. locked'
      BY <1>5, Zenon DEF RecordFail
    <2>2. racing' = Cardinality(Racers')
      BY <1>2, <1>5 DEF RecordFail, Racers
    <2>3. burst' <= MaxFails
      BY <1>4, <1>5, MaxFailsAssumption DEF Counted, SignInTypeOK
    <2>4. burst' + Cardinality(Racers') <= MaxFails + racing'
      BY <1>3, <1>4, <2>2, <2>3, MaxFailsAssumption DEF SignInTypeOK
    <2> QED BY <2>1, <2>4 DEF Counted
  <1>6. CASE locked
    <2>1. locked' /\ racing' = racing
      <3>1. CASE fails + 1 >= MaxFails
        BY <1>6, <3>1, Zenon DEF RecordFail
      <3>2. CASE ~(fails + 1 >= MaxFails)
        BY <1>6, <3>2, Zenon DEF RecordFail
      <3> QED BY <3>1, <3>2
    <2>2. burst + Cardinality(Racers) <= MaxFails + racing
      BY <1>6 DEF Counted
    <2>3. burst' + Cardinality(Racers') <= MaxFails + racing'
      BY <1>3, <1>4, <2>1, <2>2, MaxFailsAssumption DEF SignInTypeOK
    <2> QED BY <2>1, <2>3 DEF Counted
  <1>7. CASE ~(fails + 1 >= MaxFails) /\ ~locked
    <2>1. ~locked'
      BY <1>7, Zenon DEF RecordFail
    <2>2. fails' = fails + 1
      BY <1>7, Zenon DEF RecordFail
    <2>3. burst' = fails' /\ fails' < MaxFails
      BY <1>4, <1>7, <2>2, MaxFailsAssumption DEF Counted, SignInTypeOK
    <2> QED BY <2>1, <2>3 DEF Counted
  <1> QED BY <1>5, <1>6, <1>7

LEMMA CountedStep ==
  ASSUME Placed, SignInTypeOK, Counted, [Next]_allVars
  PROVE  Counted'
  <1> USE DEF At, Goto, Open, Busy
  <1>1. CASE Aside
    <2>1. Racers' \subseteq Racers
      BY <1>1 DEF Aside, Racers
    <2> QED BY <1>1, <2>1, CountedQuiet, CountedClear DEF Aside
  <1>2. ASSUME NEW r \in Open, Register(r) \/ Logout(r) \/ StartSession(r) PROVE Counted'
    <2>1. UNCHANGED limiterVars /\ Racers' \subseteq Racers
      BY <1>2 DEF Register, Logout, StartSession, Racers, Placed
    <2> QED BY <2>1, CountedQuiet
  <1>3. ASSUME NEW r \in Open, Allowed(r) PROVE Counted'
    <2>1. UNCHANGED limiterVars /\ pc \in [Reqs -> Places] /\ r \in Reqs
      BY <1>3 DEF Allowed, signVars, Placed
    <2>2. ASSUME locked PROVE pc' = [pc EXCEPT ![r] = "done"]
      BY <1>3, <2>2, Zenon DEF Allowed
    <2>3. ASSUME locked PROVE Racers' \subseteq Racers
      BY <2>1, <2>2, <2>3 DEF Racers
    <2> QED BY <2>1, <2>3, CountedQuiet
  <1>4. ASSUME NEW r \in Open, CheckPassword(r) PROVE Counted'
    <2>1. UNCHANGED limiterVars /\ Racers' \subseteq Racers
      BY <1>4 DEF CheckPassword, signVars, Racers, Placed
    <2> QED BY <2>1, CountedQuiet
  <1>5. ASSUME NEW r \in Open, BySubject(r) \/ ByEmail(r) \/ LinkAccount(r) \/ CreateLinked(r) PROVE Counted'
    <2>1. UNCHANGED limiterVars /\ Racers' \subseteq Racers
      BY <1>5 DEF BySubject, ByEmail, LinkAccount, CreateLinked, signVars, Racers, Placed
    <2> QED BY <2>1, CountedQuiet
  <1>6. ASSUME NEW s \in Sessions, SessionExpires(s) PROVE Counted'
    <2>1. UNCHANGED limiterVars /\ Racers' \subseteq Racers
      BY <1>6 DEF SessionExpires, Racers
    <2> QED BY <2>1, CountedQuiet
  <1>7. CASE SignInStep
    BY <1>2, <1>3, <1>4, <1>5, <1>6, <1>7, CountedFail, CountedClear DEF SignInStep, Reset, TimePasses
  <1> QED BY <1>1, <1>7, OthersAside

\* A link once made stays, and is made for the email of whoever is half way.
IdentityInv == Identities /\ OneIdentity

LEMMA LinkMade ==
  ASSUME Placed, SignInTypeOK, Accounted, IdentityInv, NEW q \in Reqs, Op[q].kind = "google", Midway(q),
         link[Op[q].sub] = None, link' = [link EXCEPT ![Op[q].sub] = who'[q]],
         who' = [who EXCEPT ![q] = who'[q]], pc' = [pc EXCEPT ![q] = "signedIn"],
         UNCHANGED <<session, contended>>, Op[q].sub \notin contended => who'[q] = Op[q].email
  PROVE  IdentityInv'
  <1> USE DEF Placed, Midway
  <1>1. Op[q].sub \in Subjects /\ \A r \in Reqs : Op[r].kind = "google" => Op[r].sub \in Subjects
    BY GoogleFields
  <1>2. ASSUME NEW r \in Reqs, Op[r].kind = "google", Op[r].sub \notin contended, r # q
        PROVE  /\ pc'[r] = "linking" => who'[r] = Op[r].email
               /\ Midway(r)' => link'[Op[r].sub] \in {None, Op[r].email}
               /\ pc'[r] = "signedIn" => who'[r] = link'[Op[r].sub]
    <2>1. pc'[r] = pc[r] /\ who'[r] = who[r]
      BY <1>2 DEF SignInTypeOK
    <2>2. CASE Op[r].sub # Op[q].sub
      <3>1. link'[Op[r].sub] = link[Op[r].sub]
        BY <1>1, <1>2, <2>2 DEF SignInTypeOK
      <3> QED BY <1>2, <2>1, <3>1 DEF IdentityInv, Identities
    <2>3. CASE Op[r].sub = Op[q].sub
      <3>1. link'[Op[r].sub] = Op[q].email
        BY <1>1, <1>2, <2>3 DEF SignInTypeOK
      <3>2. Midway(r) => Op[r].email = Op[q].email
        BY <1>2, <2>3 DEF IdentityInv, Identities
      <3>3. pc[r] # "signedIn"
        <4>1. pc[r] = "signedIn" => who[r] = None
          BY <1>2, <2>3 DEF IdentityInv, Identities
        <4> QED BY <4>1, NoneAssumption DEF Accounted, SignInTypeOK
      <3> QED BY <1>2, <2>1, <3>1, <3>2, <3>3 DEF IdentityInv, Identities
    <2> QED BY <2>2, <2>3
  <1>3. who'[q] = link'[Op[q].sub] /\ pc'[q] = "signedIn"
    BY <1>1 DEF SignInTypeOK
  <1>4. \A p, r \in Reqs : Midway(p)' /\ Midway(r)' /\ Op[p].sub = Op[r].sub /\ Op[p].email # Op[r].email =>
          Op[r].sub \in contended'
    BY DEF IdentityInv, Identities
  <1>5. Identities'
    BY <1>2, <1>3, <1>4 DEF Identities
  <1>6. ASSUME NEW r \in Reqs, Op[r].kind = "google", session'[r] # None
        PROVE  session'[r] = link'[Op[r].sub] \/ Op[r].sub \in contended'
    <2>1. session[r] = link[Op[r].sub] \/ Op[r].sub \in contended
      BY <1>6 DEF IdentityInv, OneIdentity
    <2>2. link[Op[r].sub] # None => link'[Op[r].sub] = link[Op[r].sub]
      BY <1>1, <1>6 DEF SignInTypeOK
    <2> QED BY <1>6, <2>1, <2>2
  <1> QED BY <1>5, <1>6 DEF IdentityInv, OneIdentity

LEMMA IdentityStep ==
  ASSUME Placed, SignInTypeOK, Accounted, IdentityInv, [Next]_allVars
  PROVE  IdentityInv'
  <1> USE DEF At, Goto, Become, Open, signVars, Midway
  <1>1. pc \in [Reqs -> Places] /\ who \in [Reqs -> Emails \cup {None}]
    BY DEF Placed, SignInTypeOK
  <1>2. \A r \in Reqs : /\ pc[r] \in {"byEmail", "linking", "creating"} => Op[r].kind = "google"
                        /\ pc[r] = "signedIn" => Op[r].kind \in {"register", "login", "google"}
    BY DEF Placed
  <1>3. ASSUME UNCHANGED <<link, contended>>,
               \A r \in Reqs : \/ Op[r].kind = "google" => who'[r] = who[r] /\ pc'[r] \in {pc[r], "done"}
                               \/ pc'[r] \notin {"byEmail", "linking", "creating", "signedIn"},
               \A r \in Reqs : Op[r].kind # "google" => pc'[r] \notin {"byEmail", "linking", "creating"},
               \A r \in Reqs : session'[r] \in {session[r], None}
        PROVE  IdentityInv'
    BY <1>3 DEF IdentityInv, Identities, OneIdentity
  <1>4. CASE Aside
    <2>1. \A r \in Reqs : Op[r].kind # "google" => pc'[r] \notin {"byEmail", "linking", "creating"}
      BY PlacedStep DEF Placed
    <2> QED BY <1>3, <1>4, <2>1 DEF Aside
  <1>5. ASSUME NEW q \in Open, Register(q) \/ Allowed(q) \/ CheckPassword(q) \/ RecordFail(q) \/ Reset(q) PROVE IdentityInv'
    <2>1. UNCHANGED <<link, contended, session>>
      BY <1>5 DEF Register, Allowed, CheckPassword, RecordFail, Reset
    <2>2. q \in Reqs /\ Op[q].kind \in {"register", "login"}
      BY <1>5 DEF Register, Allowed, CheckPassword, RecordFail, Reset
    <2>3. \A r \in Reqs \ {q} : who'[r] = who[r] /\ pc'[r] = pc[r]
      BY <1>1, <1>5 DEF Register, Allowed, CheckPassword, RecordFail, Reset
    <2>4. pc'[q] \notin {"byEmail", "linking", "creating"}
      BY <1>1, <1>5 DEF Register, Allowed, CheckPassword, RecordFail, Reset
    <2> QED BY <1>2, <1>3, <2>1, <2>2, <2>3, <2>4
  <1>6. ASSUME NEW q \in Open, Logout(q) PROVE IdentityInv'
    <2>1. UNCHANGED <<link, contended, who>> /\ pc' = [pc EXCEPT ![q] = "done"]
      BY <1>6 DEF Logout
    <2>2. \A r \in Reqs : session'[r] \in {session[r], None}
      BY <1>6, ReqsAssumption DEF Logout, SignInTypeOK
    <2> QED BY <1>1, <1>2, <1>3, <2>1, <2>2
  <1>7. ASSUME NEW s \in Sessions, SessionExpires(s) PROVE IdentityInv'
    <2>1. UNCHANGED <<link, contended, who, pc>>
      BY <1>7 DEF SessionExpires
    <2>2. \A r \in Reqs : session'[r] \in {session[r], None}
      BY <1>7, ReqsAssumption DEF SessionExpires, SignInTypeOK
    <2> QED BY <1>1, <1>2, <1>3, <2>1, <2>2
  <1>8. CASE TimePasses
    <2>1. UNCHANGED <<link, contended, who, pc, session>>
      BY <1>8 DEF TimePasses
    <2> QED BY <1>2, <1>3, <2>1
  <1>9. ASSUME NEW q \in Open, StartSession(q) PROVE IdentityInv'
    <2>1. q \in Reqs /\ UNCHANGED <<who, link, contended>> /\ pc' = [pc EXCEPT ![q] = "done"] /\ pc[q] = "signedIn"
      BY <1>9 DEF StartSession
    <2>2. Identities'
      BY <1>1, <1>2, <2>1 DEF IdentityInv, Identities
    <2>3. \A r \in Reqs : session'[r] = session[r] \/ (r = q /\ session'[r] = who[q])
      BY <1>9, ReqsAssumption DEF StartSession, SignInTypeOK
    <2>4. Op[q].kind = "google" => who[q] = link[Op[q].sub] \/ Op[q].sub \in contended
      BY <2>1 DEF IdentityInv, Identities
    <2>5. OneIdentity'
      BY <2>1, <2>3, <2>4 DEF IdentityInv, OneIdentity
    <2> QED BY <2>2, <2>5 DEF IdentityInv
  <1>10. ASSUME NEW q \in Open, BySubject(q) PROVE IdentityInv'
    <2>1. q \in Reqs /\ Op[q].kind = "google" /\ UNCHANGED <<link, session>> /\ contended \subseteq contended'
      BY <1>10 DEF BySubject
    <2>2. \A r \in Reqs \ {q} : who'[r] = who[r] /\ pc'[r] = pc[r]
      BY <1>1, <1>10 DEF BySubject
    <2>3. \/ pc'[q] = "signedIn" /\ who'[q] = link[Op[q].sub]
          \/ pc'[q] = "byEmail" /\ link[Op[q].sub] = None
      BY <1>1, <1>10 DEF BySubject
    <2>4. ASSUME NEW r \in Reqs, Midway(r), Op[r].sub = Op[q].sub, Op[r].email # Op[q].email, r # q
          PROVE  Op[q].sub \in contended'
      <3>1. r \in Rivals(q)
        BY <1>2, <2>1, <2>4 DEF Rivals, Busy
      <3> QED BY <1>10, <3>1 DEF BySubject
    <2>5. OneIdentity'
      BY <2>1 DEF IdentityInv, OneIdentity
    <2>6. \A r \in Reqs : Op[r].kind = "google" /\ Op[r].sub \notin contended' =>
            /\ pc'[r] = "linking" => who'[r] = Op[r].email
            /\ Midway(r)' => link'[Op[r].sub] \in {None, Op[r].email}
            /\ pc'[r] = "signedIn" => who'[r] = link'[Op[r].sub]
      BY <2>1, <2>2, <2>3 DEF IdentityInv, Identities
    <2>7. \A p, r \in Reqs : Midway(p)' /\ Midway(r)' /\ Op[p].sub = Op[r].sub /\ Op[p].email # Op[r].email =>
            Op[r].sub \in contended'
      BY <2>1, <2>2, <2>4 DEF IdentityInv, Identities
    <2> QED BY <2>5, <2>6, <2>7 DEF IdentityInv, Identities
  <1>11. ASSUME NEW q \in Open, ByEmail(q) PROVE IdentityInv'
    <2>1. q \in Reqs /\ UNCHANGED <<link, session, contended>> /\ pc[q] = "byEmail"
      BY <1>11 DEF ByEmail
    <2>2. \A r \in Reqs \ {q} : who'[r] = who[r] /\ pc'[r] = pc[r]
      BY <1>1, <1>11 DEF ByEmail
    <2>3. (pc'[q] = "linking" /\ who'[q] = Op[q].email) \/ pc'[q] = "creating"
      BY <1>1, <1>11 DEF ByEmail
    <2>4. OneIdentity'
      BY <2>1 DEF IdentityInv, OneIdentity
    <2>5. Identities'
      BY <1>2, <2>1, <2>2, <2>3 DEF IdentityInv, Identities
    <2> QED BY <2>4, <2>5 DEF IdentityInv
  <1>12. ASSUME NEW q \in Open, LinkAccount(q) PROVE IdentityInv'
    <2>1. q \in Reqs /\ Op[q].kind = "google" /\ pc[q] = "linking"
      BY <1>2, <1>12 DEF LinkAccount
    <2>2. UNCHANGED <<who, session, contended>> /\ pc' = [pc EXCEPT ![q] = "signedIn"]
      BY <1>12 DEF LinkAccount
    <2>3. Op[q].sub \notin contended => who[q] = Op[q].email /\ link[Op[q].sub] \in {None, Op[q].email}
      BY <2>1 DEF IdentityInv, Identities
    <2>4. CASE link[Op[q].sub] = None
      <3>1. link' = [link EXCEPT ![Op[q].sub] = who'[q]] /\ who' = [who EXCEPT ![q] = who'[q]]
        BY <1>1, <1>12, <2>2, <2>4 DEF LinkAccount
      <3> QED BY <2>1, <2>2, <2>3, <2>4, <3>1, LinkMade
    <2>5. CASE link[Op[q].sub] # None
      <3>1. link' = link
        BY <1>12, <2>5 DEF LinkAccount, SignInTypeOK
      <3>2. OneIdentity'
        BY <2>2, <3>1 DEF IdentityInv, OneIdentity
      <3>3. Identities'
        BY <1>1, <2>1, <2>2, <2>3, <2>5, <3>1 DEF IdentityInv, Identities
      <3> QED BY <3>2, <3>3 DEF IdentityInv
    <2> QED BY <2>4, <2>5
  <1>13. ASSUME NEW q \in Open, CreateLinked(q) PROVE IdentityInv'
    <2>1. q \in Reqs /\ Op[q].kind = "google" /\ pc[q] = "creating" /\ UNCHANGED <<session, contended>>
      BY <1>2, <1>13 DEF CreateLinked
    <2>2. CASE UNCHANGED <<link, who>> /\ pc' = [pc EXCEPT ![q] = "done"]
      BY <1>1, <1>2, <1>3, <2>1, <2>2
    <2>3. CASE /\ link[Op[q].sub] = None
               /\ link' = [link EXCEPT ![Op[q].sub] = Op[q].email]
               /\ who' = [who EXCEPT ![q] = Op[q].email]
               /\ pc' = [pc EXCEPT ![q] = "signedIn"]
      <3>1. who'[q] = Op[q].email
        BY <1>1, <2>1, <2>3
      <3> QED BY <2>1, <2>3, <3>1, LinkMade
    <2> QED BY <1>13, <2>2, <2>3 DEF CreateLinked
  <1>14. CASE SignInStep
    BY <1>5, <1>6, <1>7, <1>8, <1>9, <1>10, <1>11, <1>12, <1>13, <1>14 DEF SignInStep
  <1> QED BY <1>4, <1>14, OthersAside

-----------------------------------------------------------------------------
(***************************************************************************)
(* Access                                                                  *)
(***************************************************************************)
\* What a step leaves of it that is neither the dashboard's nor a pairing's.
Still ==
  /\ UNCHANGED <<device, key, listed, print, pairing, left, minted, approver>>
  /\ live' \subseteq Devs /\ scope' \in [Keyed -> ScopeSet] /\ who' \in [Reqs -> Emails \cup {None}]
  /\ \A r \in Reqs : /\ Op[r].kind \in Dashboard => who'[r] = who[r] /\ (pc'[r] = "in" => pc[r] = "in")
                     /\ pc'[r] = "claimed" => pc[r] = "claimed"

LEMMA KeepsTypes ==
  ASSUME AccessTypeOK
  PROVE  /\ live \subseteq Devs /\ scope \in [Keyed -> ScopeSet] /\ who \in [Reqs -> Emails \cup {None}]
         /\ key \in [Keys -> KeyRows \cup {None}] /\ device \in [Devs -> DeviceRows \cup {None}]
         /\ print \in [Prints -> Emails \cup {None}]
  BY DEF AccessTypeOK, SignInTypeOK

LEMMA SignInStill ==
  ASSUME Placed, AccessTypeOK, Accounted, SignInStep, UNCHANGED accessVars
  PROVE  Still
  <1> USE DEF At, Goto, Become, Open, Dashboard
  <1>1. pc \in [Reqs -> Places] /\ who \in [Reqs -> Emails \cup {None}]
    BY DEF Placed, AccessTypeOK, SignInTypeOK
  <1>2. who' \in [Reqs -> Emails \cup {None}]
    BY SignInTypes DEF AccessTypeOK, SignInTypeOK
  <1>3. \A r \in Reqs : /\ pc[r] = "signedIn" => Op[r].kind \in {"register", "login", "google"}
                        /\ pc[r] \in {"byEmail", "linking", "creating"} => Op[r].kind = "google"
    BY DEF Placed
  <1>4. ASSUME NEW q \in Open, Register(q) \/ Logout(q) \/ StartSession(q)
        PROVE  \A r \in Reqs : /\ Op[r].kind \in Dashboard => who'[r] = who[r] /\ (pc'[r] = "in" => pc[r] = "in")
                               /\ pc'[r] = "claimed" => pc[r] = "claimed"
    BY <1>1, <1>3, <1>4 DEF Register, Logout, StartSession
  <1>5. ASSUME NEW q \in Open, Allowed(q) \/ CheckPassword(q) \/ RecordFail(q) \/ Reset(q)
        PROVE  \A r \in Reqs : /\ Op[r].kind \in Dashboard => who'[r] = who[r] /\ (pc'[r] = "in" => pc[r] = "in")
                               /\ pc'[r] = "claimed" => pc[r] = "claimed"
    BY <1>1, <1>5 DEF Allowed, CheckPassword, RecordFail, Reset
  <1>6. ASSUME NEW q \in Open, BySubject(q) \/ ByEmail(q) \/ LinkAccount(q) \/ CreateLinked(q)
        PROVE  \A r \in Reqs : /\ Op[r].kind \in Dashboard => who'[r] = who[r] /\ (pc'[r] = "in" => pc[r] = "in")
                               /\ pc'[r] = "claimed" => pc[r] = "claimed"
    BY <1>1, <1>3, <1>6 DEF BySubject, ByEmail, LinkAccount, CreateLinked
  <1>7. \A r \in Reqs : /\ Op[r].kind \in Dashboard => who'[r] = who[r] /\ (pc'[r] = "in" => pc[r] = "in")
                        /\ pc'[r] = "claimed" => pc[r] = "claimed"
    BY <1>4, <1>5, <1>6 DEF SignInStep, SessionExpires, TimePasses
  <1> QED BY <1>2, <1>7, KeepsTypes DEF Still, accessVars

LEMMA OthersStill ==
  ASSUME Placed, AccessTypeOK, Accounted, [Next]_allVars
  PROVE  Still \/ (\E r \in Open : DashboardStep(r) \/ PairStep(r)) \/ \E c \in Codes : PairingExpires(c)
  <1> USE DEF Still, At, Goto, Become, Open, restVars, accessVars
  <1>0. pc \in [Reqs -> Places]
    BY DEF Placed
  <1>1. CASE UNCHANGED <<pc, who, accessVars>>
    BY <1>1, KeepsTypes
  <1>2. CASE SignInStep /\ UNCHANGED accessVars
    BY <1>2, SignInStill
  <1>3. ASSUME NEW r \in Open, KeyByToken(r) PROVE Still
    <2>1. Op[r].kind \in Agent /\ r \in Reqs /\ UNCHANGED <<device, live, key, listed, print, pairing, left, minted, approver>>
      BY <1>3 DEF KeyByToken
    <2>2. \A q \in Reqs \ {r} : who'[q] = who[q] /\ pc'[q] = pc[q]
      BY <1>0, <1>3, KeepsTypes DEF KeyByToken
    <2>3. pc'[r] \notin {"in", "claimed"}
      BY <1>0, <1>3 DEF KeyByToken
    <2>4. who' \in [Reqs -> Emails \cup {None}] /\ scope' \in [Keyed -> ScopeSet]
      <3>1. CASE key[Op[r].key] = None
        BY <1>3, <3>1, KeepsTypes DEF KeyByToken
      <3>2. CASE key[Op[r].key] # None
        <4>1. Op[r].key \in Keys
          BY <2>1, RequestAssumption
        <4>2. key[Op[r].key] \in KeyRows
          BY <3>2, <4>1, KeepsTypes
        <4> QED BY <1>3, <3>2, <4>2, KeepsTypes DEF KeyByToken, KeyRows, ScopeSet
      <3> QED BY <3>1, <3>2
    <2> QED BY <2>1, <2>2, <2>3, <2>4, KeepsTypes DEF Agent, Dashboard
  <1>4. ASSUME NEW r \in Open, KeyDeviceIDs(r) PROVE Still
    <2>1. scope' \in [Keyed -> ScopeSet]
      BY <1>4, KeepsTypes DEF KeyDeviceIDs, ScopeSet
    <2> QED BY <1>0, <1>4, <2>1, KeepsTypes DEF KeyDeviceIDs
  <1>5. ASSUME NEW r \in Open, Permit(r) \/ HubGet(r) PROVE Still
    BY <1>0, <1>5, KeepsTypes DEF Permit, HubGet
  <1>6. ASSUME NEW r \in Open, Resolve(r) PROVE Still
    BY <1>0, <1>6, KeepsTypes DEF Resolve
  <1>7. ASSUME NEW r \in Open, AccountForKey(r) PROVE Still
    <2>0. r \in Reqs /\ Op[r].print \in Prints
      BY <1>7, RequestAssumption DEF AccountForKey
    <2>1. who' \in [Reqs -> Emails \cup {None}]
      BY <1>7, <2>0, KeepsTypes DEF AccountForKey
    <2> QED BY <1>0, <1>7, <2>1, KeepsTypes DEF AccountForKey, Dashboard
  <1>8. ASSUME NEW r \in Open, DialStep(r) PROVE Still
    BY <1>0, <1>8, KeepsTypes, RequestAssumption DEF DialStep, DeviceByToken, DeviceByHost, RegisterConn
  <1>9. ASSUME NEW d \in Devs, Disconnect(d) PROVE Still
    BY <1>9, KeepsTypes DEF Disconnect
  <1>10. ASSUME NEW r \in Reqs, SendFile(r) \/ GetFile(r) \/ SaveShot(r) \/ LinkBlob(r) \/ Send(r) \/ Deliver(r) \/ Answer(r)
         PROVE Still
    BY <1>0, <1>10, KeepsTypes DEF SendFile, GetFile, SaveShot, LinkBlob, Send, Deliver, Answer
  <1>11. ASSUME NEW r \in Reqs, \/ Fetch(r) \/ Download(r) \/ LiveScreenshot(r)
                                \/ IndexShot(r) \/ ForgetShot(r) \/ UnindexShot(r)
         PROVE Still
    BY <1>0, <1>11, KeepsTypes DEF Fetch, Download, LiveScreenshot, IndexShot, ForgetShot, UnindexShot
  <1>12. ASSUME NEW r \in Open, ReadAsDevice(r) PROVE Still
    <2>0. r \in Reqs /\ Op[r].by \in Devs
      BY <1>12, RequestAssumption DEF ReadAsDevice
    <2>1. who' \in [Reqs -> Emails \cup {None}]
      BY <1>12, <2>0, KeepsTypes DEF ReadAsDevice, DeviceRows
    <2> QED BY <1>0, <1>12, <2>1, KeepsTypes DEF ReadAsDevice, Dashboard
  <1>13. CASE Crash
    BY <1>0, <1>13, KeepsTypes DEF Crash
  <1>14. CASE FileStep
    BY <1>1, <1>10, <1>11, <1>12, <1>13, <1>14
       DEF FileStep, PutStep, DeviceStep, BlobAges, UrlExpires, ShotAges, PruneStep, SweepStep
  <1> QED
    BY <1>1, <1>2, <1>3, <1>4, <1>5, <1>6, <1>7, <1>8, <1>9, <1>14 DEF Next, AccessStep, AgentStep, allVars

LEMMA EditsKeepWho ==
  ASSUME Placed, NEW r \in Open, DashboardStep(r) \/ PairStep(r), ~Authenticate(r)
  PROVE  UNCHANGED who /\ \A q \in Reqs : pc'[q] = "in" => pc[q] = "in"
  <1> USE DEF At, Goto, Open, accessVars
  <1>0. pc \in [Reqs -> Places]
    BY DEF Placed
  <1>1. CASE CreateDevice(r) \/ RotateDeviceToken(r) \/ DeleteDevice(r)
    BY <1>0, <1>1 DEF CreateDevice, RotateDeviceToken, DeleteDevice
  <1>2. CASE BuildScope(r) \/ StoreKey(r)
    BY <1>0, <1>2 DEF BuildScope, Editors, StoreKey
  <1>3. CASE DeleteAPIKey(r) \/ AddSSHKey(r) \/ DeleteSSHKey(r)
    BY <1>0, <1>3 DEF DeleteAPIKey, AddSSHKey, DeleteSSHKey
  <1>4. CASE PairStep(r)
    BY <1>0, <1>4 DEF PairStep, PairStart, ApprovePairing, PairPoll, ConsumePairing, MintDevice
  <1> QED BY <1>1, <1>2, <1>3, <1>4 DEF DashboardStep

LEMMA AuthenticateWho ==
  ASSUME Placed, SignInTypeOK, NEW r \in Open, Authenticate(r)
  PROVE  /\ r \in Reqs /\ Op[r].kind \in Dashboard
         /\ \/ pc' = [pc EXCEPT ![r] = "done"] /\ UNCHANGED who
            \/ /\ pc' = [pc EXCEPT ![r] = "in"]
               /\ session[Op[r].by] \in accounts /\ who' = [who EXCEPT ![r] = session[Op[r].by]]
         /\ UNCHANGED signVars
  <1>1. r \in Reqs /\ Op[r].kind \in Dashboard
    BY DEF Authenticate, Open
  <1>2. Op[r].by \in Sessions
    BY <1>1, RequestAssumption
  <1> QED BY <1>1, <1>2 DEF Authenticate, Goto, Become, SignInTypeOK

LEMMA SignInTypesStep ==
  ASSUME Placed, AccessTypeOK, Accounted, [Next]_allVars
  PROVE  SignInTypeOK'
  <1>1. SignInTypeOK
    BY DEF AccessTypeOK
  <1>2. CASE SignInStep
    BY <1>1, <1>2, SignInTypes
  <1>3. CASE Aside
    <2>1. who' \in [Reqs -> Emails \cup {None}]
      <3>1. ASSUME NEW r \in Open, DashboardStep(r) \/ PairStep(r) PROVE who' \in [Reqs -> Emails \cup {None}]
        <4>1. CASE Authenticate(r)
          BY <1>1, <4>1, AuthenticateWho DEF SignInTypeOK
        <4>2. CASE ~Authenticate(r)
          BY <1>1, <3>1, <4>2, EditsKeepWho DEF SignInTypeOK
        <4> QED BY <4>1, <4>2
      <3>2. ASSUME NEW c \in Codes, PairingExpires(c) PROVE who' \in [Reqs -> Emails \cup {None}]
        BY <1>1, <3>2 DEF PairingExpires, SignInTypeOK
      <3> QED BY <3>1, <3>2, OthersStill DEF Still
    <2>2. UNCHANGED <<accounts, link, session, contended>>
      BY <1>3 DEF Aside
    <2>3. fails' \in 0..MaxFails /\ locked' \in BOOLEAN /\ burst' \in Nat /\ racing' \in Nat
      <3>1. CASE UNCHANGED limiterVars
        BY <1>1, <3>1 DEF limiterVars, SignInTypeOK
      <3> QED BY <1>3, <3>1, ClearTypes DEF Aside
    <2> QED BY <1>1, <2>1, <2>2, <2>3 DEF SignInTypeOK
  <1> QED BY <1>1, <1>2, <1>3, OthersAside

LEMMA AccountedStep ==
  ASSUME Placed, AccessTypeOK, Accounted, [Next]_allVars
  PROVE  Accounted'
  <1>1. SignInTypeOK
    BY DEF AccessTypeOK
  <1>2. CASE SignInStep
    BY <1>1, <1>2, SignInAccounted
  <1>3. CASE Aside
    <2>1. Placed' /\ UNCHANGED accounts
      BY <1>3, PlacedStep DEF Aside
    <2>2. \A r \in Reqs : pc'[r] \in {"right", "linking", "signedIn"} => who'[r] \in accounts
      BY <1>3, <2>1 DEF Accounted, Aside, Placed
    <2>3. \A r \in Reqs : Op[r].kind \in Dashboard /\ pc'[r] = "in" => who'[r] \in accounts
      <3>1. ASSUME NEW q \in Open, DashboardStep(q) \/ PairStep(q)
            PROVE  \A r \in Reqs : Op[r].kind \in Dashboard /\ pc'[r] = "in" => who'[r] \in accounts
        <4>1. CASE Authenticate(q)
          BY <1>1, <4>1, AuthenticateWho DEF SignInTypeOK, Accounted, Placed
        <4>2. CASE ~Authenticate(q)
          BY <3>1, <4>2, EditsKeepWho DEF Accounted
        <4> QED BY <4>1, <4>2
      <3>2. ASSUME NEW c \in Codes, PairingExpires(c)
            PROVE  \A r \in Reqs : Op[r].kind \in Dashboard /\ pc'[r] = "in" => who'[r] \in accounts
        BY <3>2 DEF PairingExpires, Accounted
      <3>3. CASE Still
        BY <3>3 DEF Still, Accounted
      <3> QED BY <3>1, <3>2, <3>3, OthersStill
    <2> QED BY <2>1, <2>2, <2>3 DEF Accounted
  <1> QED BY <1>1, <1>2, <1>3, OthersAside

LEMMA SignInInit1 == SignInInit => SignInTypeOK /\ Accounted
  <1> SUFFICES ASSUME SignInInit PROVE SignInTypeOK /\ Accounted
    OBVIOUS
  <1>1. fails \in 0..MaxFails /\ burst \in Nat /\ racing \in Nat
    BY MaxFailsAssumption DEF SignInInit
  <1>2. locked \in BOOLEAN
    BY Zenon DEF SignInInit
  <1>3. session \in [Sessions -> accounts \cup {None}]
    BY ReqsAssumption DEF SignInInit
  <1>4. accounts \subseteq Emails
    BY ReqsAssumption DEF SignInInit
  <1>5. /\ who \in [Reqs -> Emails \cup {None}] /\ link \in [Subjects -> accounts \cup {None}]
        /\ contended \subseteq Subjects /\ \A r \in Reqs : pc[r] \in {"away", "new"}
    BY DEF SignInInit
  <1> QED BY <1>1, <1>2, <1>3, <1>4, <1>5 DEF SignInTypeOK, Accounted

LEMMA SignInInit2 == SignInInit => Counted
  <1> SUFFICES ASSUME SignInInit PROVE Counted
    OBVIOUS
  <1>1. ~locked
    BY Zenon DEF SignInInit
  <1>2. burst = fails /\ fails < MaxFails
    BY MaxFailsAssumption DEF SignInInit
  <1> QED BY <1>1, <1>2 DEF Counted

LEMMA SignInInit3 == SignInInit => IdentityInv
  <1> SUFFICES ASSUME SignInInit PROVE IdentityInv
    OBVIOUS
  <1>1. \A r \in Reqs : pc[r] \in {"away", "new"} /\ session[r] = None
    BY ReqsAssumption DEF SignInInit
  <1> QED BY <1>1 DEF IdentityInv, Identities, OneIdentity, Midway

LEMMA AccountsGrow == ASSUME Placed, SignInTypeOK, [Next]_allVars PROVE accounts \subseteq accounts'
  <1>1. CASE SignInStep
    BY <1>1 DEF SignInStep, Register, Logout, StartSession, Allowed, CheckPassword, RecordFail, Reset,
                BySubject, ByEmail, LinkAccount, CreateLinked, SessionExpires, TimePasses, signVars
  <1>2. CASE Aside
    BY <1>2 DEF Aside
  <1> QED BY <1>1, <1>2, OthersAside

\* An account of the dashboard is one.
LEMMA WhoIn ==
  ASSUME Placed, AccessTypeOK, Accounted, NEW r \in Open, pc[r] = "in", Op[r].kind \in Dashboard
  PROVE  r \in Reqs /\ who[r] \in accounts /\ who[r] \in Emails /\ who[r] # None
  <1>1. r \in Reqs /\ who[r] \in accounts
    BY DEF Open, Accounted
  <1>2. accounts \subseteq Emails
    BY DEF AccessTypeOK, SignInTypeOK
  <1> QED BY <1>1, <1>2, NoneAssumption

LEMMA DashboardTypes ==
  ASSUME Placed, AccessTypeOK, Accounted, NEW r \in Open, DashboardStep(r), SignInTypeOK', accounts \subseteq accounts'
  PROVE  AccessTypeOK'
  <1> USE DEF At, AccessTypeOK
  <1>1. CASE Authenticate(r)
    <2>1. UNCHANGED <<device, live, key, listed, print, pairing, scope>>
      BY <1>1 DEF Authenticate
    <2>2. left' \in [Editors -> SUBSET Devs]
      <3>1. CASE r \in Editors
        <4>1. Op[r].scope.devices \in SUBSET Devs
          BY <3>1, RequestAssumption DEF ScopeSet
        <4> QED BY <1>1, <4>1 DEF Authenticate
      <3>2. CASE r \notin Editors
        BY <1>1, <3>2 DEF Authenticate
      <3> QED BY <3>1, <3>2
    <2> QED BY <2>1, <2>2
  <1>2. CASE CreateDevice(r)
    <2>1. who[r] \in Emails
      BY <1>2, WhoIn DEF CreateDevice, Dashboard
    <2>2. device' \in [Devs -> DeviceRows \cup {None}]
      BY <1>2, <2>1 DEF CreateDevice, DeviceRows
    <2>3. UNCHANGED <<live, key, listed, print, pairing, scope, left>>
      BY <1>2 DEF CreateDevice
    <2> QED BY <2>2, <2>3
  <1>3. CASE RotateDeviceToken(r)
    <2>1. device' \in [Devs -> DeviceRows \cup {None}]
      <3>1. CASE Owns(who[r], Op[r].dev) /\ Op[r].dev \in Devs
        <4>1. device[Op[r].dev] \in DeviceRows
          BY <3>1 DEF Owns
        <4>2. [device[Op[r].dev] EXCEPT !.token = @ + 1] \in DeviceRows
          BY <4>1 DEF DeviceRows
        <4>3. device' = [device EXCEPT ![Op[r].dev] = [device[Op[r].dev] EXCEPT !.token = @ + 1]]
          BY <1>3, <3>1 DEF RotateDeviceToken
        <4> QED BY <4>2, <4>3
      <3>2. CASE ~Owns(who[r], Op[r].dev)
        BY <1>3, <3>2 DEF RotateDeviceToken
      <3>3. CASE Op[r].dev \notin Devs
        BY <1>3, <3>3 DEF RotateDeviceToken
      <3> QED BY <3>1, <3>2, <3>3
    <2>2. UNCHANGED <<live, key, listed, print, pairing, scope, left>>
      BY <1>3 DEF RotateDeviceToken
    <2> QED BY <2>1, <2>2
  <1>4. CASE DeleteDevice(r)
    <2>1. device' \in [Devs -> DeviceRows \cup {None}] /\ listed' \subseteq Keys \X Devs
      BY <1>4 DEF DeleteDevice
    <2>2. UNCHANGED <<live, key, print, pairing, scope, left>>
      BY <1>4 DEF DeleteDevice
    <2> QED BY <2>1, <2>2
  <1>5. CASE BuildScope(r)
    <2>1. left' \in [Editors -> SUBSET Devs]
      BY <1>5 DEF BuildScope
    <2>2. UNCHANGED <<device, live, key, listed, print, pairing, scope>>
      BY <1>5 DEF BuildScope
    <2> QED BY <2>1, <2>2
  <1>6. CASE StoreKey(r)
    <2>1. r \in Editors /\ who[r] \in accounts /\ who[r] \in Emails
      BY <1>6, WhoIn DEF StoreKey, Editors, Dashboard
    <2>2. Op[r].key \in Keys /\ Op[r].scope \in ScopeSet
      BY <2>1, RequestAssumption
    <2>3. UNCHANGED <<device, live, print, pairing, scope, left>>
      BY <1>6 DEF StoreKey
    <2>4. KeyRow(who[r], Op[r].scope) \in KeyRows /\ KeyRow(who[r], Op[r].scope).account = who[r]
      BY <2>1, <2>2 DEF KeyRow, KeyRows, ScopeSet
    <2>5. CASE UNCHANGED <<key, listed>>
      BY <2>3, <2>5
    <2>6. CASE /\ key' = [key EXCEPT ![Op[r].key] = KeyRow(who[r], Op[r].scope)]
               /\ \E ds \in SUBSET Devs : listed' = {p \in listed : p[1] # Op[r].key} \cup ({Op[r].key} \X ds)
      <3>1. key' \in [Keys -> KeyRows \cup {None}]
        BY <2>2, <2>4, <2>6
      <3>2. \A k \in Keys : key'[k] # None => key'[k].account \in accounts
        BY <2>1, <2>2, <2>4, <2>6
      <3>3. listed' \subseteq Keys \X Devs
        BY <2>2, <2>6
      <3> QED BY <2>3, <3>1, <3>2, <3>3
    <2>7. (IF Op[r].scope.allDevices THEN {} ELSE Op[r].scope.devices) \in SUBSET Devs
      BY <2>2 DEF ScopeSet
    <2> QED BY <1>6, <2>5, <2>6, <2>7 DEF StoreKey
  <1>7. CASE DeleteAPIKey(r)
    <2>1. key' \in [Keys -> KeyRows \cup {None}] /\ listed' \subseteq Keys \X Devs
      BY <1>7 DEF DeleteAPIKey
    <2>2. \A k \in Keys : key'[k] # None => key'[k].account \in accounts
      BY <1>7 DEF DeleteAPIKey
    <2>3. UNCHANGED <<device, live, print, pairing, scope, left>>
      BY <1>7 DEF DeleteAPIKey
    <2> QED BY <2>1, <2>2, <2>3
  <1>8. CASE AddSSHKey(r)
    <2>1. who[r] \in Emails
      BY <1>8, WhoIn DEF AddSSHKey, Dashboard
    <2>2. print' \in [Prints -> Emails \cup {None}]
      BY <1>8, <2>1 DEF AddSSHKey
    <2>3. UNCHANGED <<device, live, key, listed, pairing, scope, left>>
      BY <1>8 DEF AddSSHKey
    <2> QED BY <2>2, <2>3
  <1>9. CASE DeleteSSHKey(r)
    <2>1. print' \in [Prints -> Emails \cup {None}]
      BY <1>9 DEF DeleteSSHKey
    <2>2. UNCHANGED <<device, live, key, listed, pairing, scope, left>>
      BY <1>9 DEF DeleteSSHKey
    <2> QED BY <2>1, <2>2
  <1> QED BY <1>1, <1>2, <1>3, <1>4, <1>5, <1>6, <1>7, <1>8, <1>9 DEF DashboardStep

LEMMA PairTypes ==
  ASSUME Placed, AccessTypeOK, Accounted, PairedOnce, NEW r \in Open, PairStep(r), SignInTypeOK', accounts \subseteq accounts'
  PROVE  AccessTypeOK'
  <1> USE DEF At, AccessTypeOK
  <1> DEFINE c == Op[r].code
  <1>1. CASE PairStart(r)
    <2>1. [status |-> "pending", owner |-> None, consumed |-> FALSE] \in PairingRows
      BY DEF PairingRows
    <2>2. pairing' \in [Codes -> PairingRows \cup {None}]
      BY <1>1, <2>1 DEF PairStart
    <2>3. UNCHANGED <<device, live, key, listed, print, scope, left>>
      BY <1>1 DEF PairStart
    <2> QED BY <2>2, <2>3
  <1>2. CASE ApprovePairing(r)
    <2>1. UNCHANGED <<device, live, key, listed, print, scope, left>>
      BY <1>2 DEF ApprovePairing
    <2>2. who[r] \in Emails
      BY <1>2, WhoIn DEF ApprovePairing, Dashboard
    <2>3. CASE Is(c, "pending") /\ c \in Codes
      <3>1. pairing[c] \in PairingRows
        BY <2>3 DEF Is
      <3>2. [pairing[c] EXCEPT !.status = "approved", !.owner = who[r]] \in PairingRows
        BY <2>2, <3>1 DEF PairingRows
      <3>3. pairing' = [pairing EXCEPT ![c] = [pairing[c] EXCEPT !.status = "approved", !.owner = who[r]]]
        BY <1>2, <2>3 DEF ApprovePairing
      <3>4. pairing' \in [Codes -> PairingRows \cup {None}]
        BY <3>2, <3>3
      <3> QED BY <2>1, <3>4
    <2>4. CASE ~Is(c, "pending") \/ c \notin Codes
      <3>1. pairing' = pairing
        BY <1>2, <2>4 DEF ApprovePairing
      <3> QED BY <2>1, <3>1
    <2> QED BY <2>3, <2>4
  <1>3. CASE PairPoll(r)
    BY <1>3 DEF PairPoll, accessVars
  <1>4. CASE ConsumePairing(r)
    <2>1. UNCHANGED <<device, live, key, listed, print, scope, left>>
      BY <1>4 DEF ConsumePairing
    <2>2. CASE pairing' = pairing
      BY <2>1, <2>2
    <2>3. CASE Is(c, "approved") /\ pairing' = [pairing EXCEPT ![c].consumed = TRUE] /\ c \in Codes
      <3>1. pairing[c] \in PairingRows
        BY <2>3 DEF Is
      <3>2. [pairing[c] EXCEPT !.consumed = TRUE] \in PairingRows
        BY <3>1 DEF PairingRows
      <3>3. pairing' = [pairing EXCEPT ![c] = [pairing[c] EXCEPT !.consumed = TRUE]]
        BY <2>3
      <3>4. pairing' \in [Codes -> PairingRows \cup {None}]
        BY <3>2, <3>3
      <3> QED BY <2>1, <3>4
    <2>4. c \notin Codes => pairing' = pairing
      BY <1>4 DEF ConsumePairing
    <2> QED BY <1>4, <2>2, <2>3, <2>4 DEF ConsumePairing
  <1>5. CASE MintDevice(r)
    <2>1. UNCHANGED <<live, key, listed, print, pairing, scope, left>>
      BY <1>5 DEF MintDevice
    <2>2. CASE device' = device
      BY <2>1, <2>2
    <2>3. CASE pairing[c] # None /\ device' = [device EXCEPT ![Op[r].dev] = [owner |-> pairing[c].owner, token |-> 1]]
      <3>0. c \in Codes
        BY <1>5, RequestAssumption DEF MintDevice, Open
      <3>1. Claimant(c, r) /\ r \in Reqs
        BY <1>5 DEF MintDevice, Claimant, Open
      <3>2. pairing[c].consumed
        BY <2>3, <3>0, <3>1 DEF PairedOnce, Settled
      <3>3. pairing[c].owner = approver[c] /\ approver[c] # None /\ approver \in [Codes -> Emails \cup {None}]
        BY <2>3, <3>0, <3>2 DEF PairedOnce, Settled
      <3>4. [owner |-> pairing[c].owner, token |-> 1] \in DeviceRows
        BY <3>0, <3>3 DEF DeviceRows
      <3>5. device' \in [Devs -> DeviceRows \cup {None}]
        BY <2>3, <3>4
      <3> QED BY <2>1, <3>5
    <2> QED BY <1>5, <2>2, <2>3 DEF MintDevice
  <1> QED BY <1>1, <1>2, <1>3, <1>4, <1>5 DEF PairStep

LEMMA ExpiresTypes ==
  ASSUME AccessTypeOK, NEW c \in Codes, PairingExpires(c), SignInTypeOK', accounts \subseteq accounts'
  PROVE  AccessTypeOK'
  <1> USE DEF AccessTypeOK
  <1>1. UNCHANGED <<device, live, key, listed, print, scope, left>> /\ pairing[c] \in PairingRows
    BY DEF PairingExpires
  <1>2. [pairing[c] EXCEPT !.status = "expired"] \in PairingRows
    BY <1>1 DEF PairingRows
  <1>3. pairing' = [pairing EXCEPT ![c] = [pairing[c] EXCEPT !.status = "expired"]] \/ pairing' = [pairing EXCEPT ![c] = None]
    BY DEF PairingExpires
  <1>4. pairing' \in [Codes -> PairingRows \cup {None}]
    BY <1>2, <1>3
  <1> QED BY <1>1, <1>4

LEMMA AccessTypesStep ==
  ASSUME Placed, AccessTypeOK, Accounted, PairedOnce, [Next]_allVars
  PROVE  AccessTypeOK'
  <1>1. SignInTypeOK' /\ accounts \subseteq accounts'
    BY SignInTypesStep, AccountsGrow DEF AccessTypeOK
  <1>2. CASE Still
    BY <1>1, <1>2 DEF Still, AccessTypeOK
  <1> QED BY <1>1, <1>2, OthersStill, DashboardTypes, PairTypes, ExpiresTypes

\* A request that is done stays done, none becomes new, and one that waits for
\* its device has nothing else to do.
Onward ==
  \A r \in Reqs :
    /\ pc[r] = "done" => pc'[r] = "done"
    /\ pc'[r] = "new" => pc[r] = "new"
    /\ pc[r] = "waiting" => pc'[r] \in {"waiting", "done"}

LEMMA AlwaysOnward == ASSUME Placed, [Next]_allVars PROVE Onward
  <1> USE DEF Onward, At, Goto, Open
  <1>0. pc \in [Reqs -> Places]
    BY DEF Placed
  <1>1. CASE UNCHANGED pc
    BY <1>1
  <1>2. CASE SignInStep
    <2>1. ASSUME NEW r \in Open, Register(r) \/ Logout(r) \/ StartSession(r) PROVE Onward
      BY <1>0, <2>1 DEF Register, Logout, StartSession
    <2>2. ASSUME NEW r \in Open, Allowed(r) \/ CheckPassword(r) \/ RecordFail(r) \/ Reset(r) PROVE Onward
      BY <1>0, <2>2 DEF Allowed, CheckPassword, RecordFail, Reset
    <2>3. ASSUME NEW r \in Open, BySubject(r) \/ ByEmail(r) \/ LinkAccount(r) \/ CreateLinked(r) PROVE Onward
      BY <1>0, <2>3 DEF BySubject, ByEmail, LinkAccount, CreateLinked
    <2> QED BY <1>1, <1>2, <2>1, <2>2, <2>3 DEF SignInStep, SessionExpires, TimePasses
  <1>3. ASSUME NEW r \in Open, DashboardStep(r) PROVE Onward
    BY <1>0, <1>3 DEF DashboardStep, Authenticate, CreateDevice, RotateDeviceToken, DeleteDevice, BuildScope,
             StoreKey, DeleteAPIKey, AddSSHKey, DeleteSSHKey
  <1>4. ASSUME NEW r \in Open, PairStep(r) PROVE Onward
    BY <1>0, <1>4 DEF PairStep, PairStart, ApprovePairing, PairPoll, ConsumePairing, MintDevice
  <1>5. ASSUME NEW r \in Open, AgentStep(r) \/ DialStep(r) PROVE Onward
    BY <1>0, <1>5 DEF AgentStep, KeyByToken, KeyDeviceIDs, Permit, AccountForKey, Resolve, HubGet,
             DialStep, DeviceByToken, DeviceByHost, RegisterConn
  <1>6. ASSUME NEW r \in Reqs, SendFile(r) \/ GetFile(r) \/ SaveShot(r) \/ LinkBlob(r) \/ Send(r) \/ Deliver(r) \/ Answer(r)
        PROVE Onward
    BY <1>0, <1>6 DEF SendFile, GetFile, SaveShot, LinkBlob, Send, Deliver, Answer
  <1>7. ASSUME NEW r \in Reqs, \/ Fetch(r) \/ ReadAsDevice(r) \/ Download(r) \/ LiveScreenshot(r)
                               \/ IndexShot(r) \/ ForgetShot(r) \/ UnindexShot(r)
        PROVE Onward
    BY <1>0, <1>7 DEF Fetch, ReadAsDevice, Download, LiveScreenshot, IndexShot, ForgetShot, UnindexShot
  <1>8. CASE Crash
    BY <1>0, <1>8 DEF Crash
  <1>9. CASE FileStep
    BY <1>1, <1>6, <1>7, <1>8, <1>9 DEF FileStep, PutStep, DeviceStep, BlobAges, UrlExpires, ShotAges, PruneStep, SweepStep
  <1> QED
    BY <1>1, <1>2, <1>3, <1>4, <1>5, <1>9 DEF Next, AccessStep, PairingExpires, Disconnect, allVars

-----------------------------------------------------------------------------
(***************************************************************************)
(* Devices change hands at no step                                         *)
(***************************************************************************)
Kept ==
  \A d \in Devs :
    /\ Made(d) => Made(d)'
    /\ device'[d] # None => Made(d)'
    /\ Made(d) /\ device'[d] # None => device[d] # None /\ device'[d].owner = device[d].owner
    /\ device[d] # None => device'[d] # None \/ \E r \in Open : DeleteDevice(r) /\ Op[r].dev = d

LEMMA NewDevice ==
  ASSUME Placed, AccessTypeOK, DevicesMade, Onward, NEW r \in Makers, pc[r] # "done", pc'[r] = "done",
         NEW a, device' = [device EXCEPT ![Op[r].dev] = [owner |-> a, token |-> 1]], a \in Emails
  PROVE  Kept
  <1> USE DEF AccessTypeOK, Made
  <1>1. Op[r].dev \in Devs /\ ~Made(Op[r].dev) /\ Made(Op[r].dev)'
    BY RequestAssumption
  <1>2. [owner |-> a, token |-> 1] # None
    BY RequestAssumption DEF DeviceRows
  <1>3. \A d \in Devs : Made(d) => Made(d)'
    BY DEF Onward, Makers
  <1> QED BY <1>1, <1>2, <1>3 DEF Kept, DevicesMade

LEMMA DevicesKept ==
  ASSUME Placed, AccessTypeOK, Accounted, PairedOnce, DevicesMade, [Next]_allVars
  PROVE  Kept
  <1> USE DEF At, Goto
  <1>1. Onward /\ \A d \in Devs : Made(d) => Made(d)'
    BY AlwaysOnward DEF Onward, Made, Makers
  <1>2. CASE UNCHANGED device
    BY <1>1, <1>2 DEF Kept, DevicesMade
  <1>3. ASSUME NEW r \in Open, CreateDevice(r) PROVE Kept
    <2>1. who[r] \in Emails
      BY <1>3, WhoIn DEF CreateDevice, Dashboard
    <2>2. r \in Makers /\ pc[r] # "done" /\ pc'[r] = "done"
      BY <1>3 DEF CreateDevice, Makers, Open, Placed
    <2> QED BY <1>1, <1>3, <2>1, <2>2, NewDevice DEF CreateDevice
  <1>4. ASSUME NEW r \in Open, RotateDeviceToken(r) PROVE Kept
    <2>1. ASSUME NEW d \in Devs, device[d] # None
          PROVE  device'[d] # None /\ device'[d].owner = device[d].owner
      <3>1. device[d] \in DeviceRows
        BY <2>1 DEF AccessTypeOK
      <3>2. device'[d] \in {device[d], [device[d] EXCEPT !.token = @ + 1]}
        BY <1>4 DEF RotateDeviceToken, AccessTypeOK
      <3>3. [device[d] EXCEPT !.token = @ + 1] \in DeviceRows /\ [device[d] EXCEPT !.token = @ + 1].owner = device[d].owner
        BY <3>1 DEF DeviceRows
      <3> QED BY <3>1, <3>2, <3>3, RequestAssumption
    <2>2. ASSUME NEW d \in Devs, device[d] = None PROVE device'[d] = None
      BY <1>4, <2>2 DEF RotateDeviceToken, AccessTypeOK, Owns
    <2> QED BY <1>1, <2>1, <2>2 DEF Kept, DevicesMade
  <1>5. ASSUME NEW r \in Open, DeleteDevice(r) PROVE Kept
    <2>1. \A d \in Devs : device'[d] = device[d] \/ (device'[d] = None /\ d = Op[r].dev)
      BY <1>5 DEF DeleteDevice, AccessTypeOK
    <2> QED BY <1>1, <1>5, <2>1 DEF Kept, DevicesMade
  <1>6. ASSUME NEW r \in Open, MintDevice(r) PROVE Kept
    <2>1. r \in Makers /\ pc[r] # "done" /\ pc'[r] = "done" /\ Op[r].code \in Codes /\ Claimant(Op[r].code, r) /\ r \in Reqs
      BY <1>6, RequestAssumption DEF MintDevice, Makers, Open, Placed, Claimant
    <2>2. pairing[Op[r].code] # None => pairing[Op[r].code].owner \in Emails
      BY <2>1 DEF PairedOnce, Settled
    <2> QED BY <1>1, <1>2, <1>6, <2>1, <2>2, NewDevice DEF MintDevice
  <1>7. ASSUME NEW r \in Open, DashboardStep(r) \/ PairStep(r) PROVE Kept
    <2>1. CASE Authenticate(r) \/ BuildScope(r) \/ StoreKey(r) \/ DeleteAPIKey(r) \/ AddSSHKey(r) \/ DeleteSSHKey(r)
      BY <1>2, <2>1 DEF Authenticate, BuildScope, StoreKey, DeleteAPIKey, AddSSHKey, DeleteSSHKey
    <2>2. CASE PairStart(r) \/ ApprovePairing(r) \/ PairPoll(r) \/ ConsumePairing(r)
      BY <1>2, <2>2 DEF PairStart, ApprovePairing, PairPoll, ConsumePairing, accessVars
    <2> QED BY <1>3, <1>4, <1>5, <1>6, <1>7, <2>1, <2>2 DEF DashboardStep, PairStep
  <1>8. CASE Still
    BY <1>2, <1>8 DEF Still
  <1>9. ASSUME NEW c \in Codes, PairingExpires(c) PROVE Kept
    BY <1>2, <1>9 DEF PairingExpires
  <1> QED BY <1>7, <1>8, <1>9, OthersStill

-----------------------------------------------------------------------------
(***************************************************************************)
(* Pairings                                                                *)
(***************************************************************************)
LEMMA PairedQuiet ==
  ASSUME PairedOnce, Onward, UNCHANGED <<pairing, minted, approver>>,
         \A r \in Reqs : pc'[r] = "claimed" => pc[r] = "claimed"
  PROVE  PairedOnce'
  BY DEF PairedOnce, Unstarted, Settled, OneClaim, OneMinted, Onward, Claimant

LEMMA PairedStep ==
  ASSUME Placed, AccessTypeOK, Accounted, PairedOnce, [Next]_allVars
  PROVE  PairedOnce'
  <1> USE DEF At, Goto, Unstarted, Settled, OneClaim, OneMinted
  <1>0. Onward /\ pc \in [Reqs -> Places] /\ pairing \in [Codes -> PairingRows \cup {None}]
    BY AlwaysOnward DEF Placed, AccessTypeOK
  <1>1. minted \in [Codes -> SUBSET Devs] /\ approver \in [Codes -> Emails \cup {None}]
    BY DEF PairedOnce
  <1>2. CASE Still
    BY <1>0, <1>2, PairedQuiet DEF Still
  <1>3. ASSUME NEW r \in Open, DashboardStep(r), ~ApprovePairing(r) PROVE PairedOnce'
    <2>1. CASE Authenticate(r) \/ CreateDevice(r) \/ RotateDeviceToken(r) \/ DeleteDevice(r)
      <3>1. UNCHANGED <<pairing, minted, approver>> /\ \A q \in Reqs : pc'[q] = "claimed" => pc[q] = "claimed"
        BY <1>0, <2>1 DEF Authenticate, CreateDevice, RotateDeviceToken, DeleteDevice
      <3> QED BY <1>0, <3>1, PairedQuiet
    <2>2. CASE BuildScope(r) \/ StoreKey(r) \/ DeleteAPIKey(r) \/ AddSSHKey(r) \/ DeleteSSHKey(r)
      <3>1. UNCHANGED <<pairing, minted, approver>> /\ \A q \in Reqs : pc'[q] = "claimed" => pc[q] = "claimed"
        BY <1>0, <2>2 DEF BuildScope, StoreKey, DeleteAPIKey, AddSSHKey, DeleteSSHKey
      <3> QED BY <1>0, <3>1, PairedQuiet
    <2> QED BY <1>3, <2>1, <2>2 DEF DashboardStep
  <1>4. ASSUME NEW r \in Open, PairStart(r) PROVE PairedOnce'
    <2> DEFINE c == Op[r].code
    <2>1. r \in Reqs /\ Op[r].kind = "pair" /\ pc[r] = "new" /\ pc' = [pc EXCEPT ![r] = "done"]
      BY <1>4 DEF PairStart, Open
    <2>2. c \in Codes
      BY <2>1, RequestAssumption
    <2>3. UNCHANGED <<minted, approver>>
          /\ pairing' = [pairing EXCEPT ![c] = [status |-> "pending", owner |-> None, consumed |-> FALSE]]
      BY <1>4 DEF PairStart
    <2>4. pairing[c] = None /\ minted[c] = {} /\ approver[c] = None /\ \A q \in Reqs : ~Claimant(c, q)
      BY <2>1, <2>2 DEF PairedOnce
    <2>5. \A q \in Reqs : Op[q].kind = "pair" /\ pc'[q] = "new" => Op[q].code # c /\ pc[q] = "new"
      BY <1>0, <2>1, RequestAssumption
    <2>6. \A d \in Codes, q \in Reqs : Claimant(d, q)' => Claimant(d, q)
      BY <1>0, <2>1 DEF Claimant
    <2>7. pairing'[c].owner = None /\ pairing'[c].status = "pending" /\ ~pairing'[c].consumed
      BY <1>0, <2>2, <2>3
    <2>8. \A d \in Codes \ {c} : pairing'[d] = pairing[d]
      BY <1>0, <2>3
    <2>9. Unstarted'
      BY <2>3, <2>5, <2>6, <2>8 DEF PairedOnce
    <2>10. Settled'
      BY <2>3, <2>4, <2>6, <2>7, <2>8 DEF PairedOnce
    <2>11. OneClaim'
      BY <2>3, <2>6 DEF PairedOnce
    <2> QED BY <1>1, <2>3, <2>9, <2>10, <2>11 DEF PairedOnce
  <1>5. ASSUME NEW r \in Open, ApprovePairing(r) PROVE PairedOnce'
    <2> DEFINE c == Op[r].code
    <2>1. r \in Reqs /\ pc' = [pc EXCEPT ![r] = "done"] /\ UNCHANGED minted
      BY <1>5 DEF ApprovePairing, Open
    <2>2. \A q \in Reqs : pc'[q] = "claimed" => pc[q] = "claimed"
      BY <1>0, <2>1
    <2>3. CASE UNCHANGED <<pairing, approver>>
      BY <1>0, <2>1, <2>2, <2>3, PairedQuiet
    <2>4. CASE /\ Is(c, "pending") /\ c \in Codes
               /\ pairing' = [pairing EXCEPT ![c].status = "approved", ![c].owner = who[r]]
               /\ approver' = [approver EXCEPT ![c] = IF @ = None THEN who[r] ELSE @]
      <3>1. pairing[c] \in PairingRows /\ pairing[c].status = "pending" /\ who[r] \in Emails /\ who[r] # None
        BY <1>0, <1>5, <2>4, WhoIn DEF Is, ApprovePairing, Dashboard
      <3>2. ~pairing[c].consumed /\ approver[c] = None /\ minted[c] = {} /\ \A q \in Reqs : ~Claimant(c, q)
        BY <2>4, <3>1 DEF PairedOnce, Is
      <3>3. pairing'[c].owner = who[r] /\ pairing'[c].status = "approved" /\ ~pairing'[c].consumed
        BY <1>0, <2>4, <3>1, <3>2 DEF PairingRows
      <3>4. approver'[c] = who[r] /\ approver' \in [Codes -> Emails \cup {None}]
        BY <1>1, <2>4, <3>1, <3>2
      <3>5. \A d \in Codes \ {c} : pairing'[d] = pairing[d] /\ approver'[d] = approver[d]
        BY <1>0, <1>1, <2>4
      <3>6. \A d \in Codes, q \in Reqs : Claimant(d, q)' => Claimant(d, q)
        BY <2>2 DEF Claimant
      <3>7. \A q \in Reqs : Op[q].kind = "pair" /\ pc'[q] = "new" => Op[q].code # c /\ pc[q] = "new"
        BY <1>0, <2>1, <2>4 DEF PairedOnce, Onward, Is
      <3>8. Unstarted'
        BY <2>1, <3>5, <3>6, <3>7 DEF PairedOnce
      <3>9. Settled'
        BY <2>1, <3>1, <3>2, <3>3, <3>4, <3>5, <3>6 DEF PairedOnce
      <3>10. OneClaim'
        BY <2>1, <3>6 DEF PairedOnce
      <3> QED BY <1>1, <2>1, <3>4, <3>8, <3>9, <3>10 DEF PairedOnce
    <2>5. c \in Codes
      BY <1>5, RequestAssumption DEF ApprovePairing, Open
    <2> QED BY <1>5, <2>3, <2>4, <2>5 DEF ApprovePairing
  <1>6. ASSUME NEW r \in Open, PairPoll(r) PROVE PairedOnce'
    <2>1. UNCHANGED <<pairing, minted, approver>> /\ \A q \in Reqs : pc'[q] = "claimed" => pc[q] = "claimed"
      BY <1>0, <1>6 DEF PairPoll, accessVars
    <2> QED BY <1>0, <2>1, PairedQuiet
  <1>7. ASSUME NEW r \in Open, ConsumePairing(r) PROVE PairedOnce'
    <2> DEFINE c == Op[r].code
    <2>1. r \in Reqs /\ Op[r].kind = "poll" /\ pc[r] = "approved" /\ UNCHANGED <<minted, approver>>
      BY <1>7 DEF ConsumePairing, Open
    <2>2. CASE UNCHANGED pairing /\ pc' = [pc EXCEPT ![r] = "done"]
      BY <1>0, <2>1, <2>2, PairedQuiet
    <2>3. CASE /\ Is(c, "approved") /\ ~pairing[c].consumed
               /\ pairing' = [pairing EXCEPT ![c].consumed = TRUE] /\ pc' = [pc EXCEPT ![r] = "claimed"]
      <3>1. c \in Codes
        BY <2>1, RequestAssumption
      <3>2. pairing[c] \in PairingRows /\ pairing[c] # None /\ pairing[c].status = "approved"
        BY <1>0, <2>3, <3>1 DEF Is
      <3>3. approver[c] # None /\ pairing[c].owner = approver[c] /\ minted[c] = {} /\ \A q \in Reqs : ~Claimant(c, q)
        BY <2>3, <3>1, <3>2 DEF PairedOnce
      <3>4. pairing'[c].owner = approver[c] /\ pairing'[c].status = "approved" /\ pairing'[c].consumed
        BY <1>0, <2>3, <3>1, <3>2, <3>3 DEF PairingRows
      <3>5. \A d \in Codes \ {c} : pairing'[d] = pairing[d]
        BY <1>0, <2>3
      <3>6. \A d \in Codes, q \in Reqs : Claimant(d, q)' => Claimant(d, q) \/ (d = c /\ q = r)
        BY <1>0, <2>1, <2>3 DEF Claimant
      <3>7. \A q \in Reqs : Op[q].kind = "pair" /\ pc'[q] = "new" => Op[q].code # c /\ pc[q] = "new"
        BY <1>0, <3>1, <3>2 DEF PairedOnce, Onward
      <3>8. Unstarted'
        BY <2>1, <3>5, <3>6, <3>7 DEF PairedOnce
      <3>9. Settled'
        BY <2>1, <3>3, <3>4, <3>5, <3>6 DEF PairedOnce
      <3>10. OneClaim'
        BY <2>1, <3>3, <3>6 DEF PairedOnce
      <3> QED BY <1>1, <2>1, <3>8, <3>9, <3>10 DEF PairedOnce
    <2> QED BY <1>7, <2>2, <2>3 DEF ConsumePairing
  <1>8. ASSUME NEW r \in Open, MintDevice(r) PROVE PairedOnce'
    <2> DEFINE c == Op[r].code
    <2>1. r \in Reqs /\ Claimant(c, r) /\ pc' = [pc EXCEPT ![r] = "done"] /\ UNCHANGED <<pairing, approver>>
      BY <1>8 DEF MintDevice, Open, Claimant
    <2>2. c \in Codes /\ Op[r].dev \in Devs
      BY <2>1, RequestAssumption DEF Claimant, Makers
    <2>3. CASE UNCHANGED minted
      BY <1>0, <2>1, <2>3, PairedQuiet
    <2>4. CASE minted' = [minted EXCEPT ![c] = @ \cup {Op[r].dev}]
      <3>1. minted[c] = {} /\ \A q \in Reqs : Claimant(c, q) => q = r
        BY <2>1, <2>2 DEF PairedOnce
      <3>2. minted'[c] = {Op[r].dev} /\ minted' \in [Codes -> SUBSET Devs]
        BY <1>1, <2>2, <2>4, <3>1
      <3>3. \A d \in Codes \ {c} : minted'[d] = minted[d]
        BY <1>1, <2>4
      <3>4. \A d \in Codes, q \in Reqs : Claimant(d, q)' => Claimant(d, q) /\ d # c
        BY <1>0, <2>1, <3>1 DEF Claimant
      <3>5. pairing[c] # None => pairing[c].consumed
        BY <2>1, <2>2 DEF PairedOnce
      <3>6. \A q \in Reqs : Op[q].kind = "pair" /\ pc'[q] = "new" => Op[q].code # c /\ pc[q] = "new"
        BY <1>0, <2>1, <2>2 DEF PairedOnce, Onward
      <3>7. Unstarted'
        BY <2>1, <3>3, <3>4, <3>6 DEF PairedOnce
      <3>8. Settled'
        BY <2>1, <3>3, <3>4, <3>5 DEF PairedOnce
      <3>9. OneClaim'
        BY <3>3, <3>4 DEF PairedOnce
      <3>10. OneMinted'
        BY <3>2, <3>3 DEF PairedOnce
      <3> QED BY <1>1, <2>1, <3>2, <3>7, <3>8, <3>9, <3>10 DEF PairedOnce
    <2> QED BY <1>8, <2>3, <2>4 DEF MintDevice
  <1>9. ASSUME NEW c \in Codes, PairingExpires(c) PROVE PairedOnce'
    <2>1. UNCHANGED <<pc, minted, approver>> /\ pairing[c] # None /\ pairing[c] \in PairingRows
      BY <1>0, <1>9 DEF PairingExpires
    <2>2. \/ pairing'[c] = None
          \/ /\ pairing'[c].owner = pairing[c].owner /\ pairing'[c].status = "expired"
             /\ pairing'[c].consumed = pairing[c].consumed
      BY <1>0, <1>9, <2>1 DEF PairingExpires, PairingRows
    <2>3. \A d \in Codes \ {c} : pairing'[d] = pairing[d]
      BY <1>0, <1>9 DEF PairingExpires
    <2>4. \A d \in Codes, q \in Reqs : Claimant(d, q)' <=> Claimant(d, q)
      BY <2>1 DEF Claimant
    <2>5. \A d \in Codes, q \in Reqs : Op[q].kind = "pair" /\ Op[q].code = d /\ pc'[q] = "new" => pairing'[d] = None
      BY <2>1, <2>3 DEF PairedOnce
    <2>6. Settled'
      BY <2>1, <2>2, <2>3, <2>4 DEF PairedOnce
    <2> QED BY <2>1, <2>4, <2>5, <2>6 DEF PairedOnce
  <1> QED BY <1>2, <1>3, <1>4, <1>5, <1>6, <1>7, <1>8, <1>9, OthersStill DEF PairStep

\* What a pairing made stays its approver's.
LEMMA PairedForApprover ==
  ASSUME Placed, AccessTypeOK, Accounted, PairedOnce, DevicesMade, Paired, [Next]_allVars
  PROVE  Paired'
  <1> USE DEF At, Goto
  <1>0. Kept /\ minted \in [Codes -> SUBSET Devs] /\ approver \in [Codes -> Emails \cup {None}]
    BY DevicesKept DEF PairedOnce
  <1>1. CASE UNCHANGED <<minted, approver>>
    BY <1>0, <1>1 DEF Kept, Paired
  <1>2. ASSUME NEW r \in Open, ApprovePairing(r) PROVE Paired'
    <2>1. UNCHANGED <<device, minted>>
      BY <1>2 DEF ApprovePairing
    <2>2. \A c \in Codes : approver'[c] = approver[c] \/ minted[c] = {}
      <3> SUFFICES ASSUME NEW c \in Codes, approver'[c] # approver[c] PROVE minted[c] = {}
        OBVIOUS
      <3>1. c = Op[r].code /\ Is(c, "pending")
        BY <1>0, <1>2 DEF ApprovePairing
      <3> QED BY <3>1 DEF PairedOnce, Settled, Is
    <2> QED BY <1>0, <2>1, <2>2 DEF Kept, Paired
  <1>3. ASSUME NEW r \in Open, MintDevice(r) PROVE Paired'
    <2> DEFINE c == Op[r].code
    <2>1. r \in Reqs /\ Claimant(c, r) /\ pc' = [pc EXCEPT ![r] = "done"] /\ UNCHANGED <<pairing, approver>>
      BY <1>3 DEF MintDevice, Open, Claimant
    <2>2. CASE UNCHANGED minted
      BY <1>1, <2>1, <2>2
    <2>3. CASE /\ pairing[c] # None
               /\ device' = [device EXCEPT ![Op[r].dev] = [owner |-> pairing[c].owner, token |-> 1]]
               /\ minted' = [minted EXCEPT ![c] = @ \cup {Op[r].dev}]
      <3>1. c \in Codes /\ Op[r].dev \in Devs /\ r \in Makers
        BY <2>1, RequestAssumption DEF Claimant, Makers
      <3>2. pairing[c].owner = approver[c] /\ minted[c] = {}
        BY <2>1, <2>3, <3>1 DEF PairedOnce, Settled, OneClaim
      <3>3. Made(Op[r].dev)' /\ device'[Op[r].dev].owner = approver[c]
        BY <2>1, <2>3, <3>1, <3>2 DEF Made, Placed, AccessTypeOK
      <3>4. ASSUME NEW b \in Codes, NEW d \in Devs, d \in minted'[b]
            PROVE  Made(d)' /\ (device'[d] # None => device'[d].owner = approver'[b])
        <4>1. CASE b = c
          BY <1>0, <2>1, <2>3, <3>2, <3>3, <3>4, <4>1
        <4>2. CASE b # c
          <5>1. d \in minted[b]
            BY <1>0, <2>3, <3>4, <4>2
          <5> QED BY <1>0, <2>1, <5>1 DEF Kept, Paired
        <4> QED BY <4>1, <4>2
      <3> QED BY <3>4 DEF Paired
    <2> QED BY <1>3, <2>2, <2>3 DEF MintDevice
  <1>4. ASSUME NEW r \in Open, DashboardStep(r) \/ PairStep(r) PROVE Paired'
    <2>1. CASE Authenticate(r) \/ CreateDevice(r) \/ RotateDeviceToken(r) \/ DeleteDevice(r) \/ BuildScope(r)
      BY <1>1, <2>1 DEF Authenticate, CreateDevice, RotateDeviceToken, DeleteDevice, BuildScope
    <2>2. CASE StoreKey(r) \/ DeleteAPIKey(r) \/ AddSSHKey(r) \/ DeleteSSHKey(r)
      BY <1>1, <2>2 DEF StoreKey, DeleteAPIKey, AddSSHKey, DeleteSSHKey
    <2>3. CASE PairStart(r) \/ PairPoll(r) \/ ConsumePairing(r)
      BY <1>1, <2>3 DEF PairStart, PairPoll, ConsumePairing, accessVars
    <2> QED BY <1>2, <1>3, <1>4, <2>1, <2>2, <2>3 DEF DashboardStep, PairStep
  <1>5. ASSUME NEW c \in Codes, PairingExpires(c) PROVE Paired'
    BY <1>1, <1>5 DEF PairingExpires
  <1>6. CASE Still
    BY <1>1, <1>6 DEF Still
  <1> QED BY <1>4, <1>5, <1>6, OthersStill

-----------------------------------------------------------------------------
(***************************************************************************)
(* Keys                                                                    *)
(***************************************************************************)
\* What buildScope has verified is still the account's when the key is stored.
LEMMA CheckedStep ==
  ASSUME Placed, AccessTypeOK, Accounted, PairedOnce, DevicesMade, Checked, [Next]_allVars
  PROVE  Checked'
  <1> USE DEF At, Goto
  <1>0. Kept /\ pc \in [Reqs -> Places] /\ left \in [Editors -> SUBSET Devs]
    BY DevicesKept DEF Placed, AccessTypeOK
  <1>1. \A r \in Editors : r \in Reqs /\ Op[r].scope \in ScopeSet /\ Op[r].kind \in Dashboard
    BY RequestAssumption DEF Editors, Dashboard
  <1>2. ASSUME UNCHANGED left, \A r \in Editors : pc'[r] = "in" => pc[r] = "in" /\ who'[r] = who[r]
        PROVE  Checked'
    <2> SUFFICES ASSUME NEW r \in Editors, pc'[r] = "in", ~Op[r].scope.allDevices,
                        NEW d \in Op[r].scope.devices \ left[r]
                 PROVE  Made(d)' /\ (device'[d] # None => device'[d].owner = who[r])
      BY <1>2 DEF Checked
    <2>1. d \in Devs
      BY <1>1 DEF ScopeSet
    <2>2. Made(d) /\ (device[d] # None => device[d].owner = who[r])
      BY <1>2 DEF Checked
    <2> QED BY <1>0, <2>1, <2>2 DEF Kept
  <1>3. ASSUME NEW q \in Open, Authenticate(q) PROVE Checked'
    <2>1. UNCHANGED device /\ Onward
      BY <1>3, AlwaysOnward DEF Authenticate
    <2> SUFFICES ASSUME NEW r \in Editors, pc'[r] = "in", ~Op[r].scope.allDevices,
                        NEW d \in Op[r].scope.devices \ left'[r]
                 PROVE  Made(d)' /\ (device'[d] # None => device'[d].owner = who'[r])
      BY DEF Checked
    <2>2. r # q
      BY <1>0, <1>1, <1>3 DEF Authenticate
    <2>3. pc[r] = "in" /\ who'[r] = who[r] /\ left'[r] = left[r]
      BY <1>0, <1>1, <1>3, <2>2, AuthenticateWho DEF Authenticate, AccessTypeOK, SignInTypeOK
    <2>4. Made(d) /\ (device[d] # None => device[d].owner = who[r])
      BY <2>3 DEF Checked
    <2>5. d \in Devs
      BY <1>1 DEF ScopeSet
    <2> QED BY <1>0, <2>1, <2>3, <2>4, <2>5 DEF Kept
  <1>4. ASSUME NEW q \in Open, BuildScope(q) PROVE Checked'
    <2>1. UNCHANGED <<device, who>>
      BY <1>4 DEF BuildScope
    <2> SUFFICES ASSUME NEW r \in Editors, pc'[r] = "in", ~Op[r].scope.allDevices,
                        NEW d \in Op[r].scope.devices \ left'[r]
                 PROVE  Made(d)' /\ (device'[d] # None => device'[d].owner = who'[r])
      BY DEF Checked
    <2>2. pc[r] = "in" /\ (d \notin left[r] \/ Owns(who[r], d))
      BY <1>0, <1>1, <1>4 DEF BuildScope
    <2>3. d \in Devs
      BY <1>1 DEF ScopeSet
    <2>4. CASE d \notin left[r]
      BY <1>0, <2>1, <2>2, <2>3, <2>4 DEF Kept, Checked
    <2>5. CASE Owns(who[r], d)
      BY <1>0, <2>1, <2>3, <2>5 DEF Kept, DevicesMade, Owns
    <2> QED BY <2>2, <2>4, <2>5
  <1>5. ASSUME NEW q \in Open, DashboardStep(q) \/ PairStep(q), ~Authenticate(q), ~BuildScope(q) PROVE Checked'
    <2>1. UNCHANGED who /\ \A r \in Reqs : pc'[r] = "in" => pc[r] = "in"
      BY <1>5, EditsKeepWho
    <2>2. CASE CreateDevice(q) \/ RotateDeviceToken(q) \/ DeleteDevice(q) \/ StoreKey(q)
      BY <1>1, <1>2, <2>1, <2>2 DEF CreateDevice, RotateDeviceToken, DeleteDevice, StoreKey
    <2>3. CASE DeleteAPIKey(q) \/ AddSSHKey(q) \/ DeleteSSHKey(q)
      BY <1>1, <1>2, <2>1, <2>3 DEF DeleteAPIKey, AddSSHKey, DeleteSSHKey
    <2>4. CASE PairStep(q)
      <3>1. UNCHANGED left
        BY <2>4 DEF PairStep, PairStart, ApprovePairing, PairPoll, ConsumePairing, MintDevice, accessVars
      <3> QED BY <1>1, <1>2, <2>1, <3>1
    <2> QED BY <1>5, <2>2, <2>3, <2>4 DEF DashboardStep
  <1>6. ASSUME NEW c \in Codes, PairingExpires(c) PROVE Checked'
    BY <1>2, <1>6 DEF PairingExpires
  <1>7. CASE Still
    BY <1>1, <1>2, <1>7 DEF Still
  <1> QED BY <1>3, <1>4, <1>5, <1>6, <1>7, OthersStill

\* A key's list names the key's account's devices: the transaction that stores
\* it finds every device it lists, and a device that is there is the one that
\* was verified.
LEMMA ListsStep ==
  ASSUME Placed, AccessTypeOK, Accounted, PairedOnce, DevicesMade, Checked, ListsApart, [Next]_allVars
  PROVE  ListsApart'
  <1> USE DEF At, Goto
  <1>0. Kept /\ key \in [Keys -> KeyRows \cup {None}] /\ listed \subseteq Keys \X Devs
    BY DevicesKept DEF AccessTypeOK
  <1>1. ASSUME NEW p \in listed, key'[p[1]] = key[p[1]],
               ~\E r \in Open : DeleteDevice(r) /\ Op[r].dev = p[2]
        PROVE  key'[p[1]] # None /\ Owns(key[p[1]].account, p[2])'
    <2>1. p[1] \in Keys /\ p[2] \in Devs
      BY <1>0
    <2>2. key[p[1]] # None /\ device[p[2]] # None /\ device[p[2]].owner = key[p[1]].account
      BY DEF ListsApart, Owns
    <2>3. Made(p[2])
      BY <2>1, <2>2 DEF DevicesMade
    <2>4. device'[p[2]] # None /\ device'[p[2]].owner = device[p[2]].owner
      BY <1>0, <1>1, <2>1, <2>2, <2>3 DEF Kept
    <2> QED BY <1>1, <2>2, <2>4 DEF Owns
  <1>2. ASSUME UNCHANGED <<key, listed>>, ~\E r \in Open : DeleteDevice(r) PROVE ListsApart'
    BY <1>1, <1>2 DEF ListsApart
  <1>3. ASSUME NEW q \in Open, DeleteDevice(q) PROVE ListsApart'
    <2>1. UNCHANGED key
      BY <1>3 DEF DeleteDevice
    <2>2. CASE Owns(who[q], Op[q].dev)
      <3>1. \A p \in listed' : p \in listed /\ p[2] # Op[q].dev
        BY <1>3, <2>2 DEF DeleteDevice
      <3>2. \A d \in Devs : d # Op[q].dev => device'[d] = device[d]
        BY <1>3, <2>2 DEF DeleteDevice, AccessTypeOK
      <3> QED BY <1>0, <2>1, <3>1, <3>2 DEF ListsApart, Owns
    <2>3. CASE ~Owns(who[q], Op[q].dev)
      <3>1. UNCHANGED <<device, listed>>
        BY <1>3, <2>3 DEF DeleteDevice
      <3> QED BY <2>1, <3>1 DEF ListsApart, Owns
    <2> QED BY <2>2, <2>3
  <1>4. ASSUME NEW q \in Open, StoreKey(q), ~\E r \in Open : DeleteDevice(r) PROVE ListsApart'
    <2> DEFINE k == Op[q].key
               s == Op[q].scope
    <2>1. q \in Editors /\ pc[q] = "in" /\ left[q] = {} /\ k \in Keys /\ s \in ScopeSet
      BY <1>4, RequestAssumption DEF StoreKey, Editors
    <2>2. who[q] \in Emails
      BY <1>4, <2>1, WhoIn DEF Editors, Dashboard
    <2>3. CASE UNCHANGED <<key, listed>>
      BY <1>2, <1>4, <2>3
    <2>4. ASSUME NEW ds \in SUBSET Devs, ds = IF s.allDevices THEN {} ELSE s.devices,
                 \A d \in ds : device[d] # None,
                 key' = [key EXCEPT ![k] = KeyRow(who[q], s)],
                 listed' = {p \in listed : p[1] # k} \cup ({k} \X ds)
          PROVE  ListsApart'
      <3>1. KeyRow(who[q], s) # None /\ KeyRow(who[q], s).account = who[q]
        <4>1. KeyRow(who[q], s) \in KeyRows
          BY <2>1, <2>2 DEF KeyRow, KeyRows, ScopeSet
        <4> QED BY <4>1, RequestAssumption DEF KeyRow
      <3>2. UNCHANGED device
        BY <1>4 DEF StoreKey
      <3>3. ASSUME NEW p \in listed', p[1] # k PROVE key'[p[1]] # None /\ Owns(key[p[1]].account, p[2])'
        <4>1. p \in listed
          BY <2>4, <3>3
        <4>2. key'[p[1]] = key[p[1]]
          BY <1>0, <2>4, <3>3, <4>1
        <4> QED BY <1>1, <1>4, <4>1, <4>2
      <3>4. ASSUME NEW p \in listed', p[1] = k PROVE key'[p[1]] # None /\ Owns(key[p[1]].account, p[2])'
        <4>1. p[2] \in ds
          BY <2>4, <3>4
        <4>2. ~s.allDevices /\ p[2] \in s.devices \ left[q]
          BY <2>1, <2>4, <4>1
        <4>3. device[p[2]] # None /\ device[p[2]].owner = who[q]
          BY <2>1, <2>4, <4>1, <4>2 DEF Checked
        <4>4. key'[k] = KeyRow(who[q], s)
          BY <1>0, <2>1, <2>4
        <4> QED BY <3>1, <3>2, <3>4, <4>3, <4>4 DEF Owns
      <3> QED BY <3>3, <3>4 DEF ListsApart
    <2>5. (IF s.allDevices THEN {} ELSE s.devices) \in SUBSET Devs
      BY <2>1 DEF ScopeSet
    <2> QED BY <1>4, <2>3, <2>4, <2>5 DEF StoreKey
  <1>5. ASSUME NEW q \in Open, DeleteAPIKey(q), ~\E r \in Open : DeleteDevice(r) PROVE ListsApart'
    <2>1. CASE UNCHANGED <<key, listed>>
      BY <1>2, <1>5, <2>1
    <2>2. CASE key' = [key EXCEPT ![Op[q].key] = None] /\ listed' = {p \in listed : p[1] # Op[q].key}
      <3>1. \A p \in listed' : p \in listed /\ key'[p[1]] = key[p[1]]
        BY <1>0, <2>2
      <3> QED BY <1>1, <1>5, <3>1 DEF ListsApart
    <2> QED BY <1>5, <2>1, <2>2 DEF DeleteAPIKey
  <1>6. ASSUME NEW q \in Open, DashboardStep(q) \/ PairStep(q), ~\E r \in Open : DeleteDevice(r) PROVE ListsApart'
    <2>1. CASE Authenticate(q) \/ CreateDevice(q) \/ RotateDeviceToken(q) \/ BuildScope(q)
      BY <1>2, <1>6, <2>1 DEF Authenticate, CreateDevice, RotateDeviceToken, BuildScope
    <2>2. CASE AddSSHKey(q) \/ DeleteSSHKey(q)
      BY <1>2, <1>6, <2>2 DEF AddSSHKey, DeleteSSHKey
    <2>3. CASE PairStep(q)
      <3>1. UNCHANGED <<key, listed>>
        BY <2>3 DEF PairStep, PairStart, ApprovePairing, PairPoll, ConsumePairing, MintDevice, accessVars
      <3> QED BY <1>2, <1>6, <3>1
    <2> QED BY <1>4, <1>5, <1>6, <2>1, <2>2, <2>3 DEF DashboardStep
  <1>7. ASSUME NEW c \in Codes, PairingExpires(c), ~\E r \in Open : DeleteDevice(r) PROVE ListsApart'
    BY <1>2, <1>7 DEF PairingExpires
  <1>8. CASE Still /\ ~\E r \in Open : DeleteDevice(r)
    BY <1>2, <1>8 DEF Still
  <1> QED BY <1>3, <1>6, <1>7, <1>8, OthersStill

-----------------------------------------------------------------------------
(***************************************************************************)
(* The invariant of sign-in and access                                     *)
(***************************************************************************)
LEMMA AccessInitTypes == SignInInit /\ AccessInit => AccessTypeOK /\ ListsApart
  <1> SUFFICES ASSUME SignInInit, AccessInit PROVE AccessTypeOK /\ ListsApart
    OBVIOUS
  <1> USE DEF AccessInit
  <1>1. SignInTypeOK /\ accounts = Registered /\ Registered \subseteq Emails
    BY SignInInit1, ReqsAssumption DEF SignInInit
  <1>2. device \in [Devs -> DeviceRows \cup {None}]
    <2>1. \A d \in DOMAIN OwnerOf : [owner |-> OwnerOf[d], token |-> 1] \in DeviceRows
      BY <1>1, AccessAssumption DEF DeviceRows
    <2> QED BY <2>1
  <1>3. live \subseteq Devs
    BY AccessAssumption
  <1>4. \A k \in DOMAIN KeysOf : /\ KeyRow(KeysOf[k].account, KeysOf[k].scope) \in KeyRows
                                 /\ KeyRow(KeysOf[k].account, KeysOf[k].scope).account = KeysOf[k].account
                                 /\ KeysOf[k].account \in Registered
    BY <1>1, AccessAssumption DEF KeyRow, KeyRows, ScopeSet
  <1>5. key \in [Keys -> KeyRows \cup {None}] /\ \A k \in Keys : key[k] # None => key[k].account \in accounts
    BY <1>1, <1>4
  <1>6. ASSUME NEW p \in listed
        PROVE  /\ p[1] \in DOMAIN KeysOf /\ p[2] \in KeysOf[p[1]].scope.devices
               /\ p \in Keys \X Devs
    <2>1. PICK k \in DOMAIN KeysOf : p \in {k} \X KeysOf[k].scope.devices
      OBVIOUS
    <2>2. KeysOf[k].scope \in ScopeSet /\ k \in Keys
      BY AccessAssumption
    <2>3. KeysOf[k].scope.devices \subseteq Devs
      BY <2>2 DEF ScopeSet
    <2> QED BY <2>1, <2>2, <2>3
  <1>7. listed \subseteq Keys \X Devs
    BY <1>6
  <1>8. ASSUME NEW p \in listed PROVE key[p[1]] # None /\ Owns(key[p[1]].account, p[2])
    <2>1. p[1] \in Keys /\ p[2] \in Devs
      BY <1>6, <1>8
    <2>2. key[p[1]] = KeyRow(KeysOf[p[1]].account, KeysOf[p[1]].scope) /\ key[p[1]] \in KeyRows
      BY <1>4, <1>6, <1>8, <2>1
    <2>3. p[2] \in DOMAIN OwnerOf /\ OwnerOf[p[2]] = KeysOf[p[1]].account
      BY <1>6, <1>8, AccessAssumption
    <2>4. device[p[2]] = [owner |-> OwnerOf[p[2]], token |-> 1] /\ OwnerOf[p[2]] \in Emails
      BY <1>1, <2>1, <2>3, AccessAssumption
    <2>5. device[p[2]] \in DeviceRows
      BY <2>4 DEF DeviceRows
    <2> QED BY <1>4, <1>6, <1>8, <2>2, <2>3, <2>4, <2>5, RequestAssumption DEF Owns
  <1>9. ListsApart
    BY <1>8 DEF ListsApart
  <1>10. print \in [Prints -> Emails \cup {None}] /\ pairing \in [Codes -> PairingRows \cup {None}]
    OBVIOUS
  <1>11. scope \in [Keyed -> ScopeSet] /\ left \in [Editors -> SUBSET Devs]
    BY DEF Everything, ScopeSet
  <1> QED BY <1>1, <1>2, <1>3, <1>5, <1>7, <1>9, <1>10, <1>11 DEF AccessTypeOK

LEMMA CoreInit == Init => CoreInv
  <1> SUFFICES ASSUME SignInInit, AccessInit PROVE CoreInv
    BY DEF Init
  <1>1. Placed
    BY PlacedInit
  <1>2. SignInInv
    BY SignInInit1, SignInInit2, SignInInit3 DEF SignInInv, IdentityInv
  <1>3. \A r \in Reqs : pc[r] \in {"away", "new"}
    BY DEF SignInInit
  <1>4. DevicesMade
    BY DEF AccessInit, DevicesMade, Made
  <1>5. Checked
    BY <1>3 DEF Checked, Editors
  <1>6. PairedOnce /\ Paired
    BY <1>3 DEF AccessInit, PairedOnce, Unstarted, Settled, OneClaim, OneMinted, Claimant, Paired
  <1> QED BY <1>1, <1>2, <1>4, <1>5, <1>6, AccessInitTypes DEF CoreInv, AccessInv

LEMMA CoreStep == CoreInv /\ [Next]_allVars => CoreInv'
  <1> SUFFICES ASSUME CoreInv, [Next]_allVars PROVE CoreInv'
    OBVIOUS
  <1>1. /\ Placed /\ SignInTypeOK /\ Accounted /\ Counted /\ IdentityInv
        /\ AccessTypeOK /\ DevicesMade /\ Checked /\ ListsApart /\ PairedOnce /\ Paired
    BY DEF CoreInv, SignInInv, AccessInv, IdentityInv
  <1>2. Placed'
    BY <1>1, PlacedStep
  <1>3. SignInTypeOK' /\ Accounted' /\ Counted' /\ IdentityInv'
    BY <1>1, SignInTypesStep, AccountedStep, CountedStep, IdentityStep
  <1>4. AccessTypeOK' /\ PairedOnce'
    BY <1>1, AccessTypesStep, PairedStep
  <1>5. DevicesMade'
    BY <1>1, DevicesKept DEF DevicesMade, Kept
  <1>6. Checked' /\ ListsApart' /\ Paired'
    BY <1>1, CheckedStep, ListsStep, PairedForApprover
  <1> QED BY <1>2, <1>3, <1>4, <1>5, <1>6 DEF CoreInv, SignInInv, AccessInv, IdentityInv

LEMMA CoreBounds == CoreInv => LockoutBounds
  <1> SUFFICES ASSUME CoreInv PROVE LockoutBounds
    OBVIOUS
  <1>1. SignInTypeOK /\ Counted
    BY DEF CoreInv, SignInInv
  <1>2. CASE locked
    <2>1. Cardinality(Racers) \in Nat
      BY FiniteParts DEF Racers
    <2> QED BY <1>1, <1>2, <2>1, MaxFailsAssumption DEF Counted, SignInTypeOK, LockoutBounds
  <1>3. CASE ~locked
    <2>1. burst = fails /\ fails < MaxFails
      BY <1>1, <1>3 DEF Counted
    <2> QED BY <1>1, <2>1, MaxFailsAssumption DEF SignInTypeOK, LockoutBounds
  <1> QED BY <1>2, <1>3

LEMMA CorePairing == CoreInv => OneDevicePerPairing
  <1> SUFFICES ASSUME CoreInv, NEW c \in Codes
               PROVE  Cardinality(minted[c]) <= 1 /\ \A d \in minted[c] : device[d] # None => device[d].owner = approver[c]
    BY DEF OneDevicePerPairing
  <1>1. PairedOnce /\ Paired /\ minted[c] \subseteq Devs
    BY DEF CoreInv, AccessInv, PairedOnce
  <1>2. Cardinality(minted[c]) <= 1
    <2>1. CASE minted[c] = {}
      BY <2>1, FS_EmptySet
    <2>2. CASE minted[c] # {}
      <3>1. PICK d \in minted[c] : TRUE
        BY <2>2
      <3>2. minted[c] = {d}
        BY <1>1, <3>1 DEF PairedOnce, OneMinted
      <3>3. Cardinality({d}) = 1
        BY FS_Singleton
      <3> QED BY <3>2, <3>3
    <2> QED BY <2>1, <2>2
  <1>3. \A d \in minted[c] : device[d] # None => device[d].owner = approver[c]
    BY <1>1 DEF Paired
  <1> QED BY <1>2, <1>3

-----------------------------------------------------------------------------
(***************************************************************************)
(* Rights                                                                  *)
(***************************************************************************)
WatchedKinds == {"call", "connect", "jump", "live", "dial", "hostDial", "send", "fetch", "sessionRead", "keyRead",
                 "deviceRead"}

LEMMA NeedsOf ==
  \A r \in Reqs :
    /\ Op[r].kind = "call"    => Needs(r) = {"key", "method", "inScope", "owned"}
    /\ Op[r].kind = "connect" => Needs(r) = {"key", "tunnel", "inScope", "owned"}
    /\ Op[r].kind = "jump"    => Needs(r) = {"print", "owned"}
    /\ Op[r].kind = "live"    => Needs(r) = {"session", "owned"}
    /\ Op[r].kind = "dial"    => Needs(r) = {"token"}
    /\ Op[r].kind = "hostDial" => Needs(r) = {"exists"}
    /\ Op[r].kind \in {"send", "fetch"} => Needs(r) = {"signed"}
    /\ Op[r].kind = "sessionRead" => Needs(r) = {"session", "account"}
    /\ Op[r].kind = "keyRead" => Needs(r) = IF Op[r].dev = None THEN {"key", "account"} ELSE {"key", "account", "inScope"}
    /\ Op[r].kind = "deviceRead" => Needs(r) = {"known", "account", "own"}
    /\ r \in Watched => Op[r].kind \in WatchedKinds
  BY DEF Needs, Watched, WatchedKinds

LEMMA HoldsOf ==
  ASSUME NEW r
  PROVE  /\ Holds(r, "session") <=> session[Op[r].by] # None
         /\ Holds(r, "key") <=> key[Op[r].key] # None
         /\ Holds(r, "method") <=> key[Op[r].key] # None /\ AllowsMethod(key[Op[r].key], Op[r].method)
         /\ Holds(r, "tunnel") <=> key[Op[r].key] # None /\ key[Op[r].key].tunnel
         /\ Holds(r, "inScope") <=> /\ key[Op[r].key] # None
                                    /\ key[Op[r].key].allDevices \/ <<Op[r].key, Op[r].dev>> \in listed
         /\ Holds(r, "owned") <=> who[r] # None /\ Owns(who[r], Op[r].dev)
         /\ Holds(r, "account") <=> who[r] # None /\ who[r] = Asker(Op[r].blob)
         /\ Holds(r, "print") <=> print[Op[r].print] # None
         /\ Holds(r, "exists") <=> device[Op[r].dev] # None
         /\ Holds(r, "signed") <=> url[Op[r].of]
         /\ Holds(r, "known") <=> device[Op[r].by] # None
         /\ Holds(r, "own")   <=> Op[r].dev \in {None, Op[r].by}
         /\ Holds(r, "token") <=> device[Op[r].dev] # None /\ device[Op[r].dev].token = Op[r].token
  BY DEF Holds

\* What was seen stays seen, and whoever moves sees what holds.
LEMMA SeenGrows == ASSUME [Next]_allVars, NEW r \in Watched PROVE \A n : n \in seen[r] => n \in seen'[r]
  <1>1. CASE Watch
    BY <1>1 DEF Watch
  <1>2. CASE UNCHANGED seen
    BY <1>2
  <1> QED BY <1>1, <1>2 DEF Next, allVars

LEMMA MoverSees ==
  ASSUME Next, NEW r \in Watched, r \in Open, pc'[r] # "new", NEW n \in Needs(r), Holds(r, n)
  PROVE  n \in seen'[r]
  <1>1. Watch
    BY DEF Next
  <1> QED BY <1>1 DEF Watch

Unmoved(r) == pc'[r] = pc[r] /\ who'[r] = who[r] /\ (r \in Keyed => scope'[r] = scope[r])
Past(r)    == pc'[r] \in {"done", "waiting", "indexing"}
Reads(r)   == LiveScreenshot(r) \/ ReadAsDevice(r) \/ Download(r) \/ Fetch(r) \/ Send(r) \/ Deliver(r)
Asks(r)    == r \in Open /\ (Authenticate(r) \/ AgentStep(r) \/ DialStep(r) \/ Reads(r))

LEMMA OwnSteps ==
  ASSUME Placed, AccessTypeOK, [Next]_allVars, NEW r \in Watched
  PROVE  Unmoved(r) \/ Past(r) \/ (Next /\ Asks(r))
  <1> USE DEF At, Goto, Become, Open, accessVars, restVars, Unmoved, Past
  <1>0. /\ pc \in [Reqs -> Places] /\ who \in [Reqs -> Emails \cup {None}] /\ scope \in [Keyed -> ScopeSet] /\ r \in Reqs
        /\ Op[r].kind \in WatchedKinds
        /\ pc[r] \notin {"signedIn", "byEmail", "linking", "creating"}
    BY NeedsOf DEF Placed, AccessTypeOK, SignInTypeOK, Watched, WatchedKinds
  <1> USE DEF WatchedKinds
  <1>1. CASE UNCHANGED <<pc, who, scope>>
    BY <1>1
  <1>2. CASE SignInStep /\ UNCHANGED accessVars
    <2>1. ASSUME NEW q \in Open, Register(q) \/ Logout(q) \/ StartSession(q), UNCHANGED accessVars PROVE Unmoved(r)
      BY <1>0, <2>1 DEF Register, Logout, StartSession
    <2>2. ASSUME NEW q \in Open, Allowed(q) \/ CheckPassword(q) \/ RecordFail(q) \/ Reset(q), UNCHANGED accessVars
          PROVE Unmoved(r)
      BY <1>0, <2>2 DEF Allowed, CheckPassword, RecordFail, Reset
    <2>3. ASSUME NEW q \in Open, BySubject(q) \/ ByEmail(q) \/ LinkAccount(q) \/ CreateLinked(q), UNCHANGED accessVars
          PROVE Unmoved(r)
      BY <1>0, <2>3 DEF BySubject, ByEmail, LinkAccount, CreateLinked
    <2> QED BY <1>1, <1>2, <2>1, <2>2, <2>3 DEF SignInStep, SessionExpires, TimePasses
  <1>3. ASSUME NEW q \in Open, DashboardStep(q) PROVE Unmoved(r) \/ Past(r) \/ (q = r /\ Authenticate(r))
    <2>1. CASE Authenticate(q) /\ q # r
      BY <1>0, <2>1 DEF Authenticate, Dashboard
    <2>2. CASE CreateDevice(q) \/ RotateDeviceToken(q) \/ DeleteDevice(q)
      BY <1>0, <2>2 DEF CreateDevice, RotateDeviceToken, DeleteDevice
    <2>3. CASE BuildScope(q) \/ StoreKey(q)
      BY <1>0, <2>3 DEF BuildScope, Editors, StoreKey
    <2>4. CASE DeleteAPIKey(q) \/ AddSSHKey(q) \/ DeleteSSHKey(q)
      BY <1>0, <2>4 DEF DeleteAPIKey, AddSSHKey, DeleteSSHKey
    <2> QED BY <1>3, <2>1, <2>2, <2>3, <2>4 DEF DashboardStep
  <1>4. ASSUME NEW q \in Open, PairStep(q) PROVE Unmoved(r)
    BY <1>0, <1>4 DEF PairStep, PairStart, ApprovePairing, PairPoll, ConsumePairing, MintDevice
  <1>5. ASSUME NEW q \in Open, q # r, AgentStep(q) \/ DialStep(q) PROVE Unmoved(r)
    <2>1. CASE KeyByToken(q) \/ KeyDeviceIDs(q)
      BY <1>0, <1>5, <2>1 DEF KeyByToken, KeyDeviceIDs
    <2>2. CASE Permit(q)
      BY <1>0, <1>5, <2>2 DEF Permit
    <2>3. CASE AccountForKey(q) \/ HubGet(q) \/ DialStep(q)
      BY <1>0, <1>5, <2>3 DEF AccountForKey, HubGet, DialStep, DeviceByToken, DeviceByHost, RegisterConn
    <2>4. CASE Resolve(q)
      BY <1>0, <1>5, <2>4 DEF Resolve
    <2> QED BY <1>5, <2>1, <2>2, <2>3, <2>4 DEF AgentStep
  <1>6. ASSUME NEW q \in Reqs, SendFile(q) \/ GetFile(q) \/ SaveShot(q) \/ LinkBlob(q) \/ Answer(q)
        PROVE Unmoved(r) \/ Past(r)
    BY <1>0, <1>6 DEF SendFile, GetFile, SaveShot, LinkBlob, Answer
  <1>7. ASSUME NEW q \in Reqs, IndexShot(q) \/ ForgetShot(q) \/ UnindexShot(q)
        PROVE Unmoved(r) \/ Past(r)
    BY <1>0, <1>7 DEF IndexShot, ForgetShot, UnindexShot
  <1>8. ASSUME NEW q \in Reqs, q # r, Reads(q) PROVE Unmoved(r)
    BY <1>0, <1>8 DEF Reads, ReadAsDevice, Download, LiveScreenshot, Fetch, Send, Deliver
  <1>9. CASE Crash
    BY <1>0, <1>9 DEF Crash
  <1>10. CASE FileStep /\ Next
    BY <1>1, <1>6, <1>7, <1>8, <1>9, <1>10
       DEF FileStep, PutStep, DeviceStep, BlobAges, UrlExpires, ShotAges, PruneStep, SweepStep, Asks, Reads
  <1>11. CASE AccessStep /\ Next
    BY <1>1, <1>2, <1>3, <1>4, <1>5, <1>11 DEF AccessStep, PairingExpires, Disconnect, Asks
  <1> QED BY <1>1, <1>10, <1>11 DEF Next, allVars

LEMMA RightUnmoved ==
  ASSUME [Next]_allVars, NEW r \in Watched, Right(r), Unmoved(r)
  PROVE  Right(r)'
  <1>1. pc'[r] = pc[r] /\ who'[r] = who[r] /\ (Op[r].kind \in Agent => scope'[r] = scope[r])
    BY DEF Unmoved, Keyed, Watched
  <1>2. \A n : n \in seen[r] => n \in seen'[r]
    BY SeenGrows
  <1>3. KeyRight(r)'
    BY <1>1, <1>2 DEF Right, KeyRight, Allowing
  <1>4. PrintRight(r)' /\ DirectRight(r)' /\ SentRight(r)'
    BY <1>1, <1>2 DEF Right, PrintRight, DirectRight, SentRight, InHand, Needs
  <1> QED BY <1>3, <1>4 DEF Right

LEMMA RightPast == ASSUME NEW r \in Watched, Past(r) PROVE Right(r)'
  BY DEF Past, Right, KeyRight, PrintRight, DirectRight, SentRight, InHand, Allowing, Agent

\* The session is open when it is looked up.
LEMMA RightAuthenticate ==
  ASSUME CoreInv, Next, NEW r \in Watched, r \in Open, Authenticate(r)
  PROVE  Right(r)'
  <1>1. /\ r \in Reqs /\ Op[r].kind \in Dashboard /\ pc \in [Reqs -> Places] /\ Op[r].kind \in WatchedKinds
    BY NeedsOf DEF Authenticate, Open, CoreInv, Placed
  <1>2. Op[r].kind \in {"live", "sessionRead"} /\ "session" \in Needs(r)
    BY <1>1, NeedsOf DEF Dashboard, WatchedKinds
  <1>3. CASE pc'[r] = "done"
    BY <1>3, RightPast DEF Past
  <1>4. CASE pc'[r] # "done"
    <2>1. pc'[r] = "in" /\ session[Op[r].by] # None
      BY <1>1, <1>4 DEF Authenticate, Goto
    <2>2. "session" \in seen'[r]
      BY <1>2, <2>1, HoldsOf, MoverSees
    <2> QED BY <1>2, <2>1, <2>2 DEF Right, KeyRight, PrintRight, DirectRight, SentRight, InHand, Allowing, Agent
  <1> QED BY <1>3, <1>4

\* The key is there when it is looked up, with its method and tunnel flags.
LEMMA RightKeyRow ==
  ASSUME CoreInv, Next, NEW r \in Watched, r \in Open, KeyByToken(r)
  PROVE  Right(r)'
  <1> USE DEF At, Goto, Become
  <1>1. /\ r \in Reqs /\ Op[r].kind \in Agent /\ Op[r].key \in Keys /\ r \in Keyed
        /\ pc \in [Reqs -> Places] /\ who \in [Reqs -> Emails \cup {None}] /\ scope \in [Keyed -> ScopeSet]
        /\ key \in [Keys -> KeyRows \cup {None}]
    BY RequestAssumption DEF KeyByToken, Open, Keyed, CoreInv, Placed, AccessInv, AccessTypeOK, SignInTypeOK
  <1>2. CASE key[Op[r].key] = None
    <2>1. pc'[r] = "done"
      BY <1>1, <1>2 DEF KeyByToken
    <2> QED BY <2>1, RightPast DEF Past
  <1>3. CASE key[Op[r].key] # None
    <2> DEFINE found == key[Op[r].key]
    <2>1. found \in KeyRows /\ pc'[r] \in {"scoped", "listing"} /\ who'[r] = found.account
      BY <1>1, <1>3 DEF KeyByToken
    <2>2. scope'[r] = [allDevices |-> found.allDevices, devices |-> {}, allMethods |-> found.allMethods,
                       methods |-> found.methods, tunnel |-> found.tunnel]
      BY <1>1, <1>3 DEF KeyByToken
    <2>3. found.account # None
      BY <2>1, NoneAssumption DEF KeyRows
    <2>4. \A n \in Needs(r) : Holds(r, n) => n \in seen'[r]
      BY <2>1, MoverSees
    <2>5. "key" \in seen'[r]
      <3>1. "key" \in Needs(r)
        BY <1>1, NeedsOf DEF Agent
      <3> QED BY <1>3, <2>4, <3>1, HoldsOf
    <2>6. "inScope" \in Needs(r) /\ AllowsDevice(scope[r], Op[r].dev)' => "inScope" \in seen'[r]
      <3>1. AllowsDevice(scope[r], Op[r].dev)' <=> found.allDevices
        BY <2>2 DEF AllowsDevice
      <3>2. found.allDevices => Holds(r, "inScope")
        BY <1>3, HoldsOf
      <3> QED BY <2>4, <3>1, <3>2
    <2>7. Op[r].kind = "call" /\ AllowsMethod(scope[r], Op[r].method)' => "method" \in seen'[r]
      <3>1. AllowsMethod(scope[r], Op[r].method)' <=> AllowsMethod(found, Op[r].method)
        BY <2>2 DEF AllowsMethod
      <3> QED BY <1>1, <1>3, <2>4, <3>1, NeedsOf, HoldsOf
    <2>8. Op[r].kind = "connect" /\ scope'[r].tunnel => "tunnel" \in seen'[r]
      <3>1. scope'[r].tunnel <=> found.tunnel
        BY <2>2
      <3>2. found.tunnel => Holds(r, "tunnel")
        BY <1>3, HoldsOf
      <3>3. Op[r].kind = "connect" => "tunnel" \in Needs(r)
        BY <1>1, NeedsOf
      <3> QED BY <2>4, <3>1, <3>2, <3>3
    <2>9. KeyRight(r)'
      BY <2>1, <2>3, <2>5, <2>6, <2>7, <2>8 DEF KeyRight, Allowing
    <2> QED BY <1>1, <2>1, <2>9 DEF Right, PrintRight, DirectRight, SentRight, InHand, Agent
  <1> QED BY <1>2, <1>3

\* A device of the list is in the list of a key that is there.
LEMMA RightKeyList ==
  ASSUME CoreInv, Next, NEW r \in Watched, Right(r), r \in Open, KeyDeviceIDs(r)
  PROVE  Right(r)'
  <1> USE DEF Goto
  <1>1. /\ r \in Reqs /\ Op[r].kind \in Agent /\ pc[r] = "listing" /\ r \in Keyed /\ UNCHANGED who
        /\ pc \in [Reqs -> Places] /\ scope \in [Keyed -> ScopeSet]
    BY DEF KeyDeviceIDs, Open, Keyed, CoreInv, Placed, AccessInv, AccessTypeOK
  <1>2. pc'[r] = "scoped"
    BY <1>1 DEF KeyDeviceIDs
  <1>3. /\ scope'[r].devices = {d \in Devs : <<Op[r].key, d>> \in listed}
        /\ scope'[r].allDevices = scope[r].allDevices /\ scope'[r].allMethods = scope[r].allMethods
        /\ scope'[r].methods = scope[r].methods /\ scope'[r].tunnel = scope[r].tunnel
    BY <1>1 DEF KeyDeviceIDs, ScopeSet
  <1>4. \A n : n \in seen[r] => n \in seen'[r]
    BY SeenGrows
  <1>5. \A n \in Needs(r) : Holds(r, n) => n \in seen'[r]
    BY <1>2, MoverSees
  <1>6. "inScope" \in Needs(r) /\ AllowsDevice(scope[r], Op[r].dev)' => "inScope" \in seen'[r]
    <2> SUFFICES ASSUME "inScope" \in Needs(r), AllowsDevice(scope[r], Op[r].dev)' PROVE "inScope" \in seen'[r]
      OBVIOUS
    <2>1. CASE scope[r].allDevices
      BY <1>1, <1>4, <2>1 DEF AllowsDevice, Right, KeyRight, Allowing
    <2>2. CASE ~scope[r].allDevices
      <3>1. <<Op[r].key, Op[r].dev>> \in listed
        BY <1>3, <2>2 DEF AllowsDevice
      <3>2. key[Op[r].key] # None
        BY <3>1 DEF CoreInv, AccessInv, ListsApart
      <3>3. Holds(r, "inScope")
        BY <3>1, <3>2, HoldsOf
      <3> QED BY <1>5, <3>3
    <2> QED BY <2>1, <2>2
  <1>7. AllowsMethod(scope[r], Op[r].method)' <=> AllowsMethod(scope[r], Op[r].method)
    BY <1>3 DEF AllowsMethod
  <1>8. KeyRight(r)'
    BY <1>1, <1>2, <1>3, <1>4, <1>6, <1>7 DEF Right, KeyRight, Allowing
  <1> QED BY <1>1, <1>2, <1>8 DEF Right, PrintRight, DirectRight, SentRight, InHand, Agent

LEMMA RightPermit ==
  ASSUME CoreInv, Next, NEW r \in Watched, Right(r), r \in Open, Permit(r)
  PROVE  Right(r)'
  <1> USE DEF Goto
  <1>1. /\ r \in Reqs /\ Op[r].kind \in {"call", "connect"} /\ pc[r] = "scoped" /\ UNCHANGED <<who, scope>>
        /\ pc \in [Reqs -> Places]
    BY DEF Permit, Open, CoreInv, Placed, accessVars
  <1>2. \A n : n \in seen[r] => n \in seen'[r]
    BY SeenGrows
  <1>3. CASE pc'[r] = "done"
    BY <1>3, RightPast DEF Past
  <1>4. CASE pc'[r] # "done"
    <2>1. pc'[r] = "permitted"
      BY <1>1, <1>4 DEF Permit
    <2>2. IF Op[r].kind = "call" THEN AllowsMethod(scope[r], Op[r].method) ELSE scope[r].tunnel
      BY <1>1, <1>4 DEF Permit
    <2>3. KeyRight(r)'
      BY <1>1, <1>2, <2>1, <2>2 DEF Right, KeyRight, Allowing, Agent
    <2> QED BY <1>1, <2>1, <2>3 DEF Right, PrintRight, DirectRight, SentRight, InHand
  <1> QED BY <1>3, <1>4

LEMMA RightPrint ==
  ASSUME CoreInv, Next, NEW r \in Watched, r \in Open, AccountForKey(r)
  PROVE  Right(r)'
  <1> USE DEF Goto, Become, At
  <1>1. /\ r \in Reqs /\ Op[r].kind = "jump" /\ pc[r] = "new"
        /\ pc \in [Reqs -> Places] /\ who \in [Reqs -> Emails \cup {None}]
    BY DEF AccountForKey, Open, CoreInv, Placed, AccessInv, AccessTypeOK, SignInTypeOK
  <1>2. CASE pc'[r] = "done"
    BY <1>2, RightPast DEF Past
  <1>3. CASE pc'[r] # "done"
    <2>1. pc'[r] = "permitted" /\ print[Op[r].print] # None /\ who'[r] = print[Op[r].print]
      BY <1>1, <1>3 DEF AccountForKey
    <2>2. Holds(r, "print") /\ "print" \in Needs(r)
      BY <1>1, <2>1, HoldsOf, NeedsOf
    <2>3. "print" \in seen'[r]
      BY <2>1, <2>2, MoverSees
    <2> QED BY <1>1, <2>1, <2>3 DEF Right, KeyRight, PrintRight, DirectRight, SentRight, InHand, Agent
  <1> QED BY <1>2, <1>3

\* The device is the account's when Resolve finds it.
LEMMA RightResolve ==
  ASSUME CoreInv, Next, NEW r \in Watched, Right(r), r \in Open, Resolve(r)
  PROVE  Right(r)'
  <1> USE DEF Goto
  <1>1. /\ r \in Reqs /\ Op[r].kind \in {"call", "connect", "jump"} /\ pc[r] = "permitted" /\ UNCHANGED <<who, scope>>
        /\ pc \in [Reqs -> Places]
    BY DEF Resolve, Open, CoreInv, Placed, accessVars
  <1>2. \A n : n \in seen[r] => n \in seen'[r]
    BY SeenGrows
  <1>3. CASE pc'[r] = "done"
    BY <1>3, RightPast DEF Past
  <1>4. CASE pc'[r] # "done"
    <2>1. pc'[r] = "resolved" /\ Owns(who[r], Op[r].dev) /\ AllowsDevice(scope[r], Op[r].dev)
      BY <1>1, <1>4 DEF Resolve
    <2>2. who[r] # None
      BY <1>1 DEF Right, KeyRight, PrintRight, Allowing, Agent
    <2>3. Holds(r, "owned") /\ "owned" \in Needs(r)
      BY <1>1, <2>1, <2>2, HoldsOf, NeedsOf
    <2>4. "owned" \in seen'[r]
      BY <2>1, <2>3, MoverSees
    <2>5. Op[r].kind \in {"call", "connect"} => "inScope" \in seen'[r]
      BY <1>1, <1>2, <2>1, NeedsOf DEF Right, KeyRight, Allowing, Agent
    <2>6. KeyRight(r)'
      BY <1>1, <1>2, <2>1, <2>4, <2>5 DEF Right, KeyRight, Allowing, Agent
    <2>7. PrintRight(r)'
      BY <1>1, <1>2, <2>1, <2>4 DEF Right, PrintRight
    <2> QED BY <1>1, <2>1, <2>6, <2>7 DEF Right, DirectRight, SentRight, InHand
  <1> QED BY <1>3, <1>4

LEMMA RightGet ==
  ASSUME CoreInv, Next, NEW r \in Watched, Right(r), r \in Open, HubGet(r)
  PROVE  Right(r)'
  <1> USE DEF Goto
  <1>1. /\ r \in Reqs /\ Op[r].kind \in {"call", "connect", "jump", "live"} /\ pc[r] = "resolved"
        /\ pc \in [Reqs -> Places] /\ pc'[r] \in {"sent", "done"}
    BY DEF HubGet, Open, CoreInv, Placed
  <1>2. \A n : n \in seen[r] => n \in seen'[r]
    BY SeenGrows
  <1>3. Needs(r) \subseteq seen[r]
    BY <1>1, NeedsOf DEF Right, KeyRight, PrintRight, DirectRight, Agent
  <1>4. SentRight(r)'
    BY <1>2, <1>3 DEF SentRight, InHand, Needs
  <1> QED BY <1>1, <1>4 DEF Right, KeyRight, PrintRight, DirectRight, Allowing

LEMMA RightDial ==
  ASSUME CoreInv, Next, NEW r \in Watched, Right(r), r \in Open, DialStep(r)
  PROVE  Right(r)'
  <1> USE DEF Goto, At
  <1>1. /\ r \in Reqs /\ Op[r].kind \in {"dial", "hostDial"} /\ pc \in [Reqs -> Places]
        /\ Op[r].kind = "dial" => Needs(r) = {"token"}
        /\ Op[r].kind = "hostDial" => Needs(r) = {"exists"}
    BY NeedsOf DEF DialStep, DeviceByToken, DeviceByHost, RegisterConn, Open, CoreInv, Placed
  <1>2. \A n : n \in seen[r] => n \in seen'[r]
    BY SeenGrows
  <1>3. CASE pc'[r] = "done"
    BY <1>3, RightPast DEF Past
  <1>4. CASE DeviceByToken(r) /\ pc'[r] # "done"
    <2>1. Op[r].kind = "dial" /\ pc'[r] = "known"
      BY <1>1, <1>4 DEF DeviceByToken
    <2>2. "token" \in seen'[r]
      BY <1>1, <1>4, <2>1, HoldsOf, MoverSees DEF DeviceByToken
    <2> QED BY <2>1, <2>2 DEF Right, KeyRight, PrintRight, DirectRight, SentRight, InHand, Agent
  <1>5. CASE DeviceByHost(r) /\ pc'[r] # "done"
    <2>1. Op[r].kind = "hostDial" /\ pc'[r] = "known"
      BY <1>1, <1>5 DEF DeviceByHost
    <2>2. "exists" \in seen'[r]
      BY <1>1, <1>5, <2>1, HoldsOf, MoverSees DEF DeviceByHost
    <2> QED BY <2>1, <2>2 DEF Right, KeyRight, PrintRight, DirectRight, SentRight, InHand, Agent
  <1>6. CASE RegisterConn(r)
    <2>1. pc'[r] = "sent" /\ pc[r] = "known"
      BY <1>1, <1>6 DEF RegisterConn
    <2>2. Needs(r) \subseteq seen[r]
      BY <1>1, <2>1 DEF Right, DirectRight
    <2>3. SentRight(r)'
      BY <1>2, <2>2 DEF SentRight, InHand, Needs
    <2> QED BY <1>1, <2>1, <2>3 DEF Right, KeyRight, PrintRight, DirectRight, Agent
  <1> QED BY <1>3, <1>4, <1>5, <1>6 DEF DialStep

LEMMA RightLive ==
  ASSUME CoreInv, Next, NEW r \in Watched, Right(r), r \in Open, LiveScreenshot(r)
  PROVE  Right(r)'
  <1> USE DEF Goto, At
  <1>1. r \in Reqs /\ Op[r].kind = "live" /\ pc[r] = "in" /\ pc \in [Reqs -> Places] /\ Needs(r) = {"session", "owned"}
    BY NeedsOf DEF LiveScreenshot, Open, CoreInv, Placed
  <1>2. CASE pc'[r] = "done"
    BY <1>2, RightPast DEF Past
  <1>3. CASE pc'[r] # "done"
    <2>1. pc'[r] = "resolved" /\ Owns(who[r], Op[r].dev)
      BY <1>1, <1>3 DEF LiveScreenshot
    <2>2. who[r] # None
      BY <1>1, WhoIn DEF CoreInv, SignInInv, AccessInv, Dashboard
    <2>3. Holds(r, "owned")
      BY <2>1, <2>2, HoldsOf
    <2>4. "owned" \in seen'[r]
      BY <1>1, <2>1, <2>3, MoverSees
    <2>5. "session" \in seen'[r]
      BY <1>1, SeenGrows DEF Right, DirectRight
    <2> QED BY <1>1, <2>1, <2>4, <2>5 DEF Right, KeyRight, PrintRight, DirectRight, SentRight, InHand, Agent
  <1> QED BY <1>2, <1>3

LEMMA RightAsDevice ==
  ASSUME CoreInv, Next, NEW r \in Watched, Right(r), r \in Open, ReadAsDevice(r)
  PROVE  Right(r)'
  <1> USE DEF Goto, At
  <1>1. r \in Reqs /\ Op[r].kind = "deviceRead" /\ pc \in [Reqs -> Places] /\ "known" \in Needs(r) /\ Op[r].by \in Devs
    BY NeedsOf, RequestAssumption DEF ReadAsDevice, Open, CoreInv, Placed
  <1>2. CASE pc'[r] = "done"
    BY <1>2, RightPast DEF Past
  <1>3. CASE pc'[r] # "done"
    <2>1. pc'[r] = "in" /\ device[Op[r].by] # None
      BY <1>1, <1>3 DEF ReadAsDevice
    <2>2. Holds(r, "known")
      BY <2>1, HoldsOf
    <2>3. "known" \in seen'[r]
      BY <1>1, <2>1, <2>2, MoverSees
    <2>4. who'[r] # None
      <3>1. device[Op[r].by] \in DeviceRows /\ who \in [Reqs -> Emails \cup {None}]
        BY <1>1, <2>1 DEF CoreInv, AccessInv, AccessTypeOK, SignInTypeOK
      <3>2. who'[r] = device[Op[r].by].owner
        BY <1>1, <2>1, <3>1 DEF ReadAsDevice, Become
      <3> QED BY <3>1, <3>2, NoneAssumption DEF DeviceRows
    <2> QED BY <1>1, <2>1, <2>3, <2>4 DEF Right, KeyRight, PrintRight, DirectRight, SentRight, InHand, Agent
  <1> QED BY <1>2, <1>3

\* A blob's row names the device it came off and the account that asked for it,
\* so what it is held against is what the request needs.
LEMMA RightDownload ==
  ASSUME CoreInv, Rows, Traced, Next, NEW r \in Watched, Right(r), r \in Open, Download(r)
  PROVE  Right(r)'
  <1> USE DEF Goto, At
  <1> DEFINE b == Op[r].blob
  <1>1. r \in Reqs /\ pc \in [Reqs -> Places]
    BY DEF Open, CoreInv, Placed
  <1>2. \/ Op[r].kind = "keyRead" /\ pc[r] = "scoped"
        \/ Op[r].kind \in {"sessionRead", "deviceRead"} /\ pc[r] = "in"
    BY DEF Download
  <1>3. b \in Blobs /\ (Op[r].kind # "sessionRead" => Op[r].dev = IF Op[b].kind = "send" THEN None ELSE Op[b].dev)
    BY <1>1, <1>2, FilesAssumption DEF Blobs
  <1>4. CASE pc'[r] = "done"
    BY <1>4, RightPast DEF Past
  <1>5. CASE pc'[r] # "done"
    <2>1. pc'[r] = "sent" /\ row[b] # None /\ row[b].account = who[r] /\ CanReach(r, row[b].device)
      BY <1>1, <1>5 DEF Download
    <2>2. row[b].device = IF Op[b].kind = "send" THEN None ELSE Op[b].dev
      BY <1>3, <2>1 DEF Rows, RowFor
    <2>3. \A n : n \in seen[r] => n \in seen'[r]
      BY SeenGrows
    <2>4. who[r] # None
      <3>1. CASE Op[r].kind = "keyRead"
        BY <1>2, <3>1 DEF Right, KeyRight, Allowing, Agent
      <3>2. CASE Op[r].kind = "sessionRead"
        BY <1>2, <3>2, WhoIn DEF CoreInv, SignInInv, AccessInv, Dashboard
      <3>3. CASE Op[r].kind = "deviceRead"
        BY <1>2, <3>3 DEF Right, DirectRight
      <3> QED BY <1>2, <3>1, <3>2, <3>3
    <2>5. Holds(r, "account")
      BY <1>3, <2>1, <2>4, HoldsOf DEF Traced
    <2>6. "account" \in seen'[r]
      <3>1. "account" \in Needs(r)
        BY <1>1, <1>2, NeedsOf
      <3> QED BY <2>1, <2>5, <3>1, MoverSees
    <2>7. CASE Op[r].kind = "keyRead"
      <3>1. "key" \in seen[r]
        BY <1>2, <2>7 DEF Right, KeyRight, Allowing, Agent
      <3>2. Op[r].dev # None => AllowsDevice(scope[r], Op[r].dev)
        BY <1>3, <2>1, <2>2, <2>7 DEF CanReach
      <3>3. Op[r].dev # None => "inScope" \in seen[r]
        BY <1>1, <1>2, <2>7, <3>2, NeedsOf DEF Right, KeyRight, Allowing, Agent
      <3>4. Needs(r) \subseteq seen'[r]
        BY <1>1, <2>3, <2>6, <2>7, <3>1, <3>3, NeedsOf
      <3> QED BY <2>1, <2>7, <3>4 DEF Right, KeyRight, PrintRight, DirectRight, SentRight, InHand, Allowing, Needs
    <2>8. CASE Op[r].kind = "deviceRead"
      <3>1. Needs(r) = {"known", "account", "own"} /\ "known" \in seen[r]
        BY <1>1, <1>2, <2>8, NeedsOf DEF Right, DirectRight
      <3>2. Op[r].dev \in {None, Op[r].by}
        BY <1>3, <2>1, <2>2, <2>8 DEF CanReach
      <3>3. "own" \in seen'[r]
        BY <2>1, <3>1, <3>2, HoldsOf, MoverSees
      <3>4. Needs(r) \subseteq seen'[r]
        BY <2>3, <2>6, <3>1, <3>3
      <3> QED BY <2>1, <2>8, <3>4 DEF Right, KeyRight, PrintRight, DirectRight, SentRight, InHand, Allowing, Needs, Agent
    <2>9. CASE Op[r].kind = "sessionRead"
      <3>1. Needs(r) = {"session", "account"} /\ "session" \in seen[r]
        BY <1>1, <1>2, <2>9, NeedsOf DEF Right, DirectRight
      <3>2. Needs(r) \subseteq seen'[r]
        BY <2>3, <2>6, <3>1
      <3> QED BY <2>1, <2>9, <3>2 DEF Right, KeyRight, PrintRight, DirectRight, SentRight, InHand, Allowing, Needs, Agent
    <2> QED BY <1>2, <2>7, <2>8, <2>9
  <1> QED BY <1>4, <1>5

\* The signature is looked at before anything else.
LEMMA RightSigned ==
  ASSUME CoreInv, Next, NEW r \in Watched, Right(r), r \in Open, Fetch(r) \/ Send(r) \/ Deliver(r)
  PROVE  Right(r)'
  <1> USE DEF Goto, At
  <1>1. r \in Reqs /\ pc \in [Reqs -> Places] /\ Op[r].kind \in {"send", "fetch"} /\ Needs(r) = {"signed"}
    BY NeedsOf DEF Fetch, Send, Deliver, Open, CoreInv, Placed
  <1>2. CASE pc'[r] = "done"
    BY <1>2, RightPast DEF Past
  <1>3. CASE pc'[r] # "done"
    <2>1. pc'[r] \in {"sent", "putting", "delivering"}
      BY <1>1, <1>3 DEF Fetch, Send, Deliver
    <2>2. CASE Deliver(r)
      <3>1. "signed" \in seen[r]
        BY <2>2 DEF Deliver, Right, DirectRight
      <3> QED BY <1>1, <2>1, <3>1, SeenGrows DEF Right, KeyRight, PrintRight, DirectRight, SentRight, InHand, Agent, Needs
    <2>3. CASE Fetch(r) \/ Send(r)
      <3>1. url[Op[r].of]
        BY <1>1, <1>3, <2>3 DEF Fetch, Send
      <3>2. "signed" \in seen'[r]
        BY <1>1, <2>1, <3>1, HoldsOf, MoverSees
      <3> QED BY <1>1, <2>1, <3>2 DEF Right, KeyRight, PrintRight, DirectRight, SentRight, InHand, Agent, Needs
    <2> QED BY <2>2, <2>3
  <1> QED BY <1>2, <1>3

LEMMA RightsStep ==
  ASSUME CoreInv, RightsInv, Rows, Traced, [Next]_allVars
  PROVE  RightsInv'
  <1> SUFFICES ASSUME NEW r \in Watched PROVE Right(r)'
    BY DEF RightsInv, Watched, Needs
  <1>1. Right(r) /\ Placed /\ AccessTypeOK
    BY DEF RightsInv, CoreInv, AccessInv
  <1>2. CASE Unmoved(r)
    BY <1>1, <1>2, RightUnmoved
  <1>3. CASE Past(r)
    BY <1>3, RightPast
  <1>4. CASE Next /\ Asks(r)
    <2>1. r \in Open /\ Next
      BY <1>4 DEF Asks
    <2>2. CASE AgentStep(r)
      BY <1>1, <2>1, <2>2, RightKeyRow, RightKeyList, RightPermit, RightPrint, RightResolve, RightGet DEF AgentStep
    <2>3. CASE DialStep(r)
      BY <1>1, <2>1, <2>3, RightDial
    <2>4. CASE Authenticate(r)
      BY <2>1, <2>4, RightAuthenticate
    <2>5. CASE Reads(r)
      BY <1>1, <2>1, <2>5, RightLive, RightAsDevice, RightDownload, RightSigned DEF Reads
    <2> QED BY <1>4, <2>2, <2>3, <2>4, <2>5 DEF Asks
  <1> QED BY <1>1, <1>2, <1>3, <1>4, OwnSteps

LEMMA RightsInit == Init => RightsInv
  <1> SUFFICES ASSUME SignInInit, NEW r \in Watched PROVE Right(r)
    BY DEF Init, RightsInv
  <1>1. pc[r] \in {"away", "new"}
    BY DEF SignInInit, Watched
  <1> QED BY <1>1 DEF Right, KeyRight, PrintRight, DirectRight, SentRight, InHand, Allowing

LEMMA RightsAuthorise == RightsInv => Authorised
  BY DEF RightsInv, Right, SentRight, Authorised

-----------------------------------------------------------------------------
(***************************************************************************)
(* Blobs                                                                   *)
(***************************************************************************)
\* Nothing of a blob's own moves.
Untouched(b) ==
  /\ put'[b] = put[b] /\ row'[b] = row[b] /\ bytes'[b] = bytes[b] /\ work'[b] = work[b]
  /\ b \in old => b \in old'

LEMMA UntouchedKept ==
  ASSUME Onward, NEW b \in Blobs, PutFor(b), RowFor(b), Untouched(b)
  PROVE  PutFor(b)' /\ RowFor(b)'
  <1>1. b \in Reqs
    BY DEF Blobs
  <1>2. PutFor(b)'
    BY <1>1 DEF Onward, PutFor, Untouched
  <1>3. RowFor(b)'
    BY DEF RowFor, Untouched
  <1> QED BY <1>2, <1>3

LEMMA PutRows ==
  ASSUME BlobTypeOK, Rows, Onward, NEW c \in Blobs, PutStep(c)
  PROVE  Rows'
  <1> SUFFICES ASSUME NEW b \in Blobs PROVE PutFor(b)' /\ RowFor(b)'
    BY DEF Rows, PutStep, CopyBody, RenameBody, CreateBlob, LeftBehind
  <1>0. PutFor(b) /\ RowFor(b)
    BY DEF Rows
  <1>1. CASE b # c
    <2>1. Untouched(b)
      BY <1>1 DEF PutStep, CopyBody, RenameBody, CreateBlob, LeftBehind, Untouched, TypeOK, BlobTypeOK
    <2> QED BY <1>0, <2>1, UntouchedKept
  <1>2. CASE b = c
    <2> USE DEF PutFor, RowFor, TypeOK, BlobTypeOK, PutStep
    <2>1. put[b] \in {"copy", "rename", "record"} /\ UNCHANGED <<pc, work, old>>
      BY <1>2 DEF CopyBody, RenameBody, CreateBlob, LeftBehind
    <2>2. PutFor(b)'
      BY <1>0, <2>1
    <2>3. CASE CopyBody(b)
      BY <1>0, <2>2, <2>3 DEF CopyBody, LeftBehind
    <2>4. CASE RenameBody(b)
      BY <1>0, <2>2, <2>4 DEF RenameBody, LeftBehind
    <2>5. CASE CreateBlob(b)
      <3>1. CASE put'[b] \in {"failed", "stray"}
        BY <1>0, <2>1, <2>2, <2>5, <3>1 DEF CreateBlob, LeftBehind
      <3>2. CASE put'[b] \notin {"failed", "stray"}
        <4>1. /\ put'[b] = "stored" /\ bytes'[b] = bytes[b]
              /\ row' = [row EXCEPT ![b] = [account |-> Asker(b),
                                            device  |-> IF Op[b].kind = "send" THEN None ELSE Op[b].dev]]
          BY <2>5, <3>2 DEF CreateBlob, LeftBehind
        <4> QED BY <1>0, <2>1, <2>2, <2>5, <4>1 DEF CreateBlob
      <3> QED BY <3>1, <3>2
    <2> QED BY <1>2, <2>3, <2>4, <2>5
  <1> QED BY <1>1, <1>2

LEMMA DeviceRowsKept ==
  ASSUME BlobTypeOK, Rows, Onward, NEW c \in Blobs, DeviceStep(c)
  PROVE  Rows'
  <1> USE DEF DeviceStep, DeviceBegins, DeviceUploaded, DeviceDownloaded, Replace, TypeOK, BlobTypeOK
  <1> SUFFICES ASSUME NEW b \in Blobs PROVE PutFor(b)' /\ RowFor(b)'
    BY DEF Rows
  <1>0. PutFor(b) /\ RowFor(b)
    BY DEF Rows
  <1>1. CASE b # c
    <2>1. Untouched(b)
      BY <1>1 DEF Untouched
    <2> QED BY <1>0, <2>1, UntouchedKept
  <1>2. CASE b = c
    <2>1. work[b] \notin {"none"} /\ work'[b] \notin {"none", "asked"} /\ UNCHANGED <<pc, row, bytes, old>>
      BY <1>2
    <2>2. put'[b] = put[b] \/ (Op[b].kind = "call" /\ work[b] = "asked" /\ put'[b] = "copy")
      BY <1>2 DEF Blobs
    <2>3. PutFor(b)'
      BY <1>0, <2>1, <2>2, Zenon DEF PutFor, Blobs
    <2>4. RowFor(b)'
      BY <1>0, <2>1, <2>2 DEF PutFor, RowFor
    <2> QED BY <2>3, <2>4
  <1> QED BY <1>1, <1>2

LEMMA PruneRows ==
  ASSUME BlobTypeOK, Rows, Onward, PruneStep
  PROVE  Rows'
  <1> USE DEF PruneStep, TypeOK, BlobTypeOK
  <1>1. CASE Prune
    <2>1. todo' \subseteq old'
      BY <1>1 DEF Prune
    <2>2. \A b \in Blobs : Untouched(b)
      BY <1>1 DEF Prune, Untouched
    <2> QED BY <2>1, <2>2, UntouchedKept DEF Rows
  <1>2. ASSUME NEW c \in Blobs, DeleteBytes(c) \/ DeleteRow(c) PROVE Rows'
    <2> USE DEF DeleteBytes, DeleteRow
    <2>1. todo' \subseteq old' /\ c \in old /\ UNCHANGED <<pc, work, old>>
      BY <1>2 DEF Rows
    <2>2. ASSUME NEW b \in Blobs \ {c} PROVE PutFor(b)' /\ RowFor(b)'
      <3>1. Untouched(b)
        BY <1>2 DEF Untouched
      <3> QED BY <3>1, UntouchedKept DEF Rows
    <2>3. PutFor(c) /\ RowFor(c) /\ put[c] \in {"stored", "deleting"}
      BY <1>2 DEF Rows
    <2>4. PutFor(c)'
      BY <2>1, <2>3 DEF PutFor
    <2>5. RowFor(c)'
      BY <1>2, <2>1, <2>3 DEF RowFor
    <2> QED BY <2>1, <2>2, <2>4, <2>5 DEF Rows
  <1> QED BY <1>1, <1>2

LEMMA CrashRows ==
  ASSUME BlobTypeOK, Rows, Onward, Crash
  PROVE  Rows'
  <1>1. todo' \subseteq old'
    BY DEF Crash
  <1> SUFFICES ASSUME NEW b \in Blobs PROVE PutFor(b)' /\ RowFor(b)'
    BY <1>1 DEF Rows
  <1>2. PutFor(b) /\ RowFor(b) /\ b \in Reqs
    BY DEF Rows, Blobs
  <1>3. put'[b] = CASE Putting(b) -> "stray"
                    [] put[b] = "deleting" -> "stored"
                    [] OTHER -> put[b]
    BY DEF Crash
  <1>4. UNCHANGED <<row, bytes, old, work>>
    BY DEF Crash
  <1>5. PutFor(b)'
    BY <1>2, <1>3, <1>4 DEF PutFor, Onward, Putting
  <1>6. RowFor(b)'
    BY <1>2, <1>3, <1>4 DEF RowFor, Putting
  <1> QED BY <1>5, <1>6

\* A request of the file tools moves a blob of its own, if any.
LEMMA ToolRows ==
  ASSUME Placed, BlobTypeOK, Rows, Onward, NEW r \in Reqs, GetFile(r) \/ Send(r) \/ Deliver(r)
  PROVE  Rows'
  <1> USE DEF GetFile, Send, Deliver, TypeOK, BlobTypeOK, At, Placed, Goto
  <1>1. r \in Blobs
    BY DEF Blobs
  <1>2. UNCHANGED <<row, bytes, old, todo>>
    OBVIOUS
  <1> SUFFICES ASSUME NEW b \in Blobs PROVE PutFor(b)' /\ RowFor(b)'
    BY <1>2 DEF Rows
  <1>3. PutFor(b) /\ RowFor(b)
    BY DEF Rows
  <1>4. CASE b # r
    <2>1. Untouched(b)
      BY <1>4 DEF Untouched
    <2> QED BY <1>3, <2>1, UntouchedKept
  <1>5. CASE b = r
    <2>1. CASE GetFile(r)
      <3>1. Op[r].kind = "call" /\ put[r] = "none" /\ UNCHANGED put
        BY <1>3, <1>5, <2>1 DEF PutFor
      <3> QED BY <1>2, <1>3, <1>5, <3>1, <2>1 DEF PutFor, RowFor, Goto
    <2>2. CASE Send(r)
      <3>1. Op[r].kind = "send" /\ put[r] = "none" /\ pc'[r] # "new" /\ put'[r] \in {"none", "copy"}
        BY <1>1, <1>3, <1>5, <2>2 DEF PutFor
      <3> QED BY <1>2, <1>3, <1>5, <3>1 DEF PutFor, RowFor
    <2>3. CASE Deliver(r)
      <3>1. Op[r].kind = "send" /\ pc'[r] # "new" /\ UNCHANGED put
        BY <2>3 DEF Onward
      <3> QED BY <1>2, <1>3, <1>5, <3>1 DEF PutFor, RowFor
    <2> QED BY <2>1, <2>2, <2>3
  <1> QED BY <1>4, <1>5

\* The steps that leave the blobs' own state alone, or only let one age.
BlobsRest == UNCHANGED <<put, row, bytes, work, dest, wrote, told, misheard, todo>> /\ old \subseteq old'

LEMMA WhoMovesBlobs ==
  ASSUME [Next]_allVars
  PROVE  \/ BlobsRest
         \/ \E c \in Blobs : PutStep(c) \/ DeviceStep(c)
         \/ \E r \in Reqs : GetFile(r) \/ Send(r) \/ Deliver(r) \/ Answer(r)
         \/ PruneStep \/ Crash
  <1> USE DEF BlobsRest, fileVars, blobVars
  <1>1. CASE AccessStep /\ UNCHANGED fileVars
    BY <1>1
  <1>2. CASE UNCHANGED allVars
    BY <1>2 DEF allVars
  <1>3. ASSUME NEW r \in Reqs, SendFile(r) \/ LinkBlob(r) \/ Fetch(r) \/ ReadAsDevice(r) \/ Download(r) PROVE BlobsRest
    BY <1>3 DEF SendFile, LinkBlob, Fetch, ReadAsDevice, Download
  <1>4. ASSUME NEW r \in Reqs, SaveShot(r) \/ LiveScreenshot(r) \/ IndexShot(r) \/ ForgetShot(r) \/ UnindexShot(r)
        PROVE  BlobsRest
    BY <1>4 DEF SaveShot, LiveScreenshot, IndexShot, ForgetShot, UnindexShot
  <1>5. ASSUME (\E b \in Blobs : BlobAges(b)) \/ (\E r \in Minters : UrlExpires(r))
               \/ (\E d \in Devs : ShotAges(d)) \/ SweepStep
        PROVE  BlobsRest
    BY <1>5 DEF BlobAges, UrlExpires, ShotAges, SweepStep
  <1> QED BY <1>1, <1>2, <1>3, <1>4, <1>5 DEF Next, FileStep, Open

LEMMA RowsStep ==
  ASSUME Placed, BlobTypeOK, Rows, [Next]_allVars
  PROVE  Rows'
  <1>1. Onward
    BY AlwaysOnward
  <1>2. CASE BlobsRest
    <2>1. \A b \in Blobs : Untouched(b)
      BY <1>2 DEF BlobsRest, Untouched
    <2> QED BY <1>1, <1>2, <2>1, UntouchedKept DEF BlobsRest, Rows
  <1>3. ASSUME NEW r \in Reqs, Answer(r) PROVE Rows'
    <2>1. \A b \in Blobs : Untouched(b)
      BY <1>3 DEF Answer, Untouched
    <2> QED BY <1>1, <1>3, <2>1, UntouchedKept DEF Answer, Rows
  <1> QED BY <1>1, <1>2, <1>3, WhoMovesBlobs, PutRows, DeviceRowsKept, PruneRows, CrashRows, ToolRows

\* Once a call is authenticated its account is not another's.
LEMMA CallersKeepWho ==
  ASSUME CoreInv, [Next]_allVars, NEW r \in Reqs, Op[r].kind = "call", pc[r] # "new"
  PROVE  who'[r] = who[r]
  <1> USE DEF At, Goto, Become, Open, restVars, accessVars
  <1>0. pc \in [Reqs -> Places] /\ who \in [Reqs -> Emails \cup {None}] /\ Placed
    BY DEF CoreInv, AccessInv, AccessTypeOK, SignInTypeOK, Placed
  <1>1. CASE UNCHANGED who
    BY <1>1
  <1>2. CASE SignInStep
    <2>1. ASSUME NEW q \in Open, Register(q) \/ CheckPassword(q) \/ BySubject(q) PROVE who'[r] = who[r]
      BY <1>0, <2>1 DEF Register, CheckPassword, BySubject
    <2>2. ASSUME NEW q \in Open, ByEmail(q) \/ LinkAccount(q) \/ CreateLinked(q) PROVE who'[r] = who[r]
      BY <1>0, <2>2 DEF ByEmail, LinkAccount, CreateLinked, Placed
    <2>3. ASSUME NEW q \in Open, Logout(q) \/ StartSession(q) \/ Allowed(q) \/ RecordFail(q) \/ Reset(q)
          PROVE  UNCHANGED who
      BY <2>3 DEF Logout, StartSession, Allowed, RecordFail, Reset
    <2> QED BY <1>1, <1>2, <2>1, <2>2, <2>3 DEF SignInStep, SessionExpires, TimePasses
  <1>3. ASSUME NEW q \in Open, DashboardStep(q) \/ PairStep(q) PROVE who'[r] = who[r]
    <2>1. CASE Authenticate(q)
      BY <1>0, <2>1 DEF Authenticate, Dashboard
    <2> QED BY <1>0, <1>1, <1>3, <2>1, EditsKeepWho
  <1>4. ASSUME NEW q \in Open, KeyByToken(q) \/ AccountForKey(q) \/ ReadAsDevice(q) PROVE who'[r] = who[r]
    BY <1>0, <1>4 DEF KeyByToken, AccountForKey, ReadAsDevice
  <1>5. ASSUME NEW q \in Open, KeyDeviceIDs(q) \/ Permit(q) \/ Resolve(q) \/ HubGet(q) \/ DialStep(q) PROVE UNCHANGED who
    BY <1>5 DEF KeyDeviceIDs, Permit, Resolve, HubGet, DialStep, DeviceByToken, DeviceByHost, RegisterConn
  <1>6. ASSUME NEW q \in Reqs, SendFile(q) \/ GetFile(q) \/ SaveShot(q) \/ LinkBlob(q) \/ Send(q) \/ Deliver(q) \/ Answer(q)
        PROVE  UNCHANGED who
    BY <1>6 DEF SendFile, GetFile, SaveShot, LinkBlob, Send, Deliver, Answer
  <1>7. ASSUME NEW q \in Reqs, Fetch(q) \/ Download(q) \/ LiveScreenshot(q) \/ IndexShot(q) \/ ForgetShot(q) \/ UnindexShot(q)
        PROVE  UNCHANGED who
    BY <1>7 DEF Fetch, Download, LiveScreenshot, IndexShot, ForgetShot, UnindexShot
  <1>8. CASE FileStep
    BY <1>1, <1>4, <1>6, <1>7, <1>8
       DEF FileStep, PutStep, DeviceStep, BlobAges, UrlExpires, ShotAges, PruneStep, SweepStep, Crash
  <1>9. CASE AccessStep
    BY <1>1, <1>2, <1>3, <1>4, <1>5, <1>9 DEF AccessStep, AgentStep, PairingExpires, Disconnect
  <1> QED BY <1>1, <1>8, <1>9 DEF Next, allVars

LEMMA AskedByCall == ASSUME NEW b \in Blobs PROVE AskedBy(b) \in Reqs /\ Op[AskedBy(b)].kind = "call"
  BY FilesAssumption DEF Blobs, Minters, AskedBy

\* What starts a Put.
LEMMA PutsBegin ==
  ASSUME BlobTypeOK, [Next]_allVars, NEW b \in Blobs, put[b] = "none", put'[b] # "none"
  PROVE  \/ Op[b].kind = "send" /\ url[Op[b].of]
         \/ Op[b].kind = "call" /\ work[b] = "asked"
  <1> USE DEF BlobTypeOK, TypeOK
  <1>1. ~BlobsRest
    BY DEF BlobsRest
  <1>2. ASSUME NEW c \in Blobs, PutStep(c) PROVE put'[b] = put[b]
    BY <1>2 DEF PutStep, CopyBody, RenameBody, CreateBlob, LeftBehind
  <1>3. ASSUME NEW c \in Blobs, DeviceStep(c), put'[b] # put[b] PROVE Op[b].kind = "call" /\ work[b] = "asked"
    BY <1>3 DEF DeviceStep, DeviceBegins, DeviceUploaded, DeviceDownloaded, Replace, Blobs
  <1>4. ASSUME NEW r \in Reqs, GetFile(r) \/ Deliver(r) \/ Answer(r) PROVE put'[b] = put[b]
    BY <1>4 DEF GetFile, Deliver, Answer
  <1>5. ASSUME NEW r \in Reqs, Send(r), put'[b] # put[b] PROVE Op[b].kind = "send" /\ url[Op[b].of]
    BY <1>5 DEF Send, At
  <1>6. CASE PruneStep
    BY <1>6 DEF PruneStep, Prune, DeleteBytes, DeleteRow
  <1>7. CASE Crash
    BY <1>7 DEF Crash, Putting
  <1> QED BY <1>1, <1>2, <1>3, <1>4, <1>5, <1>6, <1>7, WhoMovesBlobs

\* What writes a row.
LEMMA RowsBegin ==
  ASSUME BlobTypeOK, [Next]_allVars, NEW b \in Blobs, row'[b] # None, row'[b] # row[b]
  PROVE  row'[b].account = Asker(b) /\ put[b] # "none"
  <1> USE DEF BlobTypeOK, TypeOK
  <1>1. ~BlobsRest
    BY DEF BlobsRest
  <1>2. ASSUME NEW c \in Blobs, PutStep(c) PROVE row'[b].account = Asker(b) /\ put[b] # "none"
    <2>1. CreateBlob(c) /\ b = c
      BY <1>2 DEF PutStep, CopyBody, RenameBody, CreateBlob
    <2> QED BY <2>1 DEF CreateBlob, LeftBehind
  <1>3. ASSUME NEW c \in Blobs, DeviceStep(c) PROVE FALSE
    BY <1>3 DEF DeviceStep, DeviceBegins, DeviceUploaded, DeviceDownloaded, Replace
  <1>4. ASSUME NEW r \in Reqs, GetFile(r) \/ Send(r) \/ Deliver(r) \/ Answer(r) PROVE FALSE
    BY <1>4 DEF GetFile, Send, Deliver, Answer
  <1>5. CASE PruneStep
    BY <1>5 DEF PruneStep, Prune, DeleteBytes, DeleteRow
  <1>6. CASE Crash
    BY <1>6 DEF Crash
  <1> QED BY <1>1, <1>2, <1>3, <1>4, <1>5, <1>6, WhoMovesBlobs

\* What hands out a URL.
LEMMA UrlsBegin ==
  ASSUME Rows, DOMAIN url = Minters, [Next]_allVars
  PROVE  /\ DOMAIN url' = Minters
         /\ \A m \in Minters : url'[m] => url[m] \/ pc[m] \in {"sent", "waiting", "done"}
  <1> DEFINE Goal == /\ DOMAIN url' = Minters
                     /\ \A m \in Minters : url'[m] => url[m] \/ pc[m] \in {"sent", "waiting", "done"}
  <1>1. CASE UNCHANGED url
    BY <1>1
  <1>2. ASSUME NEW r \in Reqs, SendFile(r) PROVE Goal
    BY <1>2 DEF SendFile, At
  <1>3. ASSUME NEW r \in Reqs, LinkBlob(r), ~UNCHANGED url PROVE Goal
    <2>1. PICK b \in Blobs : Op[b].kind = "call" /\ work[b] = "did" /\ url' = [url EXCEPT ![b] = TRUE]
      BY <1>3 DEF LinkBlob
    <2>2. pc[b] \in {"waiting", "done"}
      BY <2>1 DEF Rows, PutFor
    <2> QED BY <2>1, <2>2
  <1>4. ASSUME NEW r \in Minters, UrlExpires(r) PROVE Goal
    BY <1>4 DEF UrlExpires
  <1>5. CASE Crash
    BY <1>5 DEF Crash
  <1>6. ASSUME NEW r \in Reqs, GetFile(r) \/ Send(r) \/ Deliver(r) \/ Answer(r) \/ SaveShot(r) PROVE UNCHANGED url
    BY <1>6 DEF GetFile, Send, Deliver, Answer, SaveShot, blobVars
  <1>7. ASSUME NEW r \in Reqs, \/ Fetch(r) \/ ReadAsDevice(r) \/ Download(r) \/ LiveScreenshot(r)
                               \/ IndexShot(r) \/ ForgetShot(r) \/ UnindexShot(r)
        PROVE  UNCHANGED url
    BY <1>7 DEF Fetch, ReadAsDevice, Download, LiveScreenshot, IndexShot, ForgetShot, UnindexShot, fileVars, blobVars
  <1>8. ASSUME NEW b \in Blobs, PutStep(b) \/ DeviceStep(b) \/ BlobAges(b) PROVE UNCHANGED url
    BY <1>8 DEF PutStep, DeviceStep, DeviceBegins, DeviceUploaded, DeviceDownloaded, Replace, BlobAges
  <1>9. ASSUME (\E d \in Devs : ShotAges(d)) \/ PruneStep \/ SweepStep PROVE UNCHANGED url
    BY <1>9 DEF ShotAges, PruneStep, SweepStep, blobVars
  <1>10. CASE FileStep
    BY <1>1, <1>2, <1>3, <1>4, <1>5, <1>6, <1>7, <1>8, <1>9, <1>10 DEF FileStep, Open
  <1> QED BY <1>1, <1>10 DEF Next, allVars, fileVars, blobVars

LEMMA TracedStep ==
  ASSUME CoreInv, BlobTypeOK, Rows, Traced, [Next]_allVars
  PROVE  Traced'
  <1>1. Onward /\ \A r \in Reqs : pc[r] # "new" => pc'[r] # "new"
    BY AlwaysOnward DEF CoreInv, Onward
  <1>2. DOMAIN url' = Minters /\ \A m \in Minters : url'[m] => pc'[m] # "new"
    BY <1>1, UrlsBegin DEF Traced, Minters
  <1>3. ASSUME NEW b \in Blobs, put'[b] # "none" PROVE pc[AskedBy(b)] # "new"
    <2>1. CASE put[b] # "none"
      BY <2>1 DEF Traced
    <2>2. CASE put[b] = "none"
      <3>1. CASE Op[b].kind = "send" /\ url[Op[b].of]
        <4>1. Op[b].of \in Minters
          BY <3>1, FilesAssumption DEF Blobs
        <4> QED BY <3>1, <4>1 DEF Traced, AskedBy
      <3>2. CASE Op[b].kind = "call" /\ work[b] = "asked"
        BY <3>2 DEF Rows, PutFor, AskedBy
      <3> QED BY <1>3, <2>2, <3>1, <3>2, PutsBegin
    <2> QED BY <2>1, <2>2
  <1>4. ASSUME NEW b \in Blobs, row'[b] # None PROVE row'[b].account = who'[AskedBy(b)]
    <2>1. put[b] # "none" /\ row'[b].account = Asker(b)
      <3>1. CASE row'[b] = row[b]
        BY <1>4, <3>1 DEF Traced, Rows, RowFor
      <3>2. CASE row'[b] # row[b]
        BY <1>4, <3>2, RowsBegin
      <3> QED BY <3>1, <3>2
    <2>2. who'[AskedBy(b)] = who[AskedBy(b)]
      BY <2>1, AskedByCall, CallersKeepWho DEF Traced
    <2> QED BY <2>1, <2>2 DEF Asker
  <1> QED BY <1>1, <1>2, <1>3, <1>4, AskedByCall DEF Traced, Asker, AskedBy

LEMMA TargetIn == \A b \in Blobs : Target(b) \in Devs
  BY FilesAssumption DEF Blobs, Target, Minters

LEMMA SaidStep ==
  ASSUME BlobTypeOK, Said, [Next]_allVars
  PROVE  Said'
  <1> USE DEF Said, BlobTypeOK, TypeOK
  <1>1. CASE BlobsRest
    BY <1>1 DEF BlobsRest
  <1>2. ASSUME NEW c \in Blobs, PutStep(c) PROVE Said'
    BY <1>2 DEF PutStep, CopyBody, RenameBody, CreateBlob, LeftBehind
  <1>3. ASSUME NEW c \in Blobs, DeviceBegins(c) \/ DeviceUploaded(c) \/ DeviceDownloaded(c) PROVE Said'
    <2>1. UNCHANGED <<told, wrote, dest>>
      BY <1>3 DEF DeviceBegins, DeviceUploaded, DeviceDownloaded
    <2>2. \A b \in Blobs : Op[b].kind = "send" /\ work'[b] = "did" => work[b] = "did"
      BY <1>3 DEF DeviceBegins, DeviceUploaded, DeviceDownloaded
    <2> QED BY <2>1, <2>2
  <1>4. ASSUME NEW c \in Blobs, Replace(c) PROVE Said'
    <2>1. CASE UNCHANGED <<dest, wrote>>
      BY <1>4, <2>1 DEF Replace
    <2>2. CASE dest' = [dest EXCEPT ![Target(c)] = c] /\ wrote' = wrote \cup {c}
      <3>1. told' \cup wrote' \subseteq Blobs
        BY <1>4, <2>2 DEF Replace
      <3>2. \A b \in Blobs : Op[b].kind = "send" /\ work'[b] = "did" => b \in wrote'
        BY <1>4, <2>2 DEF Replace
      <3>3. ASSUME NEW b \in wrote' PROVE \E d \in wrote' : dest'[Target(b)] = d /\ Target(d) = Target(b)
        <4>1. b \in Blobs
          BY <3>1, <3>3
        <4>2. Target(b) \in Devs /\ Target(c) \in Devs
          BY <4>1, TargetIn
        <4>3. CASE Target(b) = Target(c)
          BY <2>2, <4>2, <4>3
        <4>4. CASE Target(b) # Target(c)
          <5>1. b \in wrote /\ dest'[Target(b)] = dest[Target(b)]
            BY <2>2, <3>3, <4>2, <4>4
          <5> QED BY <2>2, <5>1
        <4> QED BY <4>3, <4>4
      <3> QED BY <3>1, <3>2, <3>3
    <2> QED BY <1>4, <2>1, <2>2 DEF Replace
  <1>5. ASSUME NEW r \in Reqs, GetFile(r) \/ Send(r) \/ Deliver(r) PROVE Said'
    BY <1>5 DEF GetFile, Send, Deliver
  <1>6. ASSUME NEW r \in Reqs, Answer(r) PROVE Said'
    BY <1>6 DEF Answer, At, Blobs
  <1>7. CASE PruneStep \/ Crash
    BY <1>7 DEF PruneStep, Crash
  <1> QED BY <1>1, <1>2, <1>3, <1>4, <1>5, <1>6, <1>7, WhoMovesBlobs DEF DeviceStep

LEMMA DeliveredStep ==
  ASSUME BlobTypeOK, Said, Delivered, [Next]_allVars
  PROVE  Delivered'
  <1>1. Said'
    BY SaidStep
  <1>2. told \ misheard \subseteq wrote
    BY DEF Delivered
  <1>3. (told \ misheard)' \subseteq wrote'
    <2>1. wrote \subseteq wrote'
      BY WhoMovesBlobs DEF BlobsRest, PutStep, CopyBody, RenameBody, CreateBlob, LeftBehind, DeviceStep, DeviceBegins, DeviceUploaded,
           DeviceDownloaded, Replace, GetFile, Send, Deliver, Answer, PruneStep, Crash
    <2>2. UNCHANGED <<told, misheard>> \/ \E r \in Reqs : Answer(r)
      BY WhoMovesBlobs DEF BlobsRest, PutStep, CopyBody, RenameBody, CreateBlob, LeftBehind, DeviceStep, DeviceBegins, DeviceUploaded,
           DeviceDownloaded, Replace, GetFile, Send, Deliver, PruneStep, Crash
    <2>3. ASSUME NEW r \in Reqs, Answer(r) PROVE (told \ misheard)' \subseteq (told \ misheard) \cup wrote
      BY <2>3 DEF Answer, At, Said, Blobs
    <2> QED BY <1>2, <2>1, <2>2, <2>3
  <1> QED BY <1>1, <1>3 DEF Said, Delivered

LEMMA BlobTypesStep ==
  ASSUME SignInTypeOK, BlobTypeOK, [Next]_allVars
  PROVE  BlobTypeOK'
  <1> USE DEF BlobTypeOK, TypeOK, fileVars, blobVars, shotVars
  <1>1. CASE UNCHANGED fileVars
    BY <1>1
  <1>2. ASSUME NEW r \in Reqs, Fetch(r) \/ ReadAsDevice(r) \/ Download(r) \/ LiveScreenshot(r) PROVE UNCHANGED fileVars
    BY <1>2 DEF Fetch, ReadAsDevice, Download, LiveScreenshot
  <1>3. ASSUME NEW r \in Reqs, SendFile(r) \/ GetFile(r) \/ LinkBlob(r) \/ Send(r) \/ Deliver(r) \/ Answer(r)
        PROVE  BlobTypeOK'
    BY <1>3 DEF SendFile, GetFile, LinkBlob, Send, Deliver, Answer
  <1>4. ASSUME NEW r \in Reqs, SaveShot(r) \/ ForgetShot(r) \/ UnindexShot(r) PROVE BlobTypeOK'
    BY <1>4 DEF SaveShot, ForgetShot, UnindexShot
  <1>5. ASSUME NEW r \in Reqs, IndexShot(r) PROVE BlobTypeOK'
    <2>1. Op[r].dev \in Devs
      BY <1>5, RequestAssumption DEF IndexShot, At
    <2> QED BY <1>5, <2>1 DEF IndexShot
  <1>6. ASSUME NEW b \in Blobs, PutStep(b) PROVE BlobTypeOK'
    <2>0. faults' \in 0..MaxFaults
      BY <1>6, FilesAssumption DEF PutStep, CopyBody, RenameBody, CreateBlob, LeftBehind
    <2>1. CASE CopyBody(b) \/ RenameBody(b)
      BY <1>6, <2>0, <2>1 DEF PutStep, CopyBody, RenameBody, LeftBehind
    <2>2. CASE CreateBlob(b)
      <3> DEFINE new == [account |-> Asker(b),
                         device  |-> IF Op[b].kind = "send" THEN None ELSE Op[b].dev]
      <3>1. b \in Reqs /\ (Op[b].kind = "send" => Op[b].of \in Reqs) /\ (Op[b].kind # "send" => Op[b].dev \in Devs)
        BY FilesAssumption DEF Blobs, Minters
      <3>2. new.account \in Emails \cup {None} /\ new.device \in Devs \cup {None}
        BY <3>1 DEF SignInTypeOK, Asker, AskedBy, Blobs
      <3>3. new \in BlobRows
        BY <3>2 DEF BlobRows
      <3>4. row' = [row EXCEPT ![b] = new] \/ row' = row
        BY <2>2 DEF CreateBlob, LeftBehind
      <3>5. row' \in [Blobs -> BlobRows \cup {None}]
        BY <3>3, <3>4
      <3> HIDE DEF new
      <3> QED BY <1>6, <2>0, <2>2, <3>5 DEF PutStep, CreateBlob, LeftBehind
    <2> QED BY <1>6, <2>1, <2>2 DEF PutStep
  <1>7. ASSUME NEW b \in Blobs, DeviceStep(b) PROVE BlobTypeOK'
    <2>1. Target(b) \in Devs
      BY TargetIn
    <2> QED BY <1>7, <2>1 DEF DeviceStep, DeviceBegins, DeviceUploaded, DeviceDownloaded, Replace
  <1>8. ASSUME (\E b \in Blobs : BlobAges(b)) \/ (\E r \in Minters : UrlExpires(r)) \/ (\E d \in Devs : ShotAges(d))
        PROVE  BlobTypeOK'
    BY <1>8 DEF BlobAges, UrlExpires, ShotAges
  <1>9. CASE PruneStep
    <2>1. faults' \in 0..MaxFaults
      BY <1>9, FilesAssumption DEF PruneStep, Prune, DeleteBytes, DeleteRow
    <2> QED BY <1>9, <2>1 DEF PruneStep, Prune, DeleteBytes, DeleteRow
  <1>10. CASE SweepStep
    BY <1>10 DEF SweepStep, SweepLooks, SweepRemoves, SweepUnindexes
  <1>11. CASE Crash
    <2>1. faults' \in 0..MaxFaults
      BY <1>11, FilesAssumption DEF Crash
    <2>2. put' \in [Blobs -> {"none", "copy", "rename", "record", "stored", "failed", "stray", "deleting", "deleted"}]
      BY <1>11 DEF Crash, Putting
    <2> QED BY <1>11, <2>1, <2>2 DEF Crash
  <1> QED
    BY <1>1, <1>2, <1>3, <1>4, <1>5, <1>6, <1>7, <1>8, <1>9, <1>10, <1>11 DEF Next, FileStep, Open, allVars

LEMMA BlobsInit == Init => BlobInv /\ Delivered
  <1> SUFFICES ASSUME SignInInit, AccessInit, FilesInit PROVE BlobInv /\ Delivered
    BY DEF Init
  <1> USE DEF FilesInit
  <1>1. faults \in 0..MaxFaults
    BY FilesAssumption
  <1>2. Pictured \subseteq Devs
    BY AccessAssumption DEF Pictured
  <1>3. BlobTypeOK
    BY <1>1, <1>2 DEF BlobTypeOK, TypeOK
  <1>4. Rows
    <2>1. ASSUME NEW b \in Blobs PROVE PutFor(b)
      BY <2>1 DEF PutFor
    <2>2. ASSUME NEW b \in Blobs PROVE RowFor(b)
      BY <2>2 DEF RowFor
    <2> QED BY <2>1, <2>2 DEF Rows
  <1>5. Said /\ Delivered
    BY DEF Said, Delivered
  <1>6. Traced
    BY DEF Traced
  <1> QED BY <1>3, <1>4, <1>5, <1>6 DEF BlobInv

LEMMA FilesStep == FilesInv /\ [Next]_allVars => FilesInv'
  <1> SUFFICES ASSUME FilesInv, [Next]_allVars PROVE FilesInv'
    OBVIOUS
  <1>1. CoreInv'
    BY CoreStep DEF FilesInv
  <1>2. RightsInv'
    BY RightsStep DEF FilesInv, BlobInv
  <1>6. Traced'
    BY TracedStep DEF FilesInv, BlobInv
  <1>3. BlobTypeOK'
    BY BlobTypesStep DEF FilesInv, CoreInv, SignInInv, BlobInv
  <1>4. Rows'
    BY RowsStep DEF FilesInv, CoreInv, BlobInv
  <1>5. Said' /\ Delivered'
    BY SaidStep, DeliveredStep DEF FilesInv, BlobInv
  <1> QED BY <1>1, <1>2, <1>3, <1>4, <1>5, <1>6 DEF FilesInv, BlobInv

-----------------------------------------------------------------------------
(***************************************************************************)
(* What holds of every behaviour                                           *)
(***************************************************************************)
\* The invariant of all three modules holds from the start and is kept by every
\* statement of every handler, by the device, the sweeps and a crash.
THEOREM FilesAlways == Spec => []FilesInv
  <1>1. Init => FilesInv
    BY CoreInit, RightsInit, BlobsInit DEF FilesInv
  <1> QED BY <1>1, FilesStep, PTL DEF Spec

\* login's limiter: however many logins race past it, the wrong passwords it
\* lets through are bounded by maxFails and the racers it locked in front of.
THEOREM GuessingBounded == Spec => []LockoutBounds
  <1>1. FilesInv => LockoutBounds
    BY CoreBounds DEF FilesInv
  <1> QED BY <1>1, FilesAlways, PTL

\* LinkGoogleAccount: a session opened through Google is of the account its
\* subject is linked to, however registrations, links and sign-ins interleave.
THEOREM OneAccountPerIdentity == Spec => []OneIdentity
  <1>1. FilesInv => OneIdentity
    BY DEF FilesInv, CoreInv, SignInInv
  <1> QED BY <1>1, FilesAlways, PTL

\* buildScope checks a key's devices one by one and stores the list later: still
\* no list names another account's device, or one that is gone.
THEOREM AccountsStayApart == Spec => []AccountsApart
  <1>1. FilesInv => AccountsApart
    BY DEF FilesInv, CoreInv, AccessInv, ListsApart, AccountsApart
  <1> QED BY <1>1, FilesAlways, PTL

\* ConsumePairing's conditional update: a pairing yields at most one device, its
\* first approver's, for any number of polls and approvals at once.
THEOREM PairingYieldsOne == Spec => []OneDevicePerPairing
  <1>1. FilesInv => OneDevicePerPairing
    BY CorePairing DEF FilesInv
  <1> QED BY <1>1, FilesAlways, PTL

\* The key's gate, the resolver, the jump host, the two dial-ins and the blob
\* reader: whatever is edited or revoked between their statements, no request
\* ends with a device or the bytes of a transfer unless each right it takes,
\* the blob's account among them, was there at some moment while it ran.
THEOREM NeverUnauthorised == Spec => []Authorised
  <1>1. FilesInv => Authorised
    BY RightsAuthorise DEF FilesInv
  <1> QED BY <1>1, FilesAlways, PTL

\* Service.Put, Delete and a crash between any two of their statements: a blob
\* with a row has all of its bytes until its retention is over.
THEOREM BlobsWhole == Spec => []Whole
  <1>1. FilesInv => Whole
    BY DEF FilesInv, BlobInv, BlobTypeOK, Rows, RowFor, Whole
  <1> QED BY <1>1, FilesAlways, PTL

\* Deliver and pushFile: "written", on the reply to the send's own command, is
\* answered only of bytes that were put in place on the device the URL was
\* minted for, where no other blob's bytes but another send's to it have been
\* put since.  (On another command's reply it may be answered of anything.)
THEOREM SendsDelivered == Spec => []Delivered
  <1>1. FilesInv => Delivered
    BY DEF FilesInv
  <1> QED BY <1>1, FilesAlways, PTL
=============================================================================

------------------------------- MODULE Access -------------------------------
(***************************************************************************)
(* Who may reach which device: the dashboard's requests under a session    *)
(* (devices, API keys, SSH keys, the approval of a pairing), the agent's   *)
(* under a scoped key (POST /mcp, /connect), the SSH jump host's under a   *)
(* public key, the polls of `abacad connect`, and a device that dials in.  *)
(*                                                                         *)
(* A handler is a sequence of statements; every other request may change   *)
(* or revoke anything between two of them.  A request ends at "sent" when  *)
(* it has a device's connection in hand: what Send and OpenStream do with  *)
(* it is modelled in Capabilities, DeviceCall and StreamLane.              *)
(***************************************************************************)
EXTENDS SignIn

CONSTANTS
  Devs,      \* device ids, never used twice
  OwnerOf,   \* OwnerOf[d]: the owner of a device that exists at the start
  Keys, Prints, Codes, Methods,
  KeysOf     \* KeysOf[k]: the row of a key that exists at the start

ScopeSet == [allDevices : BOOLEAN, devices : SUBSET Devs, allMethods : BOOLEAN,
             methods : SUBSET Methods, tunnel : BOOLEAN]

ASSUME AccessAssumption ==
  /\ DOMAIN OwnerOf \subseteq Devs /\ \A d \in DOMAIN OwnerOf : OwnerOf[d] \in Registered
  /\ DOMAIN KeysOf \subseteq Keys
  /\ \A k \in DOMAIN KeysOf :
       /\ KeysOf[k].account \in Registered /\ KeysOf[k].scope \in ScopeSet
       /\ \A d \in KeysOf[k].scope.devices : d \in DOMAIN OwnerOf /\ OwnerOf[d] = KeysOf[k].account

VARIABLES
  device,   \* device[d]: [owner, token], the token by its generation; None if no row
  live,     \* devices the hub has a connection of
  key,      \* key[k]: [account, allDevices, allMethods, methods, tunnel], None if no row
  listed,   \* api_key_devices
  print,    \* ssh_keys: print[f] is an account or None
  pairing,  \* pairing[c]: [status, owner, consumed], None if no row
  scope,    \* scope[r]: the KeyScope a request was authenticated with
  left,     \* left[r]: devices of a scope not verified yet
  \* history, no program reads it
  minted,   \* minted[c]: devices created for the pairing
  approver  \* approver[c]: who approved it first

accessVars == <<device, live, key, listed, print, pairing, scope, left, minted, approver>>

Everything == [allDevices |-> TRUE, devices |-> {}, allMethods |-> TRUE, methods |-> Methods, tunnel |-> TRUE]

Dashboard == {"createDevice", "rotateToken", "deleteDevice", "createKey", "updateKey",
              "deleteKey", "addPrint", "deletePrint", "approve", "live", "sessionRead"}

Agent   == {"call", "connect", "keyRead"}
Keyed   == {r \in Reqs : Op[r].kind \in Agent \cup {"jump"}}
Editors == {r \in Reqs : Op[r].kind \in {"createKey", "updateKey"}}
Makers  == {r \in Reqs : Op[r].kind \in {"createDevice", "poll"}}

DeviceRows  == [owner : Emails, token : Nat]
KeyRows     == [account : Emails, allDevices : BOOLEAN, allMethods : BOOLEAN, methods : SUBSET Methods,
                tunnel : BOOLEAN]
PairingRows == [status : {"pending", "approved", "expired"}, owner : Emails \cup {None}, consumed : BOOLEAN]

\* Device ids and pairing codes are drawn at random and never drawn twice.
ASSUME RequestAssumption ==
  /\ None \notin Devs \cup DeviceRows \cup KeyRows \cup PairingRows
  /\ \A r \in Makers : Op[r].dev \in Devs \ DOMAIN OwnerOf
  /\ \A q, r \in Makers : Op[q].dev = Op[r].dev => q = r
  /\ \A q, r \in Reqs : Op[q].kind = "pair" /\ Op[r].kind = "pair" /\ Op[q].code = Op[r].code => q = r
  /\ \A r \in Editors : Op[r].key \in Keys /\ Op[r].scope \in ScopeSet
  /\ \A r \in Reqs : /\ Op[r].kind \in Agent => Op[r].key \in Keys
                     /\ Op[r].kind \in Dashboard => Op[r].by \in Sessions
                     /\ Op[r].kind \in {"pair", "approve", "poll"} => Op[r].code \in Codes
                     /\ Op[r].kind = "jump" => Op[r].print \in Prints
                     /\ Op[r].kind \in {"dial", "hostDial", "live"} => Op[r].dev \in Devs
                     /\ Op[r].kind = "deviceRead" => Op[r].by \in Devs

KeyRow(a, s) == [account |-> a, allDevices |-> s.allDevices, allMethods |-> s.allMethods,
                 methods |-> s.methods, tunnel |-> s.tunnel]

AccessInit ==
  /\ device = [d \in Devs |-> IF d \in DOMAIN OwnerOf THEN [owner |-> OwnerOf[d], token |-> 1] ELSE None]
  /\ live = {d \in DOMAIN OwnerOf : Asked("dev", d)}
  /\ key = [k \in Keys |-> IF k \in DOMAIN KeysOf THEN KeyRow(KeysOf[k].account, KeysOf[k].scope) ELSE None]
  /\ listed = UNION {{k} \X KeysOf[k].scope.devices : k \in DOMAIN KeysOf}
  /\ print = [f \in Prints |-> None]
  /\ pairing = [c \in Codes |-> None]
  /\ scope = [r \in Keyed |-> Everything]
  /\ left = [r \in Editors |-> {}]
  /\ minted = [c \in Codes |-> {}] /\ approver = [c \in Codes |-> None]

Owns(a, d) == device[d] # None /\ device[d].owner = a

-----------------------------------------------------------------------------
(***************************************************************************)
(* The dashboard                                                           *)
(***************************************************************************)
\* The auth middleware: the session is looked up once, before the handler.
Authenticate(r) ==
  /\ Op[r].kind \in Dashboard /\ pc[r] = "new"
  /\ LET a == session[Op[r].by]
     IN  IF a = None THEN Goto(r, "done") /\ UNCHANGED who ELSE Goto(r, "in") /\ Become(r, a)
  /\ left' = IF r \notin Editors \/ Op[r].scope.allDevices THEN left
              ELSE [left EXCEPT ![r] = Op[r].scope.devices]
  /\ UNCHANGED <<signVars, device, live, key, listed, print, pairing, scope, minted, approver>>

CreateDevice(r) ==
  /\ At(r, "createDevice", "in")
  /\ device' = [device EXCEPT ![Op[r].dev] = [owner |-> who[r], token |-> 1]]
  /\ Goto(r, "done")
  /\ UNCHANGED <<who, signVars, live, key, listed, print, pairing, scope, left, minted, approver>>

\* The old token stops working; the socket it opened stays.
RotateDeviceToken(r) ==
  /\ At(r, "rotateToken", "in")
  /\ device' = IF Owns(who[r], Op[r].dev) THEN [device EXCEPT ![Op[r].dev].token = @ + 1] ELSE device
  /\ Goto(r, "done")
  /\ UNCHANGED <<who, signVars, live, key, listed, print, pairing, scope, left, minted, approver>>

\* The row, and by the foreign key its place in every key's list; then its
\* pictures (Files).
DeleteDevice(r) ==
  /\ At(r, "deleteDevice", "in")
  /\ IF Owns(who[r], Op[r].dev)
     THEN /\ device' = [device EXCEPT ![Op[r].dev] = None]
          /\ listed' = {p \in listed : p[2] # Op[r].dev}
          /\ Goto(r, "forgetting")
     ELSE Goto(r, "done") /\ UNCHANGED <<device, listed>>
  /\ UNCHANGED <<who, signVars, live, key, print, pairing, scope, left, minted, approver>>

\* Mutant: the scope's devices are taken at the browser's word.
BugBuildScope(r) ==
  /\ r \in Editors /\ pc[r] = "in"
  /\ left[r] # {}
  /\ left' = [left EXCEPT ![r] = {}] /\ UNCHANGED pc
  /\ UNCHANGED <<who, signVars, device, live, key, listed, print, pairing, scope, minted, approver>>

\* buildScope, device by device.
BuildScope(r) ==
  /\ r \in Editors /\ pc[r] = "in"
  /\ \E d \in left[r] :
       IF Owns(who[r], d)
       THEN left' = [left EXCEPT ![r] = @ \ {d}] /\ UNCHANGED pc
       ELSE Goto(r, "done") /\ UNCHANGED left
  /\ UNCHANGED <<who, signVars, device, live, key, listed, print, pairing, scope, minted, approver>>

\* The key's row and its list in one transaction, undone if the row is not
\* there to update or a listed device is gone.
StoreKey(r) ==
  /\ r \in Editors /\ pc[r] = "in" /\ left[r] = {}
  /\ LET k  == Op[r].key
         s  == Op[r].scope
         ds == IF s.allDevices THEN {} ELSE s.devices
         ok == /\ Op[r].kind = "updateKey" => key[k] # None /\ key[k].account = who[r]
               /\ \A d \in ds : device[d] # None
     IN  IF ok
         THEN /\ key' = [key EXCEPT ![k] = KeyRow(who[r], s)]
              /\ listed' = {p \in listed : p[1] # k} \cup ({k} \X ds)
         ELSE UNCHANGED <<key, listed>>
  /\ Goto(r, "done")
  /\ UNCHANGED <<who, signVars, device, live, print, pairing, scope, left, minted, approver>>

DeleteAPIKey(r) ==
  /\ At(r, "deleteKey", "in")
  /\ LET k == Op[r].key
     IN  IF key[k] # None /\ key[k].account = who[r]
         THEN key' = [key EXCEPT ![k] = None] /\ listed' = {p \in listed : p[1] # k}
         ELSE UNCHANGED <<key, listed>>
  /\ Goto(r, "done")
  /\ UNCHANGED <<who, signVars, device, live, print, pairing, scope, left, minted, approver>>

\* A fingerprint belongs to one account.
AddSSHKey(r) ==
  /\ At(r, "addPrint", "in")
  /\ print' = [print EXCEPT ![Op[r].print] = IF @ = None THEN who[r] ELSE @]
  /\ Goto(r, "done")
  /\ UNCHANGED <<who, signVars, device, live, key, listed, pairing, scope, left, minted, approver>>

DeleteSSHKey(r) ==
  /\ At(r, "deletePrint", "in")
  /\ print' = [print EXCEPT ![Op[r].print] = IF @ = who[r] THEN None ELSE @]
  /\ Goto(r, "done")
  /\ UNCHANGED <<who, signVars, device, live, key, listed, pairing, scope, left, minted, approver>>

-----------------------------------------------------------------------------
(***************************************************************************)
(* Pairing: start, approve, poll                                           *)
(***************************************************************************)
PairStart(r) ==
  /\ At(r, "pair", "new")
  /\ pairing' = [pairing EXCEPT ![Op[r].code] = [status |-> "pending", owner |-> None, consumed |-> FALSE]]
  /\ Goto(r, "done")
  /\ UNCHANGED <<who, signVars, device, live, key, listed, print, scope, left, minted, approver>>

Is(c, status) == pairing[c] # None /\ pairing[c].status = status

\* Mutant: an approved pairing can be approved again.
BugApprovePairing(r) ==
  /\ At(r, "approve", "in")
  /\ LET c == Op[r].code
     IN  IF Is(c, "pending") \/ Is(c, "approved")
         THEN /\ pairing' = [pairing EXCEPT ![c].status = "approved", ![c].owner = who[r]]
              /\ approver' = [approver EXCEPT ![c] = IF @ = None THEN who[r] ELSE @]
         ELSE UNCHANGED <<pairing, approver>>
  /\ Goto(r, "done")
  /\ UNCHANGED <<who, signVars, device, live, key, listed, print, scope, left, minted>>

ApprovePairing(r) ==
  /\ At(r, "approve", "in")
  /\ LET c == Op[r].code
     IN  IF Is(c, "pending")
         THEN /\ pairing' = [pairing EXCEPT ![c].status = "approved", ![c].owner = who[r]]
              /\ approver' = [approver EXCEPT ![c] = IF @ = None THEN who[r] ELSE @]
         ELSE UNCHANGED <<pairing, approver>>
  /\ Goto(r, "done")
  /\ UNCHANGED <<who, signVars, device, live, key, listed, print, scope, left, minted>>

\* Ten minutes pass; the sweep may remove the row as well.
PairingExpires(c) ==
  /\ pairing[c] # None /\ pairing[c].status # "expired"
  /\ \/ pairing' = [pairing EXCEPT ![c].status = "expired"]
     \/ pairing' = [pairing EXCEPT ![c] = None]
  /\ UNCHANGED <<pc, who, signVars, device, live, key, listed, print, scope, left, minted, approver>>

\* The poll reads the row: pending is an answer, so is a dead pairing.
PairPoll(r) ==
  /\ At(r, "poll", "new")
  /\ Goto(r, IF Is(Op[r].code, "approved") /\ ~pairing[Op[r].code].consumed THEN "approved" ELSE "done")
  /\ UNCHANGED <<who, signVars, accessVars>>

\* ConsumePairing: a conditional update claims the row; then it is read again.
ConsumePairing(r) ==
  /\ At(r, "poll", "approved")
  /\ LET c == Op[r].code
     IN  IF Is(c, "approved") /\ ~pairing[c].consumed
         THEN pairing' = [pairing EXCEPT ![c].consumed = TRUE] /\ Goto(r, "claimed")
         ELSE UNCHANGED pairing /\ Goto(r, "done")
  /\ UNCHANGED <<who, signVars, device, live, key, listed, print, scope, left, minted, approver>>

\* The row is gone by now, or the device cannot be stored: the pairing is used up
\* all the same, and the next poll is told so.
MintDevice(r) ==
  /\ At(r, "poll", "claimed")
  /\ \/ /\ pairing[Op[r].code] # None
        /\ device' = [device EXCEPT ![Op[r].dev] = [owner |-> pairing[Op[r].code].owner, token |-> 1]]
        /\ minted' = [minted EXCEPT ![Op[r].code] = @ \cup {Op[r].dev}]
     \/ UNCHANGED <<device, minted>>
  /\ Goto(r, "done")
  /\ UNCHANGED <<who, signVars, live, key, listed, print, pairing, scope, left, approver>>

-----------------------------------------------------------------------------
(***************************************************************************)
(* The agent and the jump host                                             *)
(***************************************************************************)
\* APIKeyScopeByTokenHash: the row, and for a key with a list another
\* statement for the devices.
KeyByToken(r) ==
  /\ Op[r].kind \in Agent /\ pc[r] = "new"
  /\ LET row == key[Op[r].key]
     IN  IF row = None THEN Goto(r, "done") /\ UNCHANGED <<who, scope>>
         ELSE /\ Become(r, row.account)
              /\ scope' = [scope EXCEPT ![r] = [allDevices |-> row.allDevices, devices |-> {},
                             allMethods |-> row.allMethods, methods |-> row.methods, tunnel |-> row.tunnel]]
              /\ Goto(r, IF row.allDevices THEN "scoped" ELSE "listing")
  /\ UNCHANGED <<signVars, device, live, key, listed, print, pairing, left, minted, approver>>

KeyDeviceIDs(r) ==
  /\ Op[r].kind \in Agent /\ pc[r] = "listing"
  /\ scope' = [scope EXCEPT ![r].devices = {d \in Devs : <<Op[r].key, d>> \in listed}]
  /\ Goto(r, "scoped")
  /\ UNCHANGED <<who, signVars, device, live, key, listed, print, pairing, left, minted, approver>>

AllowsMethod(s, m) == s.allMethods \/ m \in s.methods
AllowsDevice(s, d) == s.allDevices \/ d \in s.devices

\* callTool checks the tool's method, /connect the tunnel flag.
Permit(r) ==
  /\ Op[r].kind \in {"call", "connect"} /\ pc[r] = "scoped"
  /\ Goto(r, IF IF Op[r].kind = "call" THEN AllowsMethod(scope[r], Op[r].method) ELSE scope[r].tunnel
             THEN "permitted" ELSE "done")
  /\ UNCHANGED <<who, signVars, accessVars>>

\* AccountForKey; the resolver's scope is everything.  The account is kept for
\* as long as the SSH connection, over which more channels may be opened.
AccountForKey(r) ==
  /\ At(r, "jump", "new")
  /\ IF print[Op[r].print] = None
     THEN Goto(r, "done") /\ UNCHANGED who
     ELSE Goto(r, "permitted") /\ Become(r, print[Op[r].print])
  /\ UNCHANGED <<signVars, accessVars>>

\* Resolve: the account's device, in scope ...
Resolve(r) ==
  /\ Op[r].kind \in Agent \cup {"jump"} /\ pc[r] = "permitted"
  /\ Goto(r, IF Owns(who[r], Op[r].dev) /\ AllowsDevice(scope[r], Op[r].dev) THEN "resolved" ELSE "done")
  /\ UNCHANGED <<who, signVars, accessVars>>

\* ... and connected.
HubGet(r) ==
  /\ pc[r] = "resolved"
  /\ Goto(r, IF Op[r].dev \in live THEN "sent" ELSE "done")
  /\ UNCHANGED <<who, signVars, accessVars>>

\* /device: the token's row is looked up, then the socket accepted and registered.
DeviceByToken(r) ==
  /\ At(r, "dial", "new")
  /\ Goto(r, IF device[Op[r].dev] # None /\ device[Op[r].dev].token = Op[r].token THEN "known" ELSE "done")
  /\ UNCHANGED <<who, signVars, accessVars>>

\* A browser device is addressed by its id in the host name, which is all it
\* has to show.
DeviceByHost(r) ==
  /\ At(r, "hostDial", "new")
  /\ Goto(r, IF device[Op[r].dev] # None THEN "known" ELSE "done")
  /\ UNCHANGED <<who, signVars, accessVars>>

RegisterConn(r) ==
  /\ Op[r].kind \in {"dial", "hostDial"} /\ pc[r] = "known"
  /\ live' = live \cup {Op[r].dev}
  /\ Goto(r, "sent")
  /\ UNCHANGED <<who, signVars, device, key, listed, print, pairing, scope, left, minted, approver>>

Disconnect(d) ==
  /\ d \in live
  /\ live' = live \ {d}
  /\ UNCHANGED <<pc, who, signVars, device, key, listed, print, pairing, scope, left, minted, approver>>

-----------------------------------------------------------------------------
DashboardStep(r) ==
  \/ Authenticate(r) \/ CreateDevice(r) \/ RotateDeviceToken(r) \/ DeleteDevice(r)
  \/ BuildScope(r) \/ StoreKey(r) \/ DeleteAPIKey(r) \/ AddSSHKey(r) \/ DeleteSSHKey(r)
PairStep(r)  == PairStart(r) \/ ApprovePairing(r) \/ PairPoll(r) \/ ConsumePairing(r) \/ MintDevice(r)
AgentStep(r) == KeyByToken(r) \/ KeyDeviceIDs(r) \/ Permit(r) \/ AccountForKey(r) \/ Resolve(r) \/ HubGet(r)
DialStep(r)  == DeviceByToken(r) \/ DeviceByHost(r) \/ RegisterConn(r)

AccessStep ==
  \/ SignInStep /\ UNCHANGED accessVars
  \/ \E r \in Open : DashboardStep(r) \/ PairStep(r) \/ AgentStep(r) \/ DialStep(r)
  \/ \E c \in Codes : PairingExpires(c)
  \/ \E d \in Devs : Disconnect(d)

-----------------------------------------------------------------------------
AccessTypeOK ==
  /\ SignInTypeOK
  /\ device \in [Devs -> DeviceRows \cup {None}] /\ live \subseteq Devs
  /\ key \in [Keys -> KeyRows \cup {None}] /\ \A k \in Keys : key[k] # None => key[k].account \in accounts
  /\ listed \subseteq Keys \X Devs
  /\ print \in [Prints -> Emails \cup {None}]
  /\ pairing \in [Codes -> PairingRows \cup {None}]
  /\ scope \in [Keyed -> ScopeSet] /\ left \in [Editors -> SUBSET Devs]

(***************************************************************************)
(* Accounts do not mix: the list of a key names existing devices of the    *)
(* key's own account, though the devices were checked one by one before    *)
(* the key was stored and may have been deleted since.                     *)
(***************************************************************************)
AccountsApart ==
  /\ AccessTypeOK
  /\ \A p \in listed : key[p[1]] # None /\ Owns(key[p[1]].account, p[2])

(***************************************************************************)
(* A pairing yields at most one device, and to the account that approved   *)
(* it first, however many polls and approvals race.                        *)
(***************************************************************************)
OneDevicePerPairing ==
  \A c \in Codes :
    /\ Cardinality(minted[c]) <= 1
    /\ \A d \in minted[c] : device[d] # None => device[d].owner = approver[c]
=============================================================================

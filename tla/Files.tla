------------------------------- MODULE Files -------------------------------
(***************************************************************************)
(* Bytes at rest and on their way: the blobs of the data plane (send_file, *)
(* get_file, GET /blobs/{id}: blob/, the file tools of mcp/tools.go, the   *)
(* device's blobClient) and each device's last screenshot (screenshot/),   *)
(* on top of Access, whose requests go on here once they hold a device's   *)
(* connection, with the server's crashes.                                  *)
(*                                                                         *)
(* A blob is named by the request that stores it.  The device is honest,   *)
(* but a reply to one command may be taken for the answer to another, as   *)
(* DeviceCall shows.                                                       *)
(***************************************************************************)
EXTENDS Access

CONSTANT MaxFaults  \* BOUND: crashes and failing deletions in a behaviour

\* Requests that store a blob: POST /blobs/send, and the device's upload for a pull.
Blobs == {r \in Reqs : Op[r].kind = "send" \/ (Op[r].kind = "call" /\ Op[r].method = "pull")}

\* Requests whose reply carries a signed URL.
Minters == {r \in Reqs : Op[r].kind = "call" /\ Op[r].method \in {"push", "pull"}}

ASSUME FilesAssumption ==
  /\ MaxFaults \in Nat
  /\ \A r \in Minters : Op[r].dev \in Devs
  /\ \A r \in Reqs : /\ Op[r].kind \in {"send", "fetch"} => Op[r].of \in Minters
                     /\ Op[r].kind \in {"sessionRead", "keyRead", "deviceRead"} => Op[r].blob \in Blobs
                     \* dev is the device that made the upload, if one did.
                     /\ Op[r].kind \in {"keyRead", "deviceRead"} =>
                          Op[r].dev = IF Op[Op[r].blob].kind = "send" THEN None ELSE Op[Op[r].blob].dev

VARIABLES
  put,    \* put[b]: how far Put is with the bytes of b; "stray" if it has left
          \* a file behind, temporary or not, that no row names
  row,    \* blobs: row[b] is [account, device] or None
  bytes,  \* bytes[b]: the file under the blob's name, "none", "part" or "whole"
  old,    \* blobs past their retention
  todo,   \* rows a prune has listed and not deleted yet
  url,    \* url[r]: is the signed URL r was answered with still good
  work,   \* work[b]: how far the device is with the push or pull it was sent
  dest,   \* dest[d]: the blob whose bytes are the destination file, or None
  shot,   \* shot[d]: the device's frame on disk, "none", "fresh" or "old"
  at,     \* devices the screenshot index has a time for
  doomed, \* frames a sweep found old and has not removed yet
  unindex,\* frames a sweep has removed whose time it has not dropped yet
  faults,
  \* history, no program reads it
  wrote,  \* blobs whose bytes the device has put in place
  told,   \* sends answered with "written"
  misheard, \* those of them answered so on another command's reply
  seen    \* seen[r]: which of its Needs held at some moment of r

blobVars == <<put, row, bytes, old, todo, url, work, dest, wrote, told, misheard>>
shotVars == <<shot, at, doomed, unindex>>
fileVars == <<blobVars, shotVars, faults>>
allVars  == <<pc, who, signVars, accessVars, seen, fileVars>>
restVars == <<who, signVars, accessVars>>

\* The blob of send r was minted for this device.
Target(b) == IF Op[b].kind = "send" THEN Op[Op[b].of].dev ELSE Op[b].dev

\* The account whose agent asked for b to be moved, by a call.
AskedBy(b) == IF Op[b].kind = "send" THEN Op[b].of ELSE b
Asker(b)   == who[AskedBy(b)]

\* A reply to another command of device d can reach a waiter: the device has
\* dialed in again, or was sent a computer call, whose command_id is its
\* caller's and may be the number of a command.
Confusable(d) ==
  \E q \in Reqs : /\ pc[q] = "sent"
                   /\ \/ Op[q].kind \in {"dial", "hostDial"}
                      \/ Op[q].kind = "call" /\ Op[q].method = "computer"
                   /\ Op[q].dev = d

Putting(b) == put[b] \in {"copy", "rename", "record"}
Lost(b)    == put[b] \in {"failed", "stray"}

\* A request has a device's connection in hand, or a device's bytes.
InHand(r) == pc[r] \in {"sent", "delivering"}

\* What a request needs for that.
Needs(r) ==
  CASE Op[r].kind = "call"     -> {"key", "method", "inScope", "owned"}
    [] Op[r].kind = "connect"  -> {"key", "tunnel", "inScope", "owned"}
    [] Op[r].kind = "jump"     -> {"print", "owned"}
    [] Op[r].kind = "live"     -> {"session", "owned"}
    [] Op[r].kind = "dial"     -> {"token"}
    [] Op[r].kind = "hostDial" -> {"exists"}
    [] Op[r].kind \in {"send", "fetch"} -> {"signed"}
    [] Op[r].kind = "sessionRead" -> {"session", "account"}
    [] Op[r].kind = "keyRead"     -> {"key", "account"} \cup (IF Op[r].dev = None THEN {} ELSE {"inScope"})
    [] Op[r].kind = "deviceRead"  -> {"known", "account", "own"}
    [] OTHER -> {}
Watched == {r \in Reqs : Needs(r) # {}}

\* Devices with a frame at the start: those whose frames the batch is about.
Pictured == {d \in DOMAIN OwnerOf : \E r \in Open : Op[r].kind = "live" /\ Op[r].dev = d}

FilesInit ==
  /\ put = [b \in Blobs |-> "none"] /\ row = [b \in Blobs |-> None] /\ bytes = [b \in Blobs |-> "none"]
  /\ old = {} /\ todo = {}
  /\ url = [r \in Minters |-> FALSE]
  /\ work = [b \in Blobs |-> "none"] /\ dest = [d \in Devs |-> None]
  /\ shot = [d \in Devs |-> IF d \in Pictured THEN "fresh" ELSE "none"]
  /\ at = Pictured /\ doomed = {} /\ unindex = {}
  \* faults are explored where files or frames move
  /\ faults = IF \E r \in Open : r \in Blobs \/ Op[r].kind = "live" THEN 0 ELSE MaxFaults
  /\ wrote = {} /\ told = {} /\ misheard = {}
  /\ seen = [r \in Watched |-> {}]

-----------------------------------------------------------------------------
(***************************************************************************)
(* Service.Put: the body goes to a temporary file, which is renamed, then  *)
(* recorded; each may fail and removes the file, without looking whether   *)
(* that fails as well.                                                     *)
(***************************************************************************)
LeftBehind(b) ==
  /\ faults < MaxFaults /\ faults' = faults + 1
  /\ put' = [put EXCEPT ![b] = "stray"]

\* Mutant: the body's failure (or its size) is not looked at.
BugCopyBody(b) ==
  /\ put[b] = "copy"
  /\ \/ put' = [put EXCEPT ![b] = "rename"] /\ UNCHANGED bytes
     \/ put' = [put EXCEPT ![b] = "record"] /\ bytes' = [bytes EXCEPT ![b] = "part"]
  /\ UNCHANGED <<row, faults>>

CopyBody(b) ==
  /\ put[b] = "copy"
  /\ \/ \E next \in {"rename", "failed"} : put' = [put EXCEPT ![b] = next] /\ UNCHANGED faults
     \/ LeftBehind(b)
  /\ UNCHANGED <<row, bytes>>

RenameBody(b) ==
  /\ put[b] = "rename"
  /\ \/ put' = [put EXCEPT ![b] = "record"] /\ bytes' = [bytes EXCEPT ![b] = "whole"] /\ UNCHANGED faults
     \/ put' = [put EXCEPT ![b] = "failed"] /\ UNCHANGED <<bytes, faults>>
     \/ LeftBehind(b) /\ UNCHANGED bytes
  /\ UNCHANGED row

\* The row names the device only if a device's token made the upload.
CreateBlob(b) ==
  /\ put[b] = "record"
  /\ \/ /\ row' = [row EXCEPT ![b] = [account |-> Asker(b), device |-> IF Op[b].kind = "send" THEN None ELSE Op[b].dev]]
        /\ put' = [put EXCEPT ![b] = "stored"] /\ UNCHANGED <<bytes, faults>>
     \/ /\ put' = [put EXCEPT ![b] = "failed"] /\ bytes' = [bytes EXCEPT ![b] = "none"]
        /\ UNCHANGED <<row, faults>>
     \/ LeftBehind(b) /\ UNCHANGED <<row, bytes>>

PutStep(b) ==
  /\ CopyBody(b) \/ RenameBody(b) \/ CreateBlob(b)
  /\ UNCHANGED <<pc, restVars, shotVars, old, todo, url, work, dest, wrote, told, misheard>>

-----------------------------------------------------------------------------
(***************************************************************************)
(* The file tools and the signed URLs                                      *)
(***************************************************************************)
\* sendFile: no more than the URL.
SendFile(r) ==
  /\ At(r, "call", "sent") /\ Op[r].method = "push"
  /\ url' = [url EXCEPT ![r] = TRUE]
  /\ Goto(r, "done")
  /\ UNCHANGED <<restVars, shotVars, faults, put, row, bytes, old, todo, work, dest, wrote, told, misheard>>

\* getFile asks the device for the bytes ...
GetFile(r) ==
  /\ At(r, "call", "sent") /\ Op[r].method = "pull"
  /\ \/ work' = [work EXCEPT ![r] = "asked"] /\ Goto(r, "waiting")
     \/ Goto(r, "done") /\ UNCHANGED work
  /\ UNCHANGED <<restVars, shotVars, faults, put, row, bytes, old, todo, url, dest, wrote, told, misheard>>

\* ... and is answered with the blob's id, or not, or too late, or with that
\* of another pull: the URL is of the blob it names.
LinkBlob(r) ==
  /\ At(r, "call", "waiting")
  /\ \/ \E b \in Blobs : /\ Op[b].kind = "call" /\ work[b] = "did"
                         /\ b = r \/ (Op[b].dev = Op[r].dev /\ Confusable(Op[r].dev))
                         /\ url' = [url EXCEPT ![b] = TRUE]
     \/ UNCHANGED url
  /\ Goto(r, "done")
  /\ UNCHANGED <<restVars, shotVars, faults, put, row, bytes, old, todo, work, dest, wrote, told, misheard>>

\* VerifyUpload, then the body goes to Put.  A URL may be posted to again.
Send(r) ==
  /\ At(r, "send", "new")
  /\ IF url[Op[r].of]
     THEN put' = [put EXCEPT ![r] = "copy"] /\ Goto(r, "putting")
     ELSE Goto(r, "done") /\ UNCHANGED put
  /\ UNCHANGED <<restVars, shotVars, faults, row, bytes, old, todo, url, work, dest, wrote, told, misheard>>

\* Deliver: the device if it is connected, by push_file.
Deliver(r) ==
  /\ At(r, "send", "putting") /\ ~Putting(r)
  /\ \/ /\ ~Lost(r) /\ Target(r) \in live
        /\ work' = [work EXCEPT ![r] = "asked"] /\ Goto(r, "delivering")
     \/ /\ Lost(r) \/ Target(r) \notin live
        /\ Goto(r, "done") /\ UNCHANGED work
  /\ UNCHANGED <<restVars, shotVars, faults, put, row, bytes, old, todo, url, dest, wrote, told, misheard>>

\* The device's answer, or 60 s without one, or its socket gone.  A reply is
\* taken for a success with whatever it holds, and held against the digest
\* only if it has one: another command's will do.
Answer(r) ==
  /\ At(r, "send", "delivering")
  /\ \/ work[r] = "did" /\ told' = told \cup {r} /\ UNCHANGED misheard
     \/ /\ work[r] # "did" /\ Confusable(Target(r))
        /\ told' = told \cup {r} /\ misheard' = misheard \cup {r}
     \/ UNCHANGED <<told, misheard>>
  /\ Goto(r, "done")
  /\ UNCHANGED <<restVars, shotVars, faults, put, row, bytes, old, todo, url, work, dest, wrote>>

\* VerifyDownload and OpenByID: the signature is the grant.
Fetch(r) ==
  /\ At(r, "fetch", "new")
  /\ Goto(r, IF url[Op[r].of] /\ row[Op[r].of] # None /\ bytes[Op[r].of] # "none" THEN "sent" ELSE "done")
  /\ UNCHANGED <<restVars, fileVars>>

\* Five minutes pass.
UrlExpires(r) ==
  /\ url[r]
  /\ url' = [url EXCEPT ![r] = FALSE]
  /\ UNCHANGED <<pc, restVars, shotVars, faults, put, row, bytes, old, todo, work, dest, wrote, told, misheard>>

-----------------------------------------------------------------------------
(***************************************************************************)
(* GET /blobs/{id} by session, key or device token                         *)
(***************************************************************************)
\* accountForBlob, for a device token.
ReadAsDevice(r) ==
  /\ At(r, "deviceRead", "new")
  /\ IF device[Op[r].by] = None
     THEN Goto(r, "done") /\ UNCHANGED who
     ELSE Goto(r, "in") /\ Become(r, device[Op[r].by].owner)
  /\ UNCHANGED <<signVars, accessVars, fileVars>>

\* Caller.CanReach.
CanReach(r, d) ==
  \/ d = None
  \/ Op[r].kind = "sessionRead"
  \/ Op[r].kind = "keyRead" /\ AllowsDevice(scope[r], d)
  \/ Op[r].kind = "deviceRead" /\ Op[r].by = d

\* Mutant: the account of the blob is not looked at.
BugDownload(r) ==
  LET b == Op[r].blob
  IN  /\ At(r, "keyRead", "scoped") \/ At(r, "sessionRead", "in") \/ At(r, "deviceRead", "in")
      /\ Goto(r, IF row[b] # None /\ bytes[b] # "none" /\ CanReach(r, row[b].device) THEN "sent" ELSE "done")
      /\ UNCHANGED <<restVars, fileVars>>

Download(r) ==
  LET b == Op[r].blob
  IN  /\ At(r, "keyRead", "scoped") \/ At(r, "sessionRead", "in") \/ At(r, "deviceRead", "in")
      /\ Goto(r, IF /\ row[b] # None /\ row[b].account = who[r]
                    /\ bytes[b] # "none" /\ CanReach(r, row[b].device)
                 THEN "sent" ELSE "done")
      /\ UNCHANGED <<restVars, fileVars>>

-----------------------------------------------------------------------------
(***************************************************************************)
(* The device: one command at a time, bytes over HTTP with its own token   *)
(***************************************************************************)
Idle(d) == \A b \in Blobs : Target(b) = d => work[b] \notin {"doing", "got"}

\* pushFile's GET, pullFile's POST: refused, they fail.
DeviceBegins(b) ==
  /\ work[b] = "asked" /\ Idle(Target(b))
  /\ LET token == device[Target(b)] # None
     IN  IF Op[b].kind = "send"
         THEN /\ \/ /\ token /\ row[b] # None /\ bytes[b] # "none"
                    /\ work' = [work EXCEPT ![b] = "doing"]
                 \/ work' = [work EXCEPT ![b] = "failed"]
              /\ UNCHANGED put
         ELSE \/ token /\ work' = [work EXCEPT ![b] = "doing"] /\ put' = [put EXCEPT ![b] = "copy"]
              \/ work' = [work EXCEPT ![b] = "failed"] /\ UNCHANGED put
  /\ UNCHANGED <<row, bytes, old, todo, url, dest, wrote, told, misheard>>

DeviceUploaded(b) ==
  /\ Op[b].kind = "call" /\ work[b] = "doing" /\ ~Putting(b)
  /\ work' = [work EXCEPT ![b] = IF Lost(b) THEN "failed" ELSE "did"]
  /\ UNCHANGED <<put, row, bytes, old, todo, url, dest, wrote, told, misheard>>

\* The temporary file has all of the body, or is removed.
DeviceDownloaded(b) ==
  /\ Op[b].kind = "send" /\ work[b] = "doing"
  /\ \E next \in {"got", "failed"} : work' = [work EXCEPT ![b] = next]
  /\ UNCHANGED <<put, row, bytes, old, todo, url, dest, wrote, told, misheard>>

\* Mutant: the rename's failure is not looked at.
BugReplace(b) ==
  /\ work[b] = "got"
  /\ work' = [work EXCEPT ![b] = "did"]
  /\ \/ dest' = [dest EXCEPT ![Target(b)] = b] /\ wrote' = wrote \cup {b}
     \/ UNCHANGED <<dest, wrote>>
  /\ UNCHANGED <<put, row, bytes, old, todo, url, told, misheard>>

\* chmod and rename.
Replace(b) ==
  /\ work[b] = "got"
  /\ \/ /\ dest' = [dest EXCEPT ![Target(b)] = b] /\ wrote' = wrote \cup {b}
        /\ work' = [work EXCEPT ![b] = "did"]
     \/ work' = [work EXCEPT ![b] = "failed"] /\ UNCHANGED <<dest, wrote>>
  /\ UNCHANGED <<put, row, bytes, old, todo, url, told, misheard>>

DeviceStep(b) ==
  /\ DeviceBegins(b) \/ DeviceUploaded(b) \/ DeviceDownloaded(b) \/ Replace(b)
  /\ UNCHANGED <<pc, restVars, shotVars, faults>>

-----------------------------------------------------------------------------
(***************************************************************************)
(* Retention of blobs: StartGC, PruneOlderThan, Delete                     *)
(***************************************************************************)
BlobAges(b) ==
  /\ b \notin old /\ put[b] \in {"stored", "stray"}
  /\ old' = old \cup {b}
  /\ UNCHANGED <<pc, restVars, shotVars, faults, put, row, bytes, todo, url, work, dest, wrote, told, misheard>>

Prune ==
  /\ todo = {}
  /\ {b \in old : row[b] # None} # {}
  /\ todo' = {b \in old : row[b] # None}
  /\ UNCHANGED <<faults, put, row, bytes, old>>

\* The file, which may be gone already; if it cannot be removed the row stays,
\* and the next prune comes back to it ...
DeleteBytes(b) ==
  /\ b \in todo /\ put[b] = "stored"
  /\ \/ /\ bytes' = [bytes EXCEPT ![b] = "none"]
        /\ put' = [put EXCEPT ![b] = "deleting"]
        /\ UNCHANGED <<faults, todo>>
     \/ /\ faults < MaxFaults /\ faults' = faults + 1
        /\ todo' = todo \ {b} /\ UNCHANGED <<bytes, put>>
  /\ UNCHANGED <<row, old>>

\* ... then the row, the same.
DeleteRow(b) ==
  /\ b \in todo /\ put[b] = "deleting"
  /\ todo' = todo \ {b}
  /\ \/ row' = [row EXCEPT ![b] = None] /\ put' = [put EXCEPT ![b] = "deleted"] /\ UNCHANGED faults
     \/ /\ faults < MaxFaults /\ faults' = faults + 1
        /\ put' = [put EXCEPT ![b] = "stored"] /\ UNCHANGED row
  /\ UNCHANGED <<bytes, old>>

PruneStep ==
  /\ Prune \/ \E b \in Blobs : DeleteBytes(b) \/ DeleteRow(b)
  /\ UNCHANGED <<pc, restVars, shotVars, url, work, dest, wrote, told, misheard>>

-----------------------------------------------------------------------------
(***************************************************************************)
(* The last screenshot of each device                                      *)
(***************************************************************************)
\* deviceScreenshot?live=1: the device is the account's ...
LiveScreenshot(r) ==
  /\ At(r, "live", "in")
  /\ Goto(r, IF Owns(who[r], Op[r].dev) THEN "resolved" ELSE "done")
  /\ UNCHANGED <<restVars, fileVars>>

\* ... and captured, or not.  Save: the rename, then the index.
SaveShot(r) ==
  /\ At(r, "live", "sent")
  /\ \/ shot' = [shot EXCEPT ![Op[r].dev] = "fresh"] /\ Goto(r, "indexing")
     \/ Goto(r, "done") /\ UNCHANGED shot
  /\ UNCHANGED <<restVars, blobVars, faults, at, doomed, unindex>>

IndexShot(r) ==
  /\ At(r, "live", "indexing")
  /\ at' = at \cup {Op[r].dev}
  /\ Goto(r, "done")
  /\ UNCHANGED <<restVars, blobVars, faults, shot, doomed, unindex>>

\* deleteDevice goes on: Shots.Delete (Replay.Forget is in ReplayStore).
ForgetShot(r) ==
  /\ At(r, "deleteDevice", "forgetting")
  /\ shot' = [shot EXCEPT ![Op[r].dev] = "none"]
  /\ Goto(r, "unindexing")
  /\ UNCHANGED <<restVars, blobVars, faults, at, doomed, unindex>>

UnindexShot(r) ==
  /\ At(r, "deleteDevice", "unindexing")
  /\ at' = at \ {Op[r].dev}
  /\ Goto(r, "done")
  /\ UNCHANGED <<restVars, blobVars, faults, shot, doomed, unindex>>

ShotAges(d) ==
  /\ shot[d] = "fresh"
  /\ shot' = [shot EXCEPT ![d] = "old"]
  /\ UNCHANGED <<pc, restVars, blobVars, faults, at, doomed, unindex>>

\* Mutant: the sweep goes by the index instead of the directory.
BugSweepLooks ==
  /\ doomed = {} /\ unindex = {}
  /\ {d \in at : shot[d] = "old"} # {}
  /\ doomed' = {d \in at : shot[d] = "old"}
  /\ UNCHANGED <<shot, at, unindex>>

\* sweep: what is old when it looks ...
SweepLooks ==
  /\ doomed = {} /\ unindex = {}
  /\ {d \in Devs : shot[d] = "old"} # {}
  /\ doomed' = {d \in Devs : shot[d] = "old"}
  /\ UNCHANGED <<shot, at, unindex>>

\* ... is removed by name, whatever is there by then.
SweepRemoves(d) ==
  /\ d \in doomed
  /\ doomed' = doomed \ {d}
  /\ unindex' = IF shot[d] = "none" THEN unindex ELSE unindex \cup {d}
  /\ shot' = [shot EXCEPT ![d] = "none"]
  /\ UNCHANGED at

SweepUnindexes(d) ==
  /\ d \in unindex
  /\ unindex' = unindex \ {d} /\ at' = at \ {d}
  /\ UNCHANGED <<shot, doomed>>

SweepStep ==
  /\ SweepLooks \/ \E d \in Devs : SweepRemoves(d) \/ SweepUnindexes(d)
  /\ UNCHANGED <<pc, restVars, blobVars, faults>>

-----------------------------------------------------------------------------
\* The server dies and comes back: requests, sockets, lockouts and sweeps are
\* gone, the index of frames is built again from the directory, and signed URLs
\* are good only if the signing key is configured.
Crash ==
  /\ faults < MaxFaults /\ faults' = faults + 1
  /\ pc' = [r \in Reqs |-> IF (r \in Open /\ pc[r] # "new") \/ (pc[r] = "sent" /\ Op[r].kind \in {"call", "live"})
                           THEN "done" ELSE pc[r]]
  /\ live' = {}
  /\ fails' = 0 /\ locked' = FALSE /\ burst' = 0 /\ racing' = 0
  /\ put' = [b \in Blobs |-> CASE Putting(b) -> "stray"
                               [] put[b] = "deleting" -> "stored"
                               [] OTHER -> put[b]]
  /\ \/ UNCHANGED url
     \/ url' = [r \in Minters |-> FALSE]
  /\ todo' = {} /\ doomed' = {} /\ unindex' = {}
  /\ at' = {d \in Devs : shot[d] # "none"}
  /\ UNCHANGED <<who, accounts, link, session, contended, device, key, listed, print, pairing, scope, left,
                 minted, approver, row, bytes, old, work, dest, shot, wrote, told, misheard>>

FileStep ==
  \/ \E r \in {q \in Reqs : pc[q] = "sent"} : SendFile(r) \/ GetFile(r) \/ SaveShot(r)
  \/ \E r \in Open : \/ LinkBlob(r) \/ Send(r) \/ Deliver(r) \/ Answer(r) \/ Fetch(r) \/ ReadAsDevice(r) \/ Download(r)
                     \/ LiveScreenshot(r) \/ IndexShot(r) \/ ForgetShot(r) \/ UnindexShot(r)
  \/ \E b \in Blobs : PutStep(b) \/ DeviceStep(b) \/ BlobAges(b)
  \/ \E r \in Minters : UrlExpires(r)
  \/ \E d \in Devs : ShotAges(d)
  \/ PruneStep \/ SweepStep \/ Crash

-----------------------------------------------------------------------------
(***************************************************************************)
(* Rights                                                                  *)
(***************************************************************************)
\* What of its needs holds right now.
Holds(r, need) ==
  CASE need = "session" -> session[Op[r].by] # None
    [] need = "key"     -> key[Op[r].key] # None
    [] need = "method"  -> key[Op[r].key] # None /\ AllowsMethod(key[Op[r].key], Op[r].method)
    [] need = "tunnel"  -> key[Op[r].key] # None /\ key[Op[r].key].tunnel
    [] need = "inScope" -> key[Op[r].key] # None
                            /\ (key[Op[r].key].allDevices \/ <<Op[r].key, Op[r].dev>> \in listed)
    [] need = "owned"   -> who[r] # None /\ Owns(who[r], Op[r].dev)
    [] need = "account" -> who[r] # None /\ who[r] = Asker(Op[r].blob)
    [] need = "print"   -> print[Op[r].print] # None
    [] need = "known"   -> device[Op[r].by] # None
    [] need = "own"     -> Op[r].dev \in {None, Op[r].by}
    [] need = "token"   -> device[Op[r].dev] # None /\ device[Op[r].dev].token = Op[r].token
    [] need = "exists"  -> device[Op[r].dev] # None
    [] need = "signed"  -> url[Op[r].of]

\* The moment before each step of anyone counts for the requests under way.
Watch ==
  seen' = [r \in Watched |-> IF r \notin Open THEN seen[r]
                             ELSE seen[r] \cup {n \in Needs(r) : Holds(r, n) /\ (pc[r] # "new" \/ pc'[r] # "new")}]

-----------------------------------------------------------------------------
Init == SignInInit /\ AccessInit /\ FilesInit

Next ==
  /\ \/ AccessStep /\ UNCHANGED fileVars
     \/ FileStep
  /\ Watch

\* The two sweeps run on timers and the database answers in the end.
Spec == Init /\ [][Next]_allVars
        /\ WF_allVars(PruneStep /\ Watch) /\ WF_allVars(SweepStep /\ Watch)

-----------------------------------------------------------------------------
TypeOK ==
  /\ put \in [Blobs -> {"none", "copy", "rename", "record", "stored", "failed", "stray", "deleting", "deleted"}]
  /\ bytes \in [Blobs -> {"none", "part", "whole"}]
  /\ work \in [Blobs -> {"none", "asked", "doing", "got", "did", "failed"}]
  /\ old \cup todo \subseteq Blobs /\ dest \in [Devs -> Blobs \cup {None}]
  /\ shot \in [Devs -> {"none", "fresh", "old"}] /\ at \cup doomed \cup unindex \subseteq Devs
  /\ faults \in 0..MaxFaults

(***************************************************************************)
(* Whatever is edited, revoked, rotated or deleted while a request runs,   *)
(* nobody gets a device's connection or the bytes that came off a device,  *)
(* and no device is registered, on a right that did not exist at any       *)
(* moment of the request: the session, the key, its method or tunnel flag, *)
(* its reach to the device, the account's ownership of the device, that    *)
(* the bytes were moved for this very account, the SSH key, the token, the *)
(* signature; a browser device needs no more than to exist.  So a          *)
(* revocation that is stored binds every request made after it, and an     *)
(* edit of a key counts in each of its parts (a request that runs across   *)
(* it may see the old methods with the new devices).                       *)
(***************************************************************************)
Authorised == \A r \in Watched : InHand(r) => Needs(r) \subseteq seen[r]

(***************************************************************************)
(* A blob that can be found can be read: whatever failed or crashed while  *)
(* it was stored, a row has all of its bytes on disk, until its retention  *)
(* is over.                                                                *)
(***************************************************************************)
Whole == TypeOK /\ \A b \in Blobs : row[b] # None => bytes[b] = "whole" \/ (b \in old /\ bytes[b] = "none")

(***************************************************************************)
(* send_file's word is good: a POST answered "written" has put its own     *)
(* bytes in place on the device it was minted for, though the same URL may *)
(* be posted to twice at once, the deadline may pass while the device      *)
(* writes, and the server may die in between.  The exception is an answer  *)
(* that was another command's: it takes a device that has dialed in again  *)
(* or a computer call that chose the command's number for its id, and then *)
(* "written" may be said of bytes that are nowhere.                        *)
(***************************************************************************)
Delivered ==
  \A b \in told \ misheard : b \in wrote /\ \E c \in wrote : dest[Target(b)] = c /\ Target(c) = Target(b)

(***************************************************************************)
(* Nothing outlives its retention: time and again a moment comes when no   *)
(* blob past its retention has bytes or a row and no old frame is on disk, *)
(* though a deletion may stop half way, a frame be written over while a    *)
(* sweep is at it, and its device be deleted or missing from the index.    *)
(* The exception is a file of Put's that no row names, left by a crash or  *)
(* by an upload that failed and could not be undone: it is never taken.    *)
(***************************************************************************)
RetentionHolds ==
  []<>(/\ \A b \in old : put[b] = "stray" \/ (row[b] = None /\ bytes[b] = "none")
       /\ \A d \in Devs : shot[d] # "old")
=============================================================================

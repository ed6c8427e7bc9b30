# abacad in TLA+

Formal models of abacad: the relay server that lets an AI agent drive somebody's phone or
computer, and the client at the far end. The project holds TLA+ modules, the TLC
configurations that check them on small instances, and TLAPS proofs of theorems about them
for every size. Paths below are relative to the repository; `B/` stands for
`src/server/backend/internal/` and `L/` for `src/linux/internal/`.

1. [The system](#1-the-system): components, state, operations, what is hard
2. [Modules](#2-modules): what models what
3. [Runs](#3-runs): what TLC checks, bounds, fairness
4. [Where code and text disagree](#4-where-code-and-text-disagree)
5. [Proofs](#5-proofs)
6. [What is left out](#6-what-is-left-out)
7. [Plan](#7-plan)
8. [Running it](#8-running-it)

## 1. The system

An agent speaks MCP to the server (`B/mcp`); each tool call becomes a command that the relay
(`B/relay`) writes to the one WebSocket of the device it is meant for, and waits for the reply
with the same id. Tunnels (`B/connect`, `B/sshjump`) multiplex byte streams over the same
socket. A live view (`B/vnc`) makes the device dial back a second socket and joins it to a
browser's. A recorder (`B/replay`) sees every command on its way past and keeps a timeline with
pictures. Devices come to exist by registering themselves and being claimed with a short code
(`B/api/enroll.go`), or by the older pairing (`B/api/pair.go`). SQLite (`B/store`) is the only
durable state besides image and blob files. One process serves everything; a crash loses what
is in memory.

```
 agent --MCP--> mcp --Send--> relay.DeviceConn ==WebSocket==> agent on the device
                               |   ^   |                       |  |  |
                    observer --+   |   +-- streams ----------- tunnel |
                        v          |                              vncHandler
                     replay      hub  <-- handler, devicegc           |
                        |                                             |
                      store, frames            vnc.Manager <==second WebSocket
                                                   ^
                                                browser
```

### Components

| component | state | operations | what is hard | what makes it correct |
|---|---|---|---|---|
| **Hub and device sockets** `B/relay/hub.go`, `B/device/handler.go`, ping loop of `B/relay/conn.go`, `B/devicegc` | map device -> socket; per socket a closed flag, missed probes | register, remove, kick, probe, sweep expired | two reconnects race; clean-up of an old socket after its replacement; sweep works from a list; a pump that never returns | one drivable socket, never a ghost entry, closed/silent/expired ends offline |
| **Command lane** `B/relay/conn.go`, `L/agent/websocket.go`, `L/agent/agent.go` | pending map, sequence number, one-slot waiter channel per call | Send, SendComputer, ReadPump, reply, time out | reply races the timer and the reconnect; ids callers choose beside numbers; the pump sends on a channel nobody may read | a call returns, and returns its own reply; a command runs once |
| **Tunnel lane** `B/relay/stream.go`, `conn.go`, `gate.go`, `L/agent/tunnel.go` | stream table, bounded buffers, device connection table | open, read, write, close, revoke, tear down | gate read before insertion; three parties close; a full buffer blocks the pump | no byte skipped, EOF complete, revocation cuts, teardown reaches all |
| **Live view** `B/vnc`, `L/agent/vnc.go` | sessions in three maps, timers, both sockets; device's handler | Start, Stop, ingress, watch, TTL | overlapping Starts, late replies, stop commands that overtake | a closed session is clean, none is forgotten, device lets go |
| **Replay recorder** `B/replay/replay.go` | bounded channel, pending capture per device, frame counter | record, settle timer, capture | captures are commands that are recorded; the switch is read in one step and mirrored in another | every action gets its after-picture; off is heeded; it comes to rest |
| **Replay store** `B/replay/frames.go`, `B/store/replay.go` | rows, image files | write, trim, prune, forget, sweep | file and row are two steps; crash between | row has its file; only old ones go; the window holds |
| **Enrollment** `B/api/enroll.go`, `L/enroll`, `L/gui` set-up page | registrations, claim codes, devices; client's token in memory and on disk | register, heartbeat, claim, rotate, reap, persist | claim between two statements of a heartbeat; lost answers; code rotates under the typist | identity is kept, current code only, guesses bounded |
| **Capability gate** `B/relay/gate.go`, `B/protocol/capability.go`, `L/capability`, `L/agent/capability.go` | the account's grant and the device's report in one row; the agent's ceiling and its file | authorize a command, a composite, a stream; report, edit the file, start with it | a composite is checked need by need; an old socket's report stored late; a file cut short | nothing is sent unauthorised; the device has the last word; the mirror tells the truth |
| **Linux dispatcher** `L/agent/dispatcher.go`, `composite.go`, `screenshotcache.go`, `recorder.go`, `L/x11` | one lock at the screen, pressed keys, a cached screenshot, recordings and their uploads | execute, refuse, take a picture, start and stop recording | cache against action; a composite that fails halfway; uploads, stops and timers of several recordings; an upload that never ends | no stale picture, nothing left pressed, the recorder knows its encoder, every command answered |
| **Sign-in** `B/api/api.go`, `oauth.go`, `ratelimit.go` (login limiter), `B/auth` | accounts, linked identities, sessions, a failure counter | register, log in, sign in with Google, log out, expire | limiter asked before and told after the password; look-up, then link, then create | guesses are bounded; one Google identity is one account |
| **Access** `B/auth`, `B/resolver`, `B/api/api.go`, `B/mcp/server.go`, `B/sshjump` | API keys with scopes, device owners and tokens, SSH keys | issue, narrow, revoke, rotate, resolve, dial | a scope is read in two statements, checked once and used later | every right used was held during the request; accounts stay apart |
| **Pairing** `B/api/pair.go`, `linux/cmd/abacad/connect.go` | pairing rows with a status | start, approve, poll and mint, reap | two approvers, two polls; used in one statement, minted in another | at most one device per pairing, the first approver's |
| **Blobs, screenshots** `B/blob`, `B/screenshot`, file tools of `B/mcp/tools.go` | rows and files; the last frame of each device | put, sign, deliver, read, prune; save, delete, sweep, index | file before row; the device's deadline; a reply that is another command's; sweep against a new frame | a row has its bytes; "written" is true; retention is kept |
| Quota limiter, activity and events, MCP wording, migrations, window, other clients, web | see section 6 | | | |

The full list, with sources and status, is `components` in `PROJECT.json`; `hazards` there
lists what in this code is hard to test, each at its line, with the properties that cover it or
the reason none does.

### How the parts interact

* *Shared locks.* `Hub.mu`, `DeviceConn.mu` and `streamsMu`, `Manager.mu` and each session's
  mutex are held for short sections; closing, writing to sockets and waiting happen outside.
  Every model makes a critical section one action and what happens between two of them
  separate actions.
* *Callbacks.* `Remove` happens only because `ReadPump` returned; a stream's `finish` runs under
  `closeOnce`; the replay observer runs inside `Send`; timers run in goroutines of their own.
* *Messages.* A WebSocket delivers in order until it breaks; what was in flight then is lost.
  A device that reconnects starts a new socket, with new numbering, and keeps its own state.
* *One writer of the database.* `SetMaxOpenConns(1)`: a handler is a sequence of statements, and
  every other request may run between two of them.
* *Two-step durable changes.* Row and file, or two SQL statements, with a crash or a failing
  statement in between. A statement alone is atomic (SQLite).

## 2. Modules

Each module models one component; its header says which files. `map` in `PROJECT.json` gives
the lines of every definition. Names are the code's where TLA+ allows it.

### DeviceHub

A *connection* is one accepted WebSocket and the goroutine that serves it.

| code | model |
|---|---|
| `Hub.conns` | `hub[d]` |
| `Handler.ServeHTTP` of one socket, between its steps | `pc[c]`: idle, resolved, evicting, reading, blocked, ended, done |
| token lookup and accept / `Hub.Register` under the lock / its close of the old socket | `Resolve` / `Register` / `EvictOld` |
| `ReadPump` blocked in `ch <- reply`, returning; `Hub.Remove` | `PumpBlocks`, `PumpUnblocks`, `PumpEnds`; `Remove` |
| `DeviceConn.closed`, `pingLoop` | `closed[c]`, `misses[c]`, `PingAnswered`, `PingMissed` |
| `devicegc.sweep`: list, then `Kick` one by one (get, then close) | `SweepList`, `KickGet`, `KickClose` |
| expiry, extension, deletion of the device row | `row[d]`, `Expire`, `Extend`, `Delete` |
| the far end | `peer[c]`: up, silent, gone (external) |

### DeviceCall and RemoteCall

`RemoteCall` is the promise of `Send` in a page: a call is idle, active, answered, failed or
mistaken, a command is handled at most once, and a call is answered only after its command was
handled. An id the lane makes is new on its link; one a caller chose need not be. *Mistaken*, a
reply that belongs to another command, takes a handled command of the same id over the same or an
earlier link: the two ways the code has to get there (section 4). `DeviceCall` is the
lane that keeps the promise: sequence numbers per connection, the pending map, the one-slot
waiter channel, timers, the pump that takes a waiter out under the lock and sends to it outside,
`SendComputer` with an id the caller chose, which is refused if it is in the map but which a later
`Send` of that number overwrites there without looking, the agent that works commands off while the socket may
change under it and answers on the current one, and reconnects up to `MaxConn` (bound). A frame is
`[key, call]`: the number on the wire and, for the properties only, the call it was made for. The
refinement mapping is `Abstract` in the module, and is checked across two sockets and, with `x1` and
`x2`, for a computer command tried again under its transport id, the number 1 of a `Send`.

### StreamLane

One connection and the streams opened on it. `table` is `DeviceConn.streams`; `inbox[s]` the
bounded channel of a `Stream`; `fin[s]` how far `finish` has got in its `closeOnce` (others wait
for the first); `tear` and `doomed` how far `closeWith`; `pump` and `held` the read pump and what
it is busy with: a payload for a full buffer, which a close gives up, or ("blocked") a text reply
for a waiter that left, which nothing does; `apc`, `prev`, `next`, `sweep` a `setCapabilities` request at each of its steps;
`toDev`, `toSrv`, `dconns`, `loops` the wire and the agent's `Tunnel`. The device numbers the
payloads of a stream (at most `MaxData`, a bound); bytes towards the device are left out, since
nothing in the server stores them.

### LiveView

`vnc.Manager` and the agent's `vncHandler`. The three maps are `byDevice`, `byIngress`,
`byTicket`. `spc[s]` is where the `Start` that created `s` stands, `victim[s]` the session it
replaces. `closing[s]` splits `session.close` into the part under the session's lock
(`CloseMark`) and the rest (`CloseRest`), between which an ingress or a browser may be looked up
or attached. On the device, `active` and `starting` are the handler's fields under its lock,
`ws[s]` and `pipe[s]` the dialed socket and its copying goroutine, which stops the handler when
it ends, whichever session is active then. Stop commands are messages without a session's name
(`stops`), as in the code.

### ReplayRecorder and ReplayStore

The recorder is split in two at the writer's insert. *ReplayRecorder* has everything before it:
the recording switch in the row (`setting`) and on the connection (`flag`) with the two writers
of the latter (`SwitchLive`, `Mirror`), the observer in `Send`, the bounded channel, the
writer's choice whether to schedule a capture, the settle timer, and the capture, a command that
comes back through the observer itself, fails (then it is still observed, as a row without a
picture), or is not made because recording is off. `seen[c]` is the setting the command's `Resolve`
read and `turn[c]`, history, how often the owner had switched by then. A frame is the state of the screen it shows, a number
that grows with every action executed. *ReplayStore* has everything after it: image and row in
two steps, trimming to `Keep` per device, pruning past `Window`, the sweep of images by their own
age, `Forget`, crashes, and statements that fail. Time is an age per step, advanced by `Tick`; a
timeline is its steps in order.

### Enrollment

One client, its relay rows and the people who type claim codes. `row[i]` is registration, then
device, of identity `i`; `hb` a heartbeat request between its statements; `claim[c]` a claim
request of account `c` between its statements; `pc`, `mem`, `disk`, `screen`, `pass`, `missed`
the client's `Session.Run` / `runPass` / `waitForClaim`, its token in memory and on disk and the
code it displays. The client runs either as the daemon or behind the window of the set-up page
(`front`). Lost messages and failing saves draw on one budget `MaxFaults`.

### Capabilities

`account` and `client` are the two columns of the device's row, `Effective` their intersection in
one query. A call (`pc`, `on`, `idx`) takes a socket from the hub, asks for its needs one by one,
each a reading of the row, and sends. `pump`, `hand` and `toSrv` are the read pump of each socket,
the report it has read and not stored yet, and the reports on the wire: a report is stored by
device, not by socket. On the device, `ceiling` is what the running process loaded, `blind` that it
could not read its `file`, `cur` its socket; `tool` is the command line tool, which writes the file
in place in two steps. History variables say what a property needs to compare with: what the row
allowed while a call was made (`seen`), what the owner of the machine last asked for (`wanted`),
and what they had asked for when the process started (`booted`, `under`).

### AgentDispatch

Each command of the `inbox` gets a goroutine (`pc`), which waits for the dispatcher's `lock`. The
screen is a version that every command with an effect moves on; `held` is what is pressed,
`pinned` the part a composite pressed on purpose. A composite goes on by its steps and a text by its
characters, each a step of its own (`step`), since either may stop in between; what a sequence of
presses and releases leaves down is given in one formula (`After`): what it did not touch, and what
it pressed last. `gen` and `entry` are the
screenshot cache. The recorder has its own lock (`rmu`), phase and current recording (`phase`,
`cmd`), encoder processes (`encoding`), one upload goroutine and one timer per recording, the clip
it offers (`blob`), and `notice`, what the person at the machine is shown. An upload, and a push or
pull of a file (the verb "transfer"), may never end.

### SignIn, Access and Files

One program in three modules: Files EXTENDS Access, which EXTENDS SignIn. A behaviour is a *batch*
of requests (`Op[r]`: kind and arguments), chosen in `Init`; `pc[r]` is the next statement of the
handler of `r`, and each statement, each look at a file and each wait is one action. *SignIn*:
registration, the password with its limiter, Google, sessions. *Access*: what a session, an API
key, an SSH key, a pairing, a device token or, for a browser that serves as a device, its host name
(`DeviceByHost`: the id is all it takes) gives a right to, and the requests that change it; a
request that ends at "sent" has a device's connection in hand. *Files* goes on from there: a blob's
body, file and row (`put`, `bytes`, `row`), the signed URL (`url`), the device's transfer and its
destination (`work`, `dest`), retention (`old`, `todo`), the screenshot of each device with its
index and the sweep (`shot`, `at`, `doomed`, `unindex`), and crashes. An upload that fails or dies
may leave a file without a row, temporary or not (`put[b]` is "stray"). Where a reply to another
command of the device can arrive (`Confusable`), a waiting `send` or `pull` may take it for its own
(`misheard`). `seen[r]` collects which of the rights it `Needs` held at some moment of the request,
by the state as it is and not by what the handler has looked at (`Holds`). `Spec` of Files is the
one the run uses; it includes all actions of the other two.

### MC modules and proofs

`MC*.tla` only name the finite sets the configurations need. `DeviceHubProofs`,
`DeviceCallProofs`, `StreamLaneProofs`, `ViewReplayProofs` (of LiveView, ReplayRecorder and
ReplayStore, which it extends together; hence their `LiveSpec`, `RecorderSpec`, `StoreSpec`),
`EnrollmentProofs`, `CapabilitiesProofs`, `AgentDispatchProofs` and `FilesProofs` (of SignIn, Access
and Files) hold the theorems of section 5. Operators named
`Bug...` are variants of an action or helper, each a bug the code could plausibly have; they are
not part of any specification. `mutants` in `PROJECT.json` says which property fails when one
takes its original's place.

## 3. Runs

| run | module, cfg | states | asks |
|---|---|---|---|
| `hub` | MCDeviceHub, DeviceHub | 61 k | One device, two sockets, two misses allowed. No ghost entry, no displaced socket left open (`Sound`), an entry is lost only to its successor or by its own closed socket, and closed, silent and expired ones end offline, or closed with a pump that is stuck. |
| `call` | MCDeviceCall, DeviceCall | 769 k | Any two of two `Send`s and two `SendComputer` tries under one id, which is also a number of `Send`, two sockets. The pending map is exact but where such ids clash, a wrong reply has the id of the call and comes from an earlier socket or a clash, the lane implements RemoteCall, every call returns, also with the pump stuck. |
| `stream` | MCStreamLane, StreamLane | 865 k | One stream, one capability request, three payloads through a buffer of one. Payloads in order and a complete EOF (`Ordered`), no orphan after teardown and a device that lets go (`Released`), a revocation cuts what it found, teardown completes for every stream whatever the pump is stuck in. |
| `stream_exposed` | MCStreamLane, StreamLane_exposed | - | Asked for `LiveStreamsAllowed`: violated (section 4). |
| `view` | MCLiveView, LiveView | 395 k | Two sessions and a browser. A closed session is clean, none that was handed out is left without an end (`NoneForgotten`), the device serves one and lets go of each. |
| `view_orphan` | MCLiveView, LiveView_orphan | - | Asked for `SessionsEnd`: violated (section 4). |
| `replay` | MCReplayRecorder, ReplayRecorder | 2.3 M | Two actions and a look, a channel of two, one turn of the switch. A frame follows every action, a command that found recording off leaves nothing (`OffIsHeeded`), the recorder comes to rest. |
| `replay_store` | MCReplayStore, ReplayStore | 600 k | Three steps, one without a frame, window and cap of one, one fault or crash. Rows have their files (`Kept`), only old or surplus rows go, nothing outstays the window. |
| `enroll` | MCEnrollment, Enrollment | 1.3 M | One identity, two claimers, two codes, two guesses, two failures in a row, two faults. Guesses are bounded, the daemon keeps its identity, only the current code claims; a claim is learned and unclaimed rows go (`Settles`). |
| `capabilities` | MCCapabilities, Capabilities | 3.7 M | One of five calls (a composite, one with an unknown op, a stop, streams to sshd and elsewhere), two sockets, two updates by the owner, one edit of the file. Every need of a sent call was allowed while it was made, the device's own ceiling has the last word, the mirror is right but for two named ways. |
| `dispatch` | MCAgentDispatch, AgentDispatch | 594 k | Four orders of arrival over eleven commands. No screenshot is older than its turn, nothing stays pressed but what a composite left, the recorder knows its encoder, every command is answered unless bytes that never arrive hold a lock. |
| `access_files` | MCFiles, Files | 189 k | Twenty-one batches of two to five racing requests, with one crash or failing deletion where files move. See below. |

The eight properties of `access_files`: `Whole` (a row has all its bytes), `Delivered` (a send
answered "written" was written, unless the answer was another command's),
`AccountsApart` (a key lists only existing devices of its own account),
`Authorised` (every right a device's connection or a transfer's bytes take held at some moment of
the request, the blob's account among them), `OneDevicePerPairing`
(and it is the first approver's),
`LockoutBounds` (wrong passwords between two resets of the limiter: its limit, and those already
past it when it locked), `OneIdentity` (a session opened through Google is of the
account its subject is linked to), and
`RetentionHolds` (what is old goes, though deletions stop half way; not the files of an upload that
no row names).

### Bounds, and why they are enough

* *Two of everything that races.* Two sockets of a device are enough for every order of
  evict / remove / kick between an old one and its replacement; `DeviceHubProofs` removes the
  bound. Two sessions are enough for a replacement and its predecessor. Two claimers are enough
  for guesses that overlap and for a claim between another's look-up and its claim.
* *Devices are independent.* Nothing in hub, lane, view or recorder relates two devices, so one
  is modelled.
* *Batches.* Requests of `access_files` that touch no common row, file or session commute, so a
  batch holds those that race for one thing, and every kind of request is in at least one. What no
  request of a batch names (`Asked`) starts absent: it could change nothing. Faults are explored in
  the batches that move files or frames; sign-in and rights live in single statements, which a
  crash does not split. The limiter's `MaxFails` is 2, with four wrong logins and a right one.
* *One call at the gate* (`MaxCalls`): calls share nothing that a call writes, so what happens to
  one is what the owner, the reports and the device do meanwhile. Two sockets and two updates let an
  old report arrive after a newer one, and a grant be narrowed and widened within a composite.
* *Four arrivals at the dispatcher*, one per thing that can go wrong: screenshots among typing, a
  composite that fails at any step, two recordings with a stop and a cap, a status or a push
  meanwhile. Each
  is handled in every order the goroutines may get the lock.
* *One stream.* What streams do to each other, a full buffer of one holding up the pump for all, is
  not in the run; `InOrder` and `NobodyHolds` are proved for any number.
* *Buffers of one or two*, smaller than the number of items that pass: full and empty both
  happen. `MaxData` = 3 lets one payload be read, one buffered and one held by the pump.
* *Misses, guesses, transient failures* of two: the first is survived, the second is the limit.
  The code's limits differ in value only.
* *Counters.* The bounds on sockets, payloads, switches, codes and faults are named `Max...` and
  stand in the guards of the environment's actions (dialing, sending, typing a wrong code, a code
  growing old, losing); the server's own steps are not bounded by them. `MaxIds` is the room the
  relay has for identities: a registration beyond it is refused, as beyond the code's own limits.
* *Deadlock* is not checked, with the reason in each configuration: in each a state without
  successors is a state in which everything is over and nobody is obliged to start anew.

### Fairness, and why the code justifies it

Fairness is given to goroutines, timers and tickers of the server and the client, never to
people or the network, and strong fairness only where a lock is contended.

* *DeviceHub*: weak fairness of the handler's steps, of the ping loop's verdict on a peer that
  does not answer, and of the sweep. A goroutine that can run does; a `time.Ticker` ticks. No
  device has to dial, no peer has to fall silent, and a pump blocked on a waiter's channel need not
  come free, also not by a close (`conn.go:752`).
* *DeviceCall*: each call goes on and its timer fires; the pump reads unless it is blocked on a
  waiter that left; a connection whose peer is gone is closed by the ping loop. The device never has
  to answer, nor the agent to reconnect.
* *StreamLane*: opening, finishing, the pump and the teardown run, and an evicted connection is
  closed. Nobody has to open, read, write or close, and a pump blocked on a text reply's waiter may
  stay so.
* *LiveView*: `Start` goes on, its TTL timer fires, a closed session's sockets fail in their
  copying goroutine, a delivered start command is handled. `DeviceStart` and `PipeStops` wait for
  the handler's mutex, which other sessions take too: Go's mutex hands over to a waiter after a
  millisecond, so they get it if it is free again and again (strong fairness). No stop command
  has to arrive: they are sent by a detached goroutine that ignores errors.
* *ReplayRecorder*: the owner's request finishes, the writer writes, commands and captures end.
* *ReplayStore*: the writer writes, the retention loop loops, time passes.
* *AgentDispatch*: one weak fairness for the agent as a whole: while some command can go on, one
  does. It includes an encoder that quits when told to, since a stop waits for it. Bytes need not
  arrive: the HTTP client is made without a timeout (`L/agent/blobclient.go:35`), so an upload, which
  keeps the recorder's lock, or a push or pull, which keeps the dispatcher's, may never end, and
  `Answered` says which commands that stops. Clocks are not fair: no picture has to age, no cap to
  fire. That the locks starve nobody is not needed with finitely many commands.
* *Files*: the prune of blobs and the sweep of frames go on, as their tickers do. No request has to
  be made or finished.
* *Enrollment*: the client goes on and the server answers or fails; the sweeper sweeps, and
  registrations grow old. Nobody has to type a code.

## 4. Where code and text disagree

Two runs end in a counterexample on purpose: the property is a sentence of a document or a
comment, and the trace is what the code does. They are `findings` in `PROJECT.json`.

* **A stream that outlives its capability** (`stream_exposed`, `B/relay/conn.go:338`).
  `OpenStream` asks the gate before it puts the stream into the table; a revocation whose
  snapshot falls in between misses it. `docs/capabilities.md:55`: "Narrowing takes effect
  immediately, including on sessions already running: revoking the tunnel closes open streams".
* **A live view nobody ends** (`view_orphan`, `B/vnc/vnc.go:160`). If the device has connected
  but its answer to the start command is late, `Start` removes the session from the maps without
  closing it and no TTL was armed. `vnc.go:28-29`: "the whole session (device VNC included) is
  torn down after it, even if nobody watched".

Noted while modelling, without a run of their own. The models contain each behaviour unless the
entry says otherwise, and the property that comes nearest says what holds all the same.

*Relay*

* Every `DeviceConn` counts its commands from 1, and the Linux agent writes a reply on whatever
  socket is current by then (`L/agent/websocket.go:180-189`). After a reconnect a late reply to
  command 1 of the old socket is taken for the reply to command 1 of the new one
  (`B/relay/conn.go:747`), though `conn.go:398` says `Send` "waits for the correlated reply".
  `MixupOnlyByReusedId` and the step `Mistake` of RemoteCall are what holds.
* A caller of the computer tool chooses its `command_id` (`B/mcp/computer.go:88-92`), and it is the id
  on the wire (`conn.go:567-568`). `SendComputer` refuses one that is in the map, but `Send` puts its
  own number there without looking (`conn.go:469-473`): a command_id such as "7" is overwritten by
  the seventh `Send`, and one of the two calls gets the other's reply or none. `MixupOnlyByReusedId`
  and `PendingExact` name this as their exception.
* The pump's send on a one-slot waiter has no way out (`conn.go:752`): a second reply to an id
  whose waiter then leaves blocks the pump for good, and no close releases it. `CallsReturn` shows
  that calls still return; the connection, closed by the ping loop, stays in the hub until the device
  dials in again, though `conn.go:758-759` says that closing the socket "unblocks ReadPump and drops
  the device from the hub" (`GoesOffline`, `TeardownCompletes`). It takes a device that replies twice; the Linux agent does
  not.
* A computer command whose deadline passes in the relay is answered "timeout", effect "none"
  (`conn.go:640`), whether the device began it or not; `docs/computer.md:168` says of that answer
  "The device did not begin the operation before the absolute deadline". DeviceCall has the
  time-out with the command handled or not; the wording of the answer is left out.
* Two Starts that find the same old session may both wait for its close, a handshake of up to five
  seconds against a cooldown of two, and then both register: two live views of one device, though
  `B/vnc/vnc.go:134` says "one session per device". Neither Stop nor the next Start finds the first
  any more; its TTL ends it. `StopFinds` excepts such Starts, `NoneForgotten` is what holds of both.
* Neither the stop command nor the goroutine that copies a replaced session names its session
  (`B/vnc/vnc.go:332`, `L/agent/vnc.go:117`): either may stop a newer one. `OneAtATime` and
  `DeviceLetsGo` hold under that order.
* Stream ids start over on every connection (`L/agent/tunnel.go:114`), so a `readLoop` of the old
  one that ends late closes the new stream of that id. StreamLane is one connection: not modelled.

*Replay*

* A `Resolve` that read the row before the owner switched recording off mirrors the old value
  onto the connection after it (`B/resolver/resolver.go:74`); `docs/replay.md:38`: "Turning
  recording off stops it immediately". And a capture whose command is under way is recorded whatever
  the switch says by then. `OffIsHeeded` is what holds: a command that itself found recording off
  leaves nothing, but for the first of these ways.
* A capture under way is written after a later action's row (`B/replay/replay.go:371`), and
  several captures may be in flight at once (`replay.go:367`). `FrameFollows` allows for both.
* A crash during `Save` leaves its temporary file (`B/replay/frames.go:40`), whose name no sweep
  looks for. Not modelled: such a file is not a frame.

*Device*

* A recording may start while the last one uploads, and the end of the upload then overwrites the
  phase; the timer of a capped recording is never cancelled (`L/agent/recorder.go:130`) and may
  stop a later one. `recorder.go:23` promises one recording at a time; `RecorderTruthful` is
  stated up to the first such overlap.
* The upload of a clip runs under the recorder's lock (`recorder.go:163-172`), and start, stop and
  status take that lock while they hold the dispatcher's: until the upload ends every command
  waits behind the first of them, though `recorder.go:19-21` says "a big clip never blocks the command
  window; the agent polls status() until the blob id appears". `Answered` says how far it reaches.
* A capability file that cannot be read exposes everything (`linux/cmd/abacad/main.go:53`);
  `FinalSay` names this exception.
* The set-up window's "Try again" passes the credential the window was started with, not the one
  saved meanwhile (`L/gui/app.go:253`), so it registers afresh. `DaemonKeepsIdentity` is
  therefore stated for the daemon only.

*Accounts and files*

* `ConsumePairing` burns the pairing in one statement and creates the device in another
  (`B/store/store.go:642`): an error in between leaves neither. A poll at exactly the expiry
  second passes the handler's test and is answered "already used" (`B/api/pair.go:69` against the
  statement's `expires_at >`).
* The bytes of a blob go to a temporary file (`B/blob/service.go:51`), are renamed into place (`:80`)
  and then get their row. After a crash in between, or a failure whose clean-up fails too (`:66-82`,
  `:96`), there is a file without a row, and no sweep looks for those. `Whole` is about rows, and
  `RetentionHolds` excepts these files by name. A row's file that could not be removed keeps its row
  (`:138-141`), and the next prune tries again. `Save` of the screenshot store leaves its `shot-*`
  file the same way (`B/screenshot/store.go:60`; the sweep takes `.jpg` only): not modelled, such a
  file is not a frame.
* A reply that belongs to another command of the device (see *Relay*) is "written" to a waiting
  `POST /blobs/send`: `main.go:357-359` ignores that it does not parse, and `B/blob/handler.go:233`
  compares the digest only if there is one; `handler.go:188` says "the agent learns pass/fail from
  this single response". `Delivered` excepts these by name.
* A browser that serves as a device is registered by the id in its host name, without a token
  (`main.go:202-214`, which says so): `Authorised` asks of it only that the device exists.
* The screenshot sweep removes a frame by name after it has looked at its age
  (`B/screenshot/store.go:153`), so it may remove one that has just replaced it; a capture under
  way when its device is deleted saves its frame after that. The next sweep takes the second
  (`RetentionHolds`).
* `claimDevice` passes the id on as typed (trimmed, not lower-cased) to a statement that compares
  it exactly, after the look-up lower-cased it (`B/api/enroll.go:274` and `:301`): an id typed in
  capitals is found and then not claimed. Not modelled: ids here are values.
* `docs/trust.md:275` says the claim code rotates "on restart"; nothing in `B/api/enroll.go` or
  `L/enroll` rotates it then.

## 5. Proofs

`tlapm` checks these for every value of the constants the named assumptions allow. TLC checked
each invariant below, or the property it implies, on the instances of section 3 first.

**DeviceHubProofs**, from `DevAssumption`, `NoConnAssumption`, `BudgetAssumption`.

* `TypeCorrect`, `NoGhost`, `Displaced`: `Spec` implies `[]TypeOK`, `[]NoGhostEntry`,
  `[]DisplacedIsClosing`; `HubSound` puts them together as `[]Sound`. `EntryOwnership`: `Spec`
  implies `EntryLostOnlyByOwner`.
* The inductive invariant is `HubInv`: the three, and `EndedIsClosed`, that a handler past its
  pump has a closed socket. `DisplacedIsClosing` needs `NoGhostEntry` to know that the entry a
  registration displaces is still served; the action property needs `EndedIsClosed` for the case
  where a handler removes its own entry. Steps of the ping loop, the sweeper and the environment
  touch neither hub nor handlers nor reopen a socket; `QuietSteps` deals with them in one lemma.

**DeviceCallProofs**, from `CallsAssumption`, `ConnAssumption` and `TidAssumption`: an id chosen by a
caller of `SendComputer` is any value, a number of a `Send` or not.

* `TypeCorrect`, and `Correlation`: `Spec` implies `[]MixupOnlyByReusedId`, for any number of
  calls, sockets and reconnects and any chosen ids.
* `CallInv` adds to the types: `Keyed` (a call has a number exactly from registration on, and a
  number of a `Send` no larger than its socket's counter), `Distinct` (a socket gives each number to
  one `Send`), `Frames` (whatever is pending, on a wire or being worked off bears the number of its
  call, and a frame is on a socket no older than the call's), `Replies` (every reply, in a waiter's
  channel, in a blocked pump or returned, bears the number of the call it was given to and comes from
  the same or an earlier socket), `Latest` (the agent's socket is the last dialed). `Correlation` is
  `Replies` with `Distinct`: the same number on the same socket is the same call, or one was chosen.
* `MapIsExact`: `Spec` implies `[]PendingExact`. `PendingInv` adds to `CallInv` that an entry of the
  map is that of a registered call (`Owned`), that there is one of each id (`OneEach`), and that a
  registered call has its own unless ids have clashed (`Kept`); a clash is for ever, since calls keep
  their ids.
* `Refinement`: `Spec` implies `ImplementsRemoteCall`. `OnceInv` is what the mapping needs beside
  those: a command is written once, after its registration, and is in one place until it is handled
  (`Travels`); every reply, wherever it is, is to a handled command (`RepliesDone`); what a call was
  told follows from how far it is (`Told`). The registration of a call maps to `Begin`, the work or
  refusal of the agent to `Handle`, the return of a call to `Answer`, `Fail` or `Mistake`; every
  other step is a stutter.

**StreamLaneProofs**, from the module's assumptions.

* `TypeCorrect`; `InOrder`: `Spec` implies `[]Ordered`, for any number of streams, requests and
  payloads and any buffer.
* What the device has sent of a stream is delivered, buffered, in the pump's hand, or on the wire.
  `OrderInv` says, beside the types and `NoGap`, what is where while the stream is in the table
  (`Flow`): what is on the wire was sent and not taken yet (`Bounded`), in rising order
  (`Rising`), with none missing before one that is there (`NoHole`), all of it as long as the
  link is up (`Complete`) or before an end of stream (`Final`). What the pump holds comes next
  (`Next1`); after an end of stream the device sends nothing (`Ends`); nothing of a stream comes
  before its OPEN (`Openings`); and a stream leaves the table for good (`Places`).

* `NobodyHolds`: `[]Released`; `RevokedAreCut`: `[]RevocationCuts`. `ReleaseInv` adds to `OrderInv`
  three parts. `Teardown`: a stream that stands is in the table, so the list the teardown makes,
  when no stream can be opened any more, has them all. `Sweeps`: until a revocation is through,
  what it found is cut, in the table, or on its list. `Sockets`: while the link is up and nothing
  swept, a stream closed on this side has its CLOSE on the way to the device after its OPEN, or the
  device has no socket for it. That an OPEN is not written after the CLOSE of its own stream
  (`Openings`) carries the last.

**ViewReplayProofs**, LiveView's part, from the module's assumptions.

* `LiveTypeCorrect`; `CloseCleans`, `AllHaveAnEnd`, `StopReaches` and `ServesOne`: `LiveSpec` implies
  `[]ClosedIsClean`, `[]NoneForgotten`, `[]StopFinds`, `[]OneAtATime`, for any number of sessions and
  browsers.
* `ViewInv` adds to the types: `Unborn` (a session that does not exist is nowhere), `Closes` (what
  each half of `close` has cleared), `Replaces` (a `Start` past its wait has a victim that is
  over), `NoneForgotten`, `StopFinds` (the open session is the one in `byDevice`, unless two Starts ran beside each
  other), and `Handler` (the device's lock and fields name one session).

**ViewReplayProofs**, the recorder's part, from `RecorderAssumption`: any agents, commands and
looks, any channel and any number of turns of the switch.

* `FrameAfterTap`: `RecorderSpec` implies `[]FrameFollows`; `OffRecordsNothing`: `[]OffIsHeeded`.
* `FrameFollows` speaks of a recorder at rest. `RecorderInv` says what holds on the way there
  (`Covered`): while nothing is lost, an action on the timeline that needs a frame has one, or the
  writer has it in hand, or a capture will show it (`Coming`: one that is armed or fired and that no
  frame has outdone since, one that is asking, or one whose picture is no older), or such a frame is
  in the channel. It rests on `Pictures` (nobody has a picture of what has not happened yet, so what
  is captured next is new enough) and `LastFrame` (the frame a repeated picture is compared with is
  on the timeline).
* `OffIsHeeded` needs `HeedInv`: a command past its `Resolve` read the setting of that moment; once it
  has mirrored it, the flag is on against its reading only if something outdid it (the owner, or an
  older reading mirrored later); and nothing of it, no row and no capture, is with the recorder but by
  way of a flag that was on.

**ViewReplayProofs**, the store's part, from `ReplayAssumption`.

* `StoreTypeCorrect`; `FramesKept`: `StoreSpec` implies `[]FramesBacked`; `StoreKept` puts them
  together as `[]Kept`; `OldestFirst`: `StoreSpec` implies `OnlyOldGo`.
* `StoreInv` strengthens `FramesBacked` to images the writer has saved and not yet given a row
  (`Backed`), and says why no deleter breaks it: files are removed only after their rows
  (`RowsFirst`), what a deleter holds is not in the writer's hands (`Through`), and an image is no
  older than its step's stamp, so the sweep, which looks at the file's age, spares it (`ImageOk`).
  `DueInv` adds for `OldestFirst` that what was selected stays due: steps age, and the newer
  ones that made one surplus stay, because a pass takes the oldest.

**EnrollmentProofs**, from `EnrollmentAssumption` (with finitely many claimers: requests under way
are counted).

* `TypeCorrect`; `FewGuesses`: `[]GuessesBounded`; `OnlyTheCurrentCode`: `CurrentCodeClaims`;
  `IdentityKept`: `DaemonKeepsIdentity`.
* The row of an identity changes only in a few ways (`Becomes`, shown once per step by
  `RowsMove`). `Counted` bounds the guesses counted by the limit less one and the requests between
  their count and their rotation, which is how far concurrent guesses can overshoot. `DaemonInv`
  says that an identity on the daemon's disk is the one in its memory, or one the relay will not
  have again.

**CapabilitiesProofs**, from the module's assumptions, for any capabilities, calls, grants, edits
and bounds.

* `TypeCorrect`; `Authorised`: `[]Granted`; `DeviceHasFinalSay`: `[]FinalSay`; `MirrorKept`:
  `[]MirrorFollows`.
* Three invariants, one each. For `Granted`: the needs already checked are in `seen`, and `seen`
  covers what the row allows now, so it covers what the row will be found to allow next. For
  `FinalSay`: the file exposes no more than the owner wanted, also when cut short, and so does the
  ceiling of a process that could read it. For `MirrorFollows`: the report of the current process
  is on the wire, in the pump's hand, or in the row.

**AgentDispatchProofs**, from `CmdsAssumption` and `InputAssumption`.

* `ScreenshotsFresh`: `[]FreshShot`; `RecorderKnows`: `[]RecorderTruthful`; for any commands, in
  any order of arrival and of getting the lock.
* `FreshInv`: only the lock's holder is at the screen (`Locked`), nobody has seen a version that is
  not there yet (`Views`), and an entry of the present generation shows what is on the screen,
  while a command that may change it has begun a generation without an entry (`CacheFresh`).
  `RecInv`: which recording each encoder, upload and timer belongs to (`Recordings`), that before
  the first overlap there is one (`Single`), and what the notice shows (`Shown`).
* `NothingLeftDown`: `[]NothingStuck`, for any gestures, chords, texts and composites, each of any
  length. The lemmas `AroundReleased`, `GestureReleased`, `ChordReleased` and `TypedReleased` say of
  sequences of any length that whatever they press they release later (`Released`), and
  `ReleasedLeavesNothing` that such a sequence adds nothing to what is down. So what is down is
  exactly what composites pressed (`Pressed`), which is an invariant of every step, not only between
  commands.

**FilesProofs**, from the assumptions of SignIn, Access and Files: finitely many requests, in any
batches, of any of their kinds; ids of devices and codes of pairings are fresh, as drawn at random;
a key, device or session a request names is of the right sort, existing or not; and the settings
the batch starts from are consistent (a key lists devices of its own account, a read of a blob names
the device that made it). The limiter's bound,
the faults and the sets of accounts, keys, devices, prints and codes are arbitrary.

* Requests are counted and name each other's devices, codes and blobs, so what holds of one rests on
  all three modules; `FilesAlways` proves one inductive invariant, `FilesInv`, of the whole, which has
  a lemma per handler and statement. `Placed` says which handlers can be at which statement, since
  they share some. The rest is in four parts.
* Sign-in. `GuessingBounded`: `[]LockoutBounds`. `Counted`: once the address is locked, a wrong
  password still to come is of a login past the limiter by then, so the guesses had and those logins
  are within the limit and `racing` (a cardinality, hence the finite requests).
  `OneAccountPerIdentity`: `[]OneIdentity`. `Identities`: a sign-in half way has its subject
  unlinked, or linked to its own email, or had a rival, which the property names.
* Devices, keys and pairings. `AccountsStayApart`: `[]AccountsApart`. What `buildScope` has verified
  stays the account's or goes (`Checked`), because a device is made once (`DevicesMade`) and so never
  changes hands, though it may be deleted before the list is stored. `PairingYieldsOne`:
  `[]OneDevicePerPairing`. A pairing's row goes with its first approver (`Settled`) and one poll at
  most is between using it up and minting (`OneClaim`).
* Rights. `NeverUnauthorised`: `[]Authorised`. A request past a check has *seen* that right
  (`KeyRight`, `PrintRight`, `DirectRight`); `seen` only grows, so nothing that is edited, revoked or
  deleted later takes it away. That a scope is read in two statements is in `KeyRight`: the right to
  a device comes with the statement that reads the list.
* Blobs. `BlobsWhole`: `[]Whole`; a row comes after its bytes, and they go before it only in the hands
  of a prune, of a blob past its retention (`RowFor`). `SendsDelivered`: `[]Delivered`; the device
  says it has written only what it has put in place (`Said`), and a deadline or crash in between
  leaves the answer unsaid. That bytes are of a call that was authenticated, whose account their row
  names (`Traced`), carries the account's part of `Authorised`.

*Model-checked only.* The liveness properties: `GoesOffline`, `CallsReturn`, `TeardownCompletes`,
`DeviceLetsGo`, `Rests`, `WindowHolds`, `Settles`, `Answered`, `RetentionHolds`, which need fairness
and ENABLED; and the two properties that are violated (section 4). Every safety invariant and
action property of the passing runs is a theorem.

*Out of the prover's reach.* Besides liveness, induction over data with an operator as parameter,
so what a recursive definition computes for every input, and RECURSIVE operators. No module here
declares one.

## 6. What is left out

Within the modelled components: payloads, wording, logging, HTTP decoding, the `activity` rows
written along the way, and token formats (a token is its row or its generation; a signature is
taken to be what it says). WebSocket close codes and the reason strings shown to an agent are left
out; no decision depends on them. A statement of SQLite is atomic and may fail only where a model
says so. The recursion of a composite is a step counter; pointer paths and pixels are left out. In Enrollment
the owner does not rotate a device's token (`B/store/store.go:525`; Access has it), a relay too old to
enroll anyone is left out, and what a terminal still shows of a daemon that has exited does not count
as a code on display.

Partly modelled: the SSH jump host and the CONNECT bridge, whose rights are in Access and whose
stream in StreamLane, without the handshake, which belongs to its library; the MCP tools, whose
checks are in Access, transfers in Files and commands in DeviceCall, without the translation of
arguments and replies.

Not modelled: the quota limiter of registration and claims (a throttled request is a lost one); the
activity trail and the events ring, which nothing reads back to decide anything; migrations
(applied in order, each harmless twice); the UI-tree ranking, geolocation, configuration and web
assets (sequential, tested); the window and its supervisor, beyond its set-up page; the Android,
macOS and Windows clients, which speak the protocol of the Linux client, the one modelled, and
whose differences from it were not examined; the web frontend and documentation site; the redirect
to Google and its state cookie; grants of the computer slice, issued and validated within one call.

## 7. Plan

Done, in this order, most central first: DeviceHub, DeviceCall with RemoteCall, StreamLane,
LiveView, ReplayRecorder, ReplayStore, Enrollment; then Capabilities, AgentDispatch, and SignIn,
Access and Files with pairing, keys, blobs and screenshots. Proofs of every safety property of all
of them.

To come:

1. *More to state and prove*: promises of the live view and of the recorder as specifications of
   their own, as RemoteCall is of the command lane, with the mapping proved.
2. *Onboarding*: pairing and enrollment over one device table, for the sweeper they share.
3. *Device side*: the tunnel table across reconnects, where stream ids start over.
4. *Quota limiter* as operators against a reference definition over short request sequences.

## 8. Running it

From this directory, with TLC, the community modules and TLAPS installed:

    tlc -workers 2 -config DeviceHub.cfg MCDeviceHub
    tlapm DeviceHubProofs.tla

Each run takes from seconds to two or three minutes with two workers; each proof module up to a
minute or two.

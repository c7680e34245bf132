# A TLA+ model of the OPC UA test server and its TCP bridges

The repository holds an OPC UA server with simulated sensors (C), a bridge that
reads sensors from an OPC UA server and streams them to TCP subscribers (Go),
and two older bridges (C and Qt). This directory models the server and the three
bridges, checks the models with TLC and proves most of their safety with TLAPS.

Source paths below are relative to the root of the repository.

## The system

| Component | Source | State | Operations |
|---|---|---|---|
| bridge service | `internal/bridge/service.go` | configuration, OPC UA client and its flag, listener, subscribers, stop channel, wait group, frame counter | `Connect`, `Disconnect`, `StartBridge`, `StopBridge`, `SetConfig`, `Browse`, `Status`; goroutines `acceptLoop`, `watchDisconnect`, `tickLoop` |
| bridge REST API | `internal/api/api.go` | none | one goroutine per request calls the service |
| bridge configuration | `internal/config/config.go`, `cmd/opcua-bridge/main.go` | a JSON file | load at start with environment overrides, write on `PUT /api/config` |
| bridge wire format, node ids | `internal/bridge/value.go`, `internal/frame`, `internal/nodeid` | none | pure conversions |
| node manager | `src/node_manager.c` | configured nodes, address space, slots of simulated sensors, node contexts, simulation flag | build, add folder or variable, delete, tick, switch the simulation, reset overrides, two write callbacks |
| server configuration file | `src/server_config.c` | a JSON file, written through a temporary file | seed, load, save |
| server HTTP API | `src/http_server.c` | the upload of each request | one thread calls the node manager |
| server main loop | `src/opcua_server.c` | running flag | start-up, `UA_Server_run_iterate` with the timer of the tick |
| web pages | `internal/web/static/app.js`, `web/opcua-server/app.js` | form, browse stack | fetches and rendering |
| legacy C bridge | `src/opcua_tcp_bridge.c` | client slots, namespace index, node ids, back-off | one select loop |
| legacy Qt bridge | `src/gui/BridgeEngine.cpp`, `MainWindow.cpp` | client and its flag, timer, TCP server, list of sockets, frame counter, buttons | clicks, `onTick`, `onAcceptConnection`, `onClientDisconnected`; dialogs and a node browser |

How they interact. The handlers of the REST API and the goroutines of a started
bridge share the fields of `Service` under one mutex; they hand listeners,
channels and connections to each other outside it. In the server, the thread of
the HTTP daemon and the main thread share the node manager under `nm->mutex`,
and both write values through open62541, which calls the write callbacks of the
node manager back, for client writes and for the manager's own writes alike.
The server's configuration file is what survives a restart. A bridge sees the
server only as an OPC UA session that may go down and come back.

What is hard: handlers that interleave with each other and with loops of a
bridge that is being stopped; values read under the lock and used after it; a
lock held while a subscriber is written to; a wait group reused while it is
waited on; ticks that write after they have released the mutex; addresses of
slots kept in node contexts while the slots move; saves that fail unnoticed,
overlap, or are cut short by the end of the process; restarts that rebuild
something else than there was; the limit of 256 nodes; reconnections that fail
half-way; frames sent in part; request bodies that arrive in pieces while memory
is missing; files written by hand; a list that moves under the loop that goes
over it; message boxes whose event loop runs inside a handler. `PROJECT.json`
lists each hazard at its line.

What makes each component correct: the service closes everything once, never
writes to what it has closed, stops when it is told to and when its session is
lost, and numbers its frames; the node manager keeps slots, address space,
listing and file in step and never loses the node that switches the simulation;
a configuration file holds what was acknowledged; the C bridge owns its sockets,
reads sensors only by ids it has found, and comes back with its server; the Qt
bridge never touches a socket it has given up, and its buttons tell the truth;
the conversions agree with the table of `PROTOCOL.md`; a request that is answered
with 200 has done what its client asked, one that is refused has done nothing,
and the file it leaves is one that the server starts from.

## Modules

| Module | Models | Composes with |
|---|---|---|
| `FrameStream` | what a bridge promises its subscribers (abstract) | implemented by `BridgeService` (one bridge), `LegacyBridge` and `QtBridge` |
| `BridgeService` | the Go bridge: service, loops, sessions, subscribers | `FrameStream` |
| `BridgeConfig` | its configuration, in memory and in the file | |
| `Subsequence` | what a loop leaves that copies some entries of an array | used by `NodeManager` and `ServerConfig` |
| `NodeManager` | the server: nodes, simulation, callbacks, two threads | |
| `HttpUpload` | how the server receives a request | `ServerApi` |
| `ServerConfig` | what requests do to its configuration, and its file | `ServerApi` |
| `ServerApi` | the HTTP API of the server: both together | `HttpUpload`, `ServerConfig` |
| `LegacyBridge` | the C bridge | `FrameStream` |
| `QtBridge` | the Qt bridge | `FrameStream` |
| `*Proofs` | theorems about the module they are named after | |
| `BridgeStreamProofs` | that `BridgeService` implements `FrameStream` | extends `BridgeServiceProofs` |
| `MC*` | definitions for the configurations of TLC | |

`Subsequence` defines `Entries(s, at)`, the entries of `s` at the positions in `at`
in their order: the entries of a file that parse, the slots that a tick toggles.
It is `SelectSeq` without recursion, about which the prover could show nothing;
the assumption `EntriesIsSelectSeq` of `MCServerApi` compares the two on every
sequence of up to five entries. `SubsequenceProofs` proves that it has an entry
for every position and each from there, and that all positions give `s` itself.

Actions whose comment begins with "Fault" are not part of any specification:
each is an action or operator with a plausible mistake, and shows that the
property it belongs to would notice it.

The runs of `NodeManager` and `BridgeConfig` check that nothing comes to a stop. In the
other runs a model may rest: a bridge that was stopped, or has used up the bounds
on frames and connections, and a server whose configuration file was cut off.

## FrameStream

The promise of `PROTOCOL.md`: frames are numbered one after the other, and a
subscriber is sent every frame once and in order from the moment it is taken on
until the bridge lets go of it. `last` is the last number, `on` who is served,
`got` what each was sent. A bridge may let go of a subscriber at any time; it
may not leave out a frame in between, nor send one twice.

## BridgeService

`BridgeService.tla` models `Service`. Its variables have the names of the
fields; `gen` numbers the bridges started, and generation `g` stands for the
listener, the stop channel, the accept loop, the tick loop and the stopper
goroutine of the `g`-th start. `pc`, `accept` and `tick` say where a handler (or
stopper), an accept loop and a tick loop are; `ln`, `ch`, `conns`, `dialed`,
`hand`, `stop`, `cl`, `payload` and `todo` are their local variables. `sess` and
`sock` are the states of OPC UA sessions and TCP connections, `received` what
each subscriber was sent.

One critical section of `s.mu` is one action, and so is each call outside it
whose effect others can see:

| Code | Actions |
|---|---|
| `Connect` | `ConnectBegin`, `ConnectFail`, `ConnectDial`, `ConnectNoNamespace`, `ConnectPublish` |
| `Disconnect` | `Disconnect` |
| `StartBridge` | `StartBegin` (to the unlock), `StartSpawn` (count and spawn) |
| `StopBridge` | `StopRequest`, `StopNotRunning`, `StopBegin`, `StopCloseListener`, `StopCloseChan`, `StopCloseConns`, `StopWait`, `StopWake` |
| `acceptLoop`, `watchDisconnect` | `Accept`, `AcceptError` (with the deferred `Done`), `AcceptAppend`, `WatchDisconnect` |
| `tickLoop` | `TickInit`, `TickStop`, `TickCheck`, `TickState`, `TickLost`, `TickDone` |
| `readFrame`, `broadcast` | `TickRead` (takes the client), `TickNumber`, `TickReadFails`, `BroadcastBegin`, `BroadcastWrite`, `BroadcastDrop`, `BroadcastEnd` |

`broadcast` keeps the lock while it writes, so it is the one critical section
of several actions: `mu` holds its loop and all others wait (`Locked`).
`TickNumber` is the one step that touches shared state without it: `seq.Add` is
atomic, and one loop may number its frame while another is broadcasting.
The configuration may change at any time, so each use of it is a choice.
`lastErr` and the namespace index are never tested and are left out. External:
the loss and automatic return of a session (gopcua; `LossySessions` says which), the subscribers, and the
panic of a `WaitGroup` that is reused before its `Wait` has returned.

### Runs

| Run | Bounds | What it shows |
|---|---|---|
| `bridge_sessions` | 2 handlers, 2 bridges, 2 sessions | `RunningConsistent`, `NothingClosedTwice`, `DegradedHasStopper`, `WGCountsLoops` |
| `bridge_subscribers` | 2 handlers, 1 subscriber that may stall, 2 bridges, 1 session that stays, 2 frames | `TypeOK`, `ListedConnsAreOpen`, `NoFrameTwice` |
| `bridge_progress` | fair; 1 handler, 1 subscriber that reads, 1 bridge, 3 frames | `StopTakesEffect`, `LostSessionStopsBridge`, `ClosedEndsLoops`, and that a bridge started once implements `FrameStream` |
| `bridge_two_loops` | 2 handlers, 1 subscriber, 2 bridges, 2 frames | violates `SequenceIncreases`: two tick loops number frames in one order and send them in the other (`PROTOCOL.md:16`: "Monotonic sequence number") |

Two handlers are two concurrent requests, and the tick loops add two more
callers of `StopBridge`; two bridges let the loops of one overlap with the
next; two sessions let one `Connect` overwrite the other's. Two tick loops exist at
once only with two handlers: one is between the unlock and the spawn of its
`StartBridge` while the other stops that bridge and starts the next.
`bridge_subscribers` has them, reaches states in which both loops have still to
number their frame, and tells a counter that is loaded and stored in two steps
(`TickNumberTwoSteps`) from the atomic one; with one loop the two are the same.
What several subscribers could do to each other is left to the proofs. In
`bridge_progress` a third frame is one after the first gap there could be. The
last frames are reached and then `TickReadFails` is all that is left, so no step
depends on a higher bound. The proofs below do not depend on any.

What the model also does, where no run states a property because nothing in the
repository promises the opposite, or because it is the same defect again:

- `StopBridge` between the unlock of `StartBridge` and its `bridgeWG.Add`
  returns before the loops exist. The tick loop then finds `bridgeStop` nil (or
  the channel of the next bridge) and is never told to stop; a `StopBridge`
  that has it in its count never returns. This is also how `bridge_two_loops`
  gets its second loop.
- A connection accepted just before the listener is closed is appended to the
  list after `StopBridge` has emptied it, and stays open after the next start
  has forgotten the list.
- `Connect` publishes its client without looking again whether a bridge has been
  started meanwhile; of two `Connect` calls one overwrites, and leaks, the
  session of the other.
- `StartBridge` adds to the wait group while an earlier `Wait` is returning,
  which panics (`Crashed`).
- A subscriber that does not read keeps the lock taken, because `broadcast`
  writes to it without a deadline. `bridge_progress` therefore assumes that
  subscribers read.

### Fairness

`FairSpec` assumes what the Go runtime gives: a goroutine that can run does,
and `sync.RWMutex` does not starve a waiter, hence strong fairness for steps
that need the lock; `select` chooses at random among ready cases, hence strong
fairness for the stop case by itself; a dial ends in success or failure.
Nothing is assumed of new requests, of subscribers, of the server, or of an
accept error as long as the listener is open.

### Proofs

`BridgeServiceProofs.tla` proves, for all values of the constants, given
`PeersAssumption`, `LossAssumption`, `BoundsAssumption` and `ThreadAssumption`
(stalling peers are connections, lossy sessions are sessions, bounds are
naturals, handlers are not numbers):

| Theorem | States | Argument |
|---|---|---|
| `TypeCorrect` | `[]TypeOK` | inductive |
| `Ownership` | `[](RunningConsistent /\ NothingClosedTwice)` | `OwnershipInv`, inductive under `TypeOK` and `SpawnInv` |
| `Degraded` | `[]DegradedHasStopper` | inductive under `TypeOK` |
| `LoopsCounted` | `[]WGCountsLoops` | inductive under `TypeOK` and `SpawnInv` |
| `ListedOpen` | `[]ListedConnsAreOpen` | `ConnInv`, inductive under `TypeOK` |
| `FramesOnce` | `[]NoFrameTwice` | `FrameInv`, inductive under `TypeOK` |

`SpawnInv` says that the loops of a bridge do not exist before the one
`StartBridge` that is to spawn them has done so: without it `StartSpawn` could
count a loop twice, or restart one that holds something. `OwnershipInv` adds
that nothing is held or closed before it was started (so that a new generation
is nobody's yet), that a channel is held only between `StopBegin` and
`StopCloseChan`, that a `Connect` about to publish has a session (`client # 0`
is kept), and that a tick loop that still runs has no stopper (so that `TickLost`
does not overwrite a `StopBridge` under way). `ConnInv` adds that only the loop
inside `broadcast` holds the lock and that a connection just accepted is in one
pair of hands. `FrameInv` adds that a number that a loop has drawn is at most
`seq`, that no other loop has it, and that no subscriber the loop has still to
write to has been sent it. `DegradedHasStopper` and `WGCountsLoops` are inductive
as they are.

`BridgeStreamProofs.tla` proves the refinement of `FrameStream`:

| Theorem | States | Argument |
|---|---|---|
| `StreamsOnce` | `Spec => StreamSpec` if `MaxGen = 1` | from `StreamsApart` |
| `StreamsApart` | `Spec /\ []OneFrameAtATime => StreamSpec` | `StreamInv`, inductive under `TypeOK`, `SpawnInv`, `ConnInv` and the condition |
| `InOrder` | `Spec /\ []OneFrameAtATime => []SequenceIncreases` | from the steps of the stream |

`OneFrameAtATime` says that no tick loop numbers a frame while another has still
to send one. A bridge that is started once has one loop, so it holds; with
several, `bridge_two_loops` is a behaviour without it, and the theorems say that
nothing else can bring frames out of order: no other interleaving of handlers,
loops and subscribers. `StreamInv` says that the frame that is being sent is the
last one, that a listed subscriber that has been sent anything was sent the last
frame, or the one before if it is still due, and that a connection which is not
listed yet has been sent nothing.

Only model-checked: liveness, which is beyond the prover.

## BridgeConfig

`BridgeConfig.tla` models the configuration of the Go bridge: `mem` is `s.cfg`,
`file` the contents of the file that `CONFIG_PATH` names (`path` says whether it
is set), `env` an environment variable that overrides a field. A configuration
is a field that can be overridden and a number of mappings; its document is a
sequence of blocks, one more than it has mappings, so that documents differ in
length.

| Code | Actions |
|---|---|
| `main`, `LoadFile` | `Start`, in any environment |
| `configHandler` (`PUT`), `SetConfig` | `SetConfig` (to the unlock) |
| `SaveFile`, that is `os.WriteFile` | `Open` (and truncate), `Write` at the request's own offset; each may fail, `Write` half-way |
| `configHandler`, `GetConfig` | `Answer` |
| end of the process | `Crash`, at any point |

A file that two documents are mixed into loads as anything or not at all. Left
out: requests that do not decode, which change nothing, and the order in which
`Status` and the loops read the configuration (see `BridgeService`).

`alone` and `kept` are history: whether another save has overlapped the one in
progress, and what the last lone save has acknowledged. The code promises less
than its documentation (`README.md:110`, "loaded at startup and written on
Save"), because the file is written without the lock: of two overlapping saves
one may win in memory and the other in the file, and a shorter document written
over a longer one leaves a file that does not load although both requests were
answered with 200. And `os.WriteFile` truncates first: a crash inside a save
loses the old configuration with the new one, and the next start runs with the
defaults. What does hold is stated without those cases:

- `LoneSaveIsWhole`: when a save that no other overlapped is acknowledged, the
  file is exactly what is in memory, whatever it was before.
- `AcknowledgedSurvives`: that is what the bridge runs with after every crash and
  start, but for what the environment overrides, until the next save begins.

| Run | Bounds | What it shows |
|---|---|---|
| `bridge_config` | 3 requests, 2 values of the field, up to 2 mappings | `TypeOK`, `LoneSaveIsWhole`, `AcknowledgedSurvives` |

Three requests let two overlapping saves break the file and a third heal it;
three lengths let a document be cut off, and overwritten in part, in different
ways. Start and crash are not bounded.

`BridgeConfigProofs.tla` proves `TypeCorrect`, `LoneSaves` and `Acknowledged`,
the three invariants for any number of requests and values, given
`ConfigAssumption`. The inductive invariant adds that a process that is down has no requests (`UpInv`),
that while a save is alone nobody else is inside `os.WriteFile` and the file is
empty before and whole after its write (`AloneInv`), and that an acknowledged
configuration stays in the file while nobody saves (`KeptInv`). The lemmas say
that a document loads as itself and only as itself, and that writing to an empty
file leaves what was written.

## NodeManager

`NodeManager.tla` models `src/node_manager.c` with the parts of
`server_config.c`, `http_server.c` and `opcua_server.c` that feed it. `config`,
`disk` and `space` are the listing, the file and the address space, each a
function from names to parents; `slots`, `cap` and `block` are `nm->sensors`, its
capacity and the allocation it is in; `context` is the address (allocation and
index) that a node was given as context; `todo` holds the writes that a thread
has still to make and `callback` the write whose callback it has still to run;
`pending` is what start-up has still to create.

| Code | Actions |
|---|---|
| `server_config_seed_defaults`, `main`, `node_manager_build` | `Init`, `Restart`, `BuildNode` |
| `node_manager_add_folder`, `node_manager_add_variable` | `AddNode` (`CreateNode`, `AddSlot`, `ListNode`, `Save`) |
| `node_manager_delete` | `DeleteNode` (`HasChildren`, `Below`, `RemoveSlot`, `Save`) |
| `handle_put_config` | `PutConfig` |
| `node_manager_set_simulation_enabled`, `node_manager_reset_overrides` | `SetSimulationEnabled`, `ResetOverrides` |
| `node_manager_run_simulation_tick` | `Tick`, then `WriteValue` for each toggled sensor |
| `sensor_write_callback`, `simulation_enabled_write_callback` | `SensorCallback`, `SimulationCallback` |
| Write requests of clients | `ClientWrite`, `WriteValue` |

A section under `nm->mutex` is one action. A write is two, because open62541
stores the value first and calls `onWrite` afterwards, without its own lock. The
HTTP daemon runs one thread, so requests do not overlap with each other, only
with the main thread. A restart or crash may come at any point. A freed node id
names any node or none; an address into an old allocation reaches no slot.

A save that fails before `rename` leaves the old file. One whose last write
fails in `fclose` is renamed all the same (`server_config.c:247-253` looks at
`fwrite` only): the file is then empty (`EmptyFile`), which the next start
replaces by the seed, or cut (`CutFile`), with which the server does not start.
No caller looks at the result of a save.

Abstracted: plain variables (folders without children, to the manager), display
names and data types, the namespace URI, the map from names to node ids (it
always has room for the listed nodes) and requests refused by validation.
Bounds: `MaxSlots` and `MaxTodo` cap slots and outstanding writes where unlisted
nodes would let them grow for ever; `MaxNodes` and `DepthGuard` are constants of
the code (256 and 32), small here; nothing relates the two, and chains of parents
may be longer than the guard. `NewParents` are the parents that requests give.

### Runs

| Run | Bounds | What it shows |
|---|---|---|
| `node_space` | fair; seed of a folder in a folder with a sensor and the switch; requests add another sensor, and the inner folder again, below the inner folder; clients write the first sensor; 5 nodes, 3 slots, 4 outstanding writes per thread; `node_depth` gives up after 1 step | `TypeOK`, `SlotsAreSensors`, `ConfigIsSpace`, `SimNodeReachable`, `BuiltBelowParent`, `RequestsComplete` |
| `node_toggle` | fair; one sensor, nobody writes | violates `SensorsToggle`: the tick's own write runs the callback that marks the sensor as overridden (`README.md:11-12`: "Sensors automatically toggle between `true` and `false` every second") |
| `node_override` | two sensors, of which one is deleted | violates `OverrideReachesSensor`: contexts point at a slot that has moved (`README.md:13-14`: "Writing a value to a sensor from a client overrides the simulation for that sensor") |

One sensor that is added, deleted and added again, below a parent that exists or
does not, and deletions of the seed's folders from the inside out are enough for
slots that shift, an array that grows (its capacity is 1 at first), a parent that
is gone at the next start, and ticks and requests that hold writes to a node that
is deleted meanwhile. A folder that is deleted and added again below its own name
is a cycle of parents. With a guard of 1, sensors two levels down and the cycle
count as of the same depth as what they hang below, so that a start may build
them in either order, as the code may beyond 32 levels. The proofs below cover
any number of nodes and any parents.

`BuiltBelowParent` says which nodes this cannot happen to: a start hangs every
node that has at most `DepthGuard` listed folders above it below the parent it is
listed with, whatever the order of the listing. Deeper ones, and those in a cycle,
may be built before their parent and hang below Objects, as `ConfigIsSpace` allows.
`RequestsComplete` says that a request that switches the
simulation comes to an end although its writes run the callback that may write
again, unless nodes are deleted under such writes over and over: a freed id may
then name the switch each time.

What the model also does, without a property of its own: contexts go stale as
well when the array grows (`realloc`); a restart hangs a node elsewhere than
before when its parent was added after it; an addition is lost at the next
start when its save failed ("persist across restarts", `README.md:23`, is true
of saves that succeed); a tick that has released the mutex sets a sensor to TRUE
after the simulation was switched off; the node `SimulationEnabled` shows FALSE
after every start although the flag is TRUE. The `ResetOverrides` variable that
`README.md` describes does not exist in the server, only the request does.

Fairness: the main thread and the HTTP thread go on with what they have
started, start-up ends, and the timer, which the server repeats as long as it
runs, ticks again whenever it can again and again (strong, because a restart or
client writes may come in between).

### Proofs

`NodeManagerProofs.tla` proves, for any names and any seed, given
`NamesAssumption`, `InputAssumption`, `SeedAssumption` and `SizeAssumption`:

| Theorem | States | Argument |
|---|---|---|
| `SimNodeStays` | `[]SimNodeReachable` | `Inv`, inductive, also when the listing is full |
| `ListingIsSpace` | `[]ConfigIsSpace` if `Room` | `RoomInv`, inductive |
| `SlotsMatch` | `[]SlotsAreSensors` if `Room` | `RoomInv` |
| `TypeCorrect` | `[]TypeOK` | inductive in three parts: `SpaceType`, `SlotType`, `WorkType` |

The run leaves room for every node; `SimNodeStays` covers a full listing too,
where nodes exist that are not listed and go with their parents. It is not
inductive: `node_manager_delete` looks for children in the listing, but removes
what hangs below the node in the address space. The invariant `SimNodeHeld` says
that there is a set of listed nodes, the switch among them, each of which hangs
where it is listed, in the set or below Objects; while start-up creates nodes it
is the whole listing. A node that is deleted has no listed child, so the set does
without it, and nothing in the set hangs below it (`BelowSparesHolders`).

`Room` is `Cardinality(Names) <= MaxNodes`: the listing never gets full, as the
two properties demand. Then every node is listed below its parent, so nothing
hangs below a node without listed children (`NothingBelow`), a deletion takes one
node and one slot (`Removed`), and an addition gets a place in the listing
(`NotFull`) and a slot that no other sensor has (`AddedSlot`).

`TypeOK` needs no `Room`: it also says that there are never more slots than the
array has room for, and that what a thread has queued to write are Booleans to
nodes or to a freed id, also when the list is full. A tick takes its writes from the
slots with `Entries`, whose lemmas `SubsequenceProofs` has.

Only model-checked: liveness, and `BuiltBelowParent`: what `Climb` yields is
defined by recursion, which the prover cannot reason about.

## The HTTP API of the server

Three modules. `HttpUpload` is how `access_handler` receives one request: `phase`
is how far it is, `rest` the part of the body that the library has not yet handed
over, `con_cls` what the handler keeps between two calls (`Null`, `Marker` or a
buffer), `ran` the bodies that an API handler was given. `ServerConfig` is what
the handlers do: `uri` and `nodes` are the configuration in memory, `file` the
one on disk, `up` whether the server runs. `ServerApi` puts them together: a
handler runs inside the call that completes its request, with the body that the
calls have put together, and `ok` is what it has decided.

| Code | Actions |
|---|---|
| `access_handler`, `OPTIONS` | `Options` |
| `GET` and `DELETE`, answered by the first call | `Plain` |
| `PUT` and `POST`: headers; pieces; end of the body | `Mark`; `Receive`, `ReceiveFails`; `Complete`, `EmptyFails` |
| the routes, `free_con_cls`, "not found" | `Dispatch` in `Plain` and `Complete`, `Handle` |
| `handle_put_config`, `handle_post_folder`, `handle_post_variable`, `DELETE` of a node, with the functions of the node manager they call | `PutConfig`, `PostFolder`, `PostVariable`, `Delete` |
| `server_config_load`, `parse_node`, `server_config_seed_defaults` | `server_config_load`, `parse_node`, `Defaults` |
| `server_config_save`, `node_to_json` | `Save`, `Printed`, `node_to_json` |
| `main`, `node_manager_build`; `/api/restart`, signals, crashes | `Start`, `Builds`; `Stop` |
| libmicrohttpd and the client | `Request`, `End` |

External, from how the handler uses it: libmicrohttpd calls once with the
headers, then with pieces of any length, then without data, and calls again when
nothing was taken or answered; cJSON refuses what is cut off and does not look at
what follows a document. A body is a sequence of characters, of which one ends a
C string (`Nul`), since the length received so far is taken with `strlen`. A
document is a body of two characters: what it says, a record, and `Brace`,
without which it does not parse.

Definitions are records, and `Absent` is a field that is not there or not of its
type. Loading skips entries without a kind or a name, cuts names and a URI that are too
long (`Short`, `ShortUri`), takes an unknown data type for Boolean, drops what is beyond
`MaxNodes`, and replaces an empty list by the seed; saving leaves out what is
false and the data type of a folder. A file that somebody wrote may have names
that no request could give, and nodes of other kinds, which are listed but never
built: `Definition` is what the list can hold, `IsConfig` what a file can. A save may fail unnoticed as in
`NodeManager`. Whether the address space takes a node is left to `NodeManager`: a
handler may always refuse to add one. Left out: display names, the simulation and
override requests (in `NodeManager`), what `GET` returns, and the namespace that
an environment variable gives, which is not stored.

| Run | Bounds | What it shows |
|---|---|---|
| `server_api` | fair; one connection; one request of each kind with and without each flaw, bodies of up to 4 pieces, some with `Nul`; 3 nodes; no file or one of five written by hand | `TypeOK`, `BodyIsWhatWasSent`, `AnsweredHoldsNothing`, `EventuallyAnswered`, `AnswerIsTrue`, `SavedIsLoaded`, `StartsAgain` |

- `AnswerIsTrue`: when a handler decides on 200, what its client sent, whatever
  pieces it came in, has been done field by field; when it refuses, or there is no
  handler, nothing has changed. Four exceptions, which are what the code does: a
  namespace URI of more than 255 bytes is stored cut and answered with 200, while a
  name that is too long is refused (`CutUri`; `http_server.c:122`); a
  node that finds the list full is created, not listed, and answered with 200
  (`Unlisted`); a deletion takes the first entry of a name, and a hand-written one
  of another kind may hide a node (`Shadowed`); and of a body with a zero byte
  before the end of its document the handler gets what the pieces leave of it,
  which may be a document that as a whole it is not (`Garbled`).
- `SavedIsLoaded`: what was saved whole is what the next start loads. An empty
  list is the exception: it comes back as the seed, with the default namespace.
- `StartsAgain`: no sequence of requests leaves a file with two nodes of one name,
  with which the server would exit at every start. A file that was cut off is the
  exception: with it no server comes up until somebody removes it.
- `BodyIsWhatWasSent`, `AnsweredHoldsNothing`, `EventuallyAnswered`: a handler runs
  once, with the body that was sent; once a request is answered its buffer is
  freed; and every request is answered unless its client leaves, however often
  memory is missing.

One thread serves the requests, so one connection is enough. Four characters make
up to four pieces: first, second and later pieces meet different states of
`con_cls`. Three nodes let the list be emptied, filled and overfilled. The five
files have long names, entries that are skipped and unknown types; no fields at
all; one entry too many; two entries of one name, one of them of another kind;
and two names that become one when they are cut.

Fairness is that of `HttpUpload`: the library goes on calling, the client goes on
sending or leaves, memory is not missing for ever. Nothing is assumed of starts
and stops.

### Proofs

`ServerApiProofs.tla` proves, for any connections, requests, pieces and
hand-written files:

| Theorem | States | Argument |
|---|---|---|
| `Freed` | `[]AnsweredHoldsNothing` | `HoldInv`, inductive |
| `BodyArrives` | `[]BodyIsWhatWasSent` | `HttpInv`, inductive under `HoldInv` |
| `TypeCorrect` | `[]TypeOK` | `HttpInv` and `ConfigInv` |
| `Restarts` | `[]StartsAgain` | `ConfigInv`, inductive |
| `RoundTrip` | `[]SavedIsLoaded` | `ConfigInv`, with what loading makes of a printed list |
| `Answers` | `AnswerIsTrue`, for every step | all three |

`HoldInv` adds that a request of which only the headers were seen holds nothing at
all. `HttpInv` says how what is kept and what is still to come make up the body:
the two together are the body itself as long as no zero byte has been met, and an
answered request has run its handler with that at most once. `ConfigInv` says that
the list in memory has its types and no two built nodes of one name, and that the
file, unless it is cut off, loads to such a list whenever the server runs
(`FileGood`). What a file loads to is proved for every file: `Entries` of what
parses, cut to `MaxNodes`, is a list of definitions, and of a printed list it is
the list again.

Assumed of the constants, each checked by TLC in the run: requests have one of five
methods and a body that is a sequence (`RequestAssumption`); `con_cls` is told from
a body, and a document has each field or not (`BodyAssumption`); the defaults fit
the list and build, names that are too long are no good names and what `snprintf`
leaves of them fits (`ConfigAssumption`); and `Absent`, `Missing` and `CutFile` are
not values of anything else (`AbsentAssumption`).

Only model-checked: `EventuallyAnswered`, which is liveness.

Without a property: a client that leaves in the middle of its body leaks the
buffer (`End`); a handler that ran but got no response built is answered "not
found", although what it did stays done (`Dispatch`); and a handler that gets no
memory for the text of its reply passes a null pointer on to `strlen`
(`http_server.c:27` and `:131`), which ends the process with the change made: to
the model a client that is gone (`End`) and a server that stops (`Stop`).

## LegacyBridge

`LegacyBridge.tla` models the main loop of `src/opcua_tcp_bridge.c`, one thread:
`pc` is where it is, `known`, `ids`, `resolved`, `backoff` and `seq` are its
variables, `slots` is `g_clients`, `sock` the connections as the bridge sees
them, `received` and `cut` what they were sent, whole or in part.

| Code | Actions |
|---|---|
| head of the loop, reconnection | `LoopHead`, `ConnectToServer`, `FindNamespaceIndex`, `FindSensorsFolder`, `BrowseToNode` (one sensor), each with `Fail` |
| `select`, `acceptNewClient`, closed clients | `Select`, `AcceptNewClient`, `AcceptNobody`, `Reap` |
| `readSensors`, `broadcastFrame` | `Update`, `SendWhole`, `SendPart`, `SendNobody` |
| signal, shutdown | `Signal`, `Shutdown` |
| subscribers and server | `PeerConnects`, `PeerGone`, `PeerStalls`, `PeerResumes`, `ServerChanges` |

The server is abstracted to how much of what the bridge looks for it offers, in
the order in which the bridge looks: nothing, a connection, the namespace, the
folder, the first `k` sensors; `Offers` are the stages it may change to. `waited` stops
counting at `backoff`, and a turn of the loop takes no time or `Turn` seconds. What
subscribers send is never read; that it hides the end of their stream from the
peek at a ready socket, so that they are not removed before a send to them fails,
is the choice that `Reap` has. The encoding is left out.

| Run | Bounds | What it shows |
|---|---|---|
| `legacy_bridge` | fair; 2 subscribers for 1 slot, 2 sensors, delays of 1, 2, 4 and 3, turns of 0 or 2, a server without its second sensor or not there at all, 3 frames | `TypeOK`, `SlotsOwnSockets`, `NothingAfterPartOfFrame`, `ReadsFoundIds`, that it implements `FrameStream`, `Reconnects`, `SignalEnds` |

Two subscribers for one slot let it be taken, refused, freed and taken again; two
sensors let a lookup fail in the middle; with a limit of 3 the delay doubles twice
(1, 2, 4), exceeds it, and falls back to it (3), as it does with 1, 2, 4, 8, 16
and 10 s in the code, and the longer ones take several turns of the loop. More slots, subscribers and sensors
multiply the states of the liveness properties beyond the time of a run: what
two slots could do to each other is left to the proofs, which cover any number.
A third frame is one after the first gap. `MaxClients`, `SensorCount` and
`BackoffLimit` are constants of the code.

Fairness: the thread goes on, and time passes (`LoopHead(Turn)`, strong: the head
of the loop does not find the same second for ever). `send` blocks, so
`Reconnects` and `SignalEnds` assume that subscribers read in the end.

### Proofs

`LegacyBridgeProofs.tla` proves, for any number of slots, subscribers and sensors
and any limit of the delay, given `ConnsAssumption` and `SizesAssumption`:

| Theorem | States | Argument |
|---|---|---|
| `TypeCorrect` | `[]TypeOK` | `TypeInv`, inductive |
| `Owned` | `[](SlotsOwnSockets /\ NothingAfterPartOfFrame)` | `OwnInv`, inductive under `TypeInv` |
| `IdsFound` | `[]ReadsFoundIds` | `IdsInv`, inductive under `TypeInv` |
| `Streams` | `Spec => StreamSpec` | `StreamInv`, inductive under `TypeInv` and `OwnInv` |

`TypeInv` adds where the two loops of the thread are (`at`), without which the
loop over the slots could begin in the middle. `OwnInv` adds that a connection
whose last frame was cut is closed. `IdsInv` adds that a lookup has begun only
with the namespace known and has found all sensors before the one it is at.
`StreamInv` says which frame each slot was sent last: the newest, or the one
before while the loop has not come to it (`LastFor`); with it, and since a
connection is in one slot only, every send is the `Deliver` of `FrameStream`.
That there is a first free slot rests on the well-foundedness of the naturals
(`WFMin`).

Only model-checked: `Reconnects` and `SignalEnds`, which are liveness.

## QtBridge

`QtBridge.tla` models `BridgeEngine` under the buttons of `MainWindow`: one thread
and its event loop. `connected`, `running`, `seq` and `clients` are the members of
the engine, `session` that of `m_client`, `ui` what the buttons were last enabled
for, `box` the message box that is open, `pc` and `at` the loop a handler is in.
`memory` is the array that `stopBridge` goes over.

| Code | Actions |
|---|---|
| `onConnect`, `connectToOpcUa` | `Connect` |
| `onStartBridge`, `startBridge` | `Start` |
| `onStopBridge`, `onDisconnect`, `stopBridge` | `Stop`, `Disconnect`, then `StopSocket` for each socket, `StopEnd` |
| `onErrorOccurred` (a message box), `updateUiState` | `CloseBox`, `updateUiState` |
| `onTick` | `Tick`, then `TickWrite` for each socket, `TickEnd` |
| `onAcceptConnection`, `onClientDisconnected` | `onAcceptConnection`, `onClientDisconnected` |
| destructor | `Quit` |
| Qt's sockets, subscribers, the server | `Flush`, `Destroy`, `PeerConnects`, `PeerGone`, `LoseSession` |

A handler runs to its end before the next event, with two exceptions, which are
what makes this code hard. A message box runs an event loop of its own inside the
handler that opened it: ticks, new subscribers and lost ones go on, clicks do
not, and the handler goes on when the box is closed. And `stopBridge` calls
`disconnectFromHost` on each socket of `m_clients`: a socket with nothing left to
write is closed at once, its `disconnected` signal runs `onClientDisconnected`
inside the loop, and that takes it out of the list the loop goes over.

Assumed of Qt, from its documentation and how the code uses it:
`disconnectFromHost` closes at once when the write buffer is empty and later
otherwise; `write` only buffers; the end of a stream closes a socket whatever is
in its buffer; `deleteLater` deletes in a later turn of the event loop;
`QList::removeAll` moves the elements up and leaves what was behind the new end,
so that the loop, which has taken its end before, reads the old ones there again.

| Run | Bounds | What it shows |
|---|---|---|
| `qt_bridge` | fair; 3 subscribers, 2 frames | `TypeOK`, `ClientsAreAlive`, `UiKnowsState`, `StopClosesMost`, that it implements `FrameStream`, `GoneAreReleased` |
| `qt_leftover` | the same | violates `OpenAreServed`: a stop skips the second of three subscribers, which stays connected and is not served by the next start (`PROTOCOL.md:142`: "Connect and immediately start receiving MessagePack frames") |

Of two subscribers the loop skips the second, too, but meets it again behind the
end of the list; only with three does one stay. `StopClosesMost` says what is
left of the promise: with up to two, everybody is closed, and always more than
half of them. Two frames are one before and one after a stop. Clicks, message
boxes and losses are not bounded.

Fairness: handlers come to their end, the timer goes on firing, and the event
loop gets to every socket that has something for it. Nothing is assumed of the
user, the subscribers and the server.

A session that is lost is noticed by the next tick, which opens a box and leaves
the bridge running without frames until the user connects again; the repository
promises nothing else, and `UiKnowsState` asks only that the button to stop stays
enabled.

`QtBridgeProofs.tla` proves, for any number of subscribers and frames, given
`SeqAssumption`:

| Theorem | States | Argument |
|---|---|---|
| `TypeCorrect` | `[]TypeOK` | `TypeInv`, inductive under `ClientsAreAlive` |
| `Alive` | `[]ClientsAreAlive` | inductive under `TypeInv` |
| `UiRight` | `[]UiKnowsState` | `UiInv`, inductive under `TypeInv` |
| `ClosesMost` | `[]StopClosesMost` | `LoopInv`, inductive under `TypeInv` and `ClientsAreAlive` |
| `Streams` | `Spec => StreamSpec` | `StreamInv`, inductive under `TypeInv` and `ClientsAreAlive` |

`TypeInv` adds where the loops are. `UiInv` adds what a box is open over: one of a
click over a bridge at rest, one of a tick over a bridge without a connection.
`StreamInv` says which frame each place of the list was sent last, as in
`LegacyBridge`, and that who was not accepted was sent nothing.

`LoopInv` is why a stop closes more than half. The array is the list, and behind
its end copies of its last entry (what `removeAll` leaves there); a socket that a
removal has moved under the index is passed over, and every one passed over is
paid for by one that was removed. The last of the array is the one who cannot get
lost: it is still last in the list (`LastListed`), or the loop has met it behind the
end and removed it (`LastGone`); so when the loop ends it is closed or closing, and
those passed over are fewer than those that were not. TLC has confirmed the
invariant with four subscribers.

Only model-checked: `GoneAreReleased`, which is liveness.

## Plan

Done: the three bridges with the abstract stream they implement; the server with
its node manager, its HTTP API and its file; the configuration of the Go bridge;
the theorems above.

What could be added, in this order:

1. `BrowsePage`: requests and answers of `loadBrowse` in the page of the bridge
   (`internal/web/static/app.js:149`) that come out of order.
2. In `BridgeConfig`, the port that a running bridge listens on and the one that
   `Status` shows.
3. `WireValue`: `dataValueToWire` on values of small width, against the type
   codes of `PROTOCOL.md`.

Every invariant and action property of the passing runs but `BuiltBelowParent`,
and every refinement, is stated by a theorem; what is left to prove is what the three additions would
need.

## Not modelled

- The wire format and node ids of the Go bridge (`internal/bridge/value.go`,
  `internal/frame`, `internal/nodeid`): conversions without state, of one value
  or string at a time. Frames carry their number only.
- The encoding of frames and the reading of values in the C and the Qt bridge,
  for the same reason; a sensor that cannot be read is sent as false and stops
  nothing.
- The two web pages: what they do to the server and the bridge are the requests
  of `ServerApi`, `NodeManager`, `BridgeService` and `BridgeConfig`; what they show
  is rendering.
- The dialogs, the table of sensors and the node browser of the Qt bridge
  (`NodeSelectionDialog.cpp`, `OpcUaBrowser.cpp`, most of `MainWindow.cpp`): they
  edit settings and show what they are given. Its configuration only decides
  whether `Connect` succeeds.
- `Browse` and `Status` of the Go bridge, and the documents that `GET` requests of
  the server return: they change nothing.
- Build scripts, containers, generated code.

Out of reach of the prover, and left to TLC: liveness under fairness, and what a
recursive definition computes.

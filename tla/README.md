# A TLA+ model of the connector

The repository is a chat *connector*: a Go server that holds the TCP
connections of chat users, keeps who is logged in and in which room, forwards
chat messages in batches to compute servers, and pushes messages that arrive
over a redis subscription to users. Its own code is under `src/src`; the core is
`server/connector/internal/service/connectsvc`. This directory holds TLA+
modules translated from that code, the TLC configurations that check them on
small instances, and TLAPS proofs for every size of instance.

File names below without a directory are in `connectsvc`.

## 1. Inventory

| component | state it keeps | operations | modelled in |
|---|---|---|---|
| session registry: `ClientManager`, `Client`, Register / RefreshToken / HeartBeat handlers (`client.go`, `connectsvc.go`) | table user id -> `Client`; `info.LoginUsers`; per connection the pumper's user data, handshake flag, monitor goroutine | `clientIn`, `createClient`, `removeClient`, `CloseAll`, `monitor`, `ending`, the handlers with their `recover` | `Sessions` |
| rooms: `RoomManager`, EnterRoom and Chat handlers (`room.go`, `connectsvc.go`) | two-level map room -> user -> `Client`; `Client.roomId` | `clientIn` (two critical sections), `ending` | `Sessions` |
| push path (`client.go`) | `Client.queue`, condition variable, `Client.q`, the pumper's out-queue | `ServerHello`, goroutine `Client.a`, tail of `Client.ending` | `PushQueue` |
| chat queues (`tocompute.go`, tail of `handleMsg`) | `messageQueueGroup`: room -> bounded `MessageQueue`; message counter | `MessageQueueGroup.Add`, `MessageQueue.Add`, both `DrainTo`, `consumeEvent` every 50 ms | `RoomQueues` |
| compute rpc client (`plainrpc.go`, `tocompute.go`) | server list, connection map, lock, call counter | `initRpcServerDiscovery`, `deliver`, `trySend`, `send` | `ComputeRpc` |
| shutdown of `main.go` | place of main | `Stop`, `CloseAll`, `WaitClients` | `Sessions`, `Shutdown` |
| heartbeat sweep (`heartbeat.go`) | `heartBeatTime` of each client, the timer | `heartBeat`, close late clients | `Heartbeats` (in `Sessions` any client may be late) |
| session expiry (`client.go`, `token.go`) | `expireTimer` | `expire`, timer callback, its stop in `ending` | `Expiry` (in `Sessions` it may strike any time) |
| subscription and delivery (`subscribe.go`) | the message under way, the inner map and user ids in hand | `subscribe`, `handleSubscription`, `deliverToUser/Room/World`, `deliverToSingleClient` | `Delivery` |
| router message and its codecs (`protodef/pconnector`, `subscribe.go`) | the shared `ToClientMessage` with its cached bytes | `Unmarshal` with its fallback, `convert`, `Marshal` | `RouterMessage` |
| token decryption (`token.go`) | - | `hexToBytes`, `splitBytes`, the block loop of `decrypt` | `TokenCodec` |
| naming service (`naming.go`, `stat.go`, start-up in `connectsvc.go`, `main.go`) | `cachedInternetAddress`, the redis hash, connection and traffic counters | vote on the address, periodic publication, withdrawal, the wrapped `Accept` and `Close`, sampling | `Naming`, `Stat` |
| configuration (`config`) | - | loading | `Naming` (succeeds or ends the process) |
| logging, generated protobuf, debug/http services, manager set, test client | - | - | not modelled: no behaviour of their own |

**How the parts interact.** `bdmsg` (an external library) accepts a connection
and runs a *pumper* whose goroutine calls the registered handlers one after the
other. Register creates a `Client` in the table, which starts two goroutines:
`monitor` (waits for the pumper to have stopped, then runs `ending`) and
`Client.a` (sends pushes). Handlers of different connections run concurrently
and share `ClientManager`, `RoomManager` and `messageQueueGroup` under their
locks. The consumer goroutine drains `messageQueueGroup` and calls
`rpcClient.deliver`; the discovery goroutine changes `rpcClient` next to it. The
subscription goroutine looks clients up and calls `ServerHello` on them. The
heartbeat goroutine, expiry timers and `main` ask pumpers to stop. A ticker
publishes address and figures of the process in redis.

**What is hard here.** A new login supersedes an old connection whose handlers
and teardown are still running; entering a room is two critical sections; the
sender goroutine looks at its queue and waits in two critical sections; queue
creation is double-checked; the rpc client's methods have *value receivers*, so
its lock is copied and protects nothing; `expire` runs in a goroutine per token
and shares its timer with nothing to guard it; the withdrawal from the naming
service is deferred in the wrong function and runs at start-up. PROJECT.json
lists these hazards at their lines, with the properties that cover them.

**What makes each component correct.** Registry: at most one live connection per
user, and a late teardown never evicts the successor. Rooms: a live client is
found in its room, a dead one is not. Push path: every pushed message goes out
once and in order. Chat queues: one queue per room, only the oldest messages are
discarded, nothing is lost otherwise. Rpc client: batches are framed correctly,
sent at most once, connections are not leaked, an attempt ends. Timers: nobody
lively is closed, nobody silent is missed, a refreshed token is not undone.
Naming: the address is the voted one, a serving process is advertised, figures
are true. Codecs: nobody is addressed that a message does not name, nothing of a
token is lost. Shutdown: main exits.

## 2. Modules

| module | contents |
|---|---|
| `Sessions` | session registry, rooms, teardown, shutdown; properties and inductive invariant `IInv` |
| `SingleLogin` | abstract specification: a user id is held by one connection, taken over only together with a stop request to the holder |
| `MCSessions` | symmetry set for TLC |
| `SessionsProofs` | theorems about `Sessions`, refinement of `SingleLogin` included, and about `Shutdown` |
| `PushQueue`, `PushQueueProofs` | push path of one client, and its theorems |
| `RoomQueues`, `MCRoomQueues` | chat queues and consumer |
| `ComputeRpc`, `MCComputeRpc`, `ComputeRpcProofs` | rpc client and discovery, and their theorems |
| `Delivery`, `MCDelivery`, `DeliveryProofs` | the subscriber goroutine, composed with `Sessions` (which it extends), and its theorems |
| `ChatPath` | abstract specification: what is said arrives once or is lost, in the order of its sender and room |
| `ChatSystem` | `RoomQueues` (which it extends) and `ComputeRpc` (an instance) composed; refines `ChatPath` |
| `ChatProofs` | theorems about `RoomQueues` and `ChatSystem`, refinement of `ChatPath` included |
| `Shutdown` | `Sessions` with the fairness of main and of the goroutines |
| `Heartbeats`, `Expiry` | the sweep against the clock; the expiry timer of one client |
| `MCTimers`, `TimersProofs` | the two for TLC, and their theorems |
| `Naming`, `Stat`, `MCNaming` | life of the process as redis sees it; the published figures; both for TLC |
| `NamingProofs` | theorems about `Naming` and `Stat`, and the induction they need |
| `RouterMessage`, `TokenCodec`, `MCCodecs`, `CodecsProofs` | the codecs; both for TLC; their theorems |

Definitions named `Mutant_...` stand next to the definition they vary. No
specification uses them; each is a plausible coding mistake that TLC finds when
it is put in place of its original, which shows that the property is sensitive
to that code (list in PROJECT.json under `mutants`).

`MCTimers`, `MCNaming` and `MCCodecs` each put two modules that share no variable
into one run. A variable `subject`, chosen initially, says which of the two takes
steps. Each property speaks of one of them only, so letting both run would
multiply the states and show nothing more.

### Sessions

A `Client` object is made by one registration and never shared, so connection
and client have one name `c`. `conn[c]` is the state of its pumper: *idle* (not
accepted), *open*, *stopping* (someone called `Stop`), *stopped* (StopD closed).
`clients` is the table, `rooms` and `roomKeys` the inner maps and the outer
keys, `hpc[c]` and `mpc[c]` the places of the handler and of the monitor between
critical sections. `latest` and `entered` are history variables used by the properties only.

| action | code |
|---|---|
| `HandleRegister`, `ClientIn`, `CreateClient`, `Superseded` | `handleRegister` to the end of `ClientManager.clientIn` and `createClient`: the old client is closed and the new one stored under one lock |
| `Handshake` | `msc.Handshake()`, outside the lock |
| `RegisterRejected`, `RefreshTokenRejected` | the deferred `recover`, which stops the pumper |
| `GuardedHandlerEscapes` | the type assertion above that `defer` |
| `OpenHandlerPanics` | handlers without a `recover` |
| `HandleEnterRoom`, `HandleChat` / `FinishEnter` | first and second critical section of `RoomManager.clientIn`, as called by the two handlers |
| `Leave` | `RoomManager.ending` |
| `MonitorLeavesRoom`, `MonitorRemoves`, `MonitorQuits` | the parts of `Client.ending`, between its locks |
| `HeartBeatSweep`, `SessionExpired` | `initHeartBeat`, the expiry callback |
| `ServerStop`, `CloseAll`, `WaitClients` | `main` after a signal |
| `Accept`, `PumperStops`, `PeerGone`, `HandshakeTimeout` | bdmsg (external) |

HeartBeat, RefreshToken with a usable token, and Chat to the current room change
only data that is abstracted here (times, payloads), so they are stuttering
steps; their panics are actions.

### PushQueue

One client. `Client.a` is split at its critical sections: `SenderTests` (reads
`c.q`), `SenderTakes`, `SenderWaits` (locks again and waits) and `SenderOutputs`
(marshal and `Output`, lock free). Between take and wait it is deaf. `missed`
and `unheard` record that a broadcast, or the one signal of `ending`, fell there;
the properties say that this is the *only* way a message or the goroutine can
be left behind.

### RoomQueues

A handler goes through `HandleMsg` (atomic message id), `Lookup` (read lock),
`Create` (write lock, looks again) and `AddMessage` (queue lock, pointer held
from before). The consumer goes through `ConsumeStart`, one `DrainQueue` per room
in arbitrary order, and `Deliver`. `Excess` and `DrainCount` are the closed
forms of the removal loops. `packed`, `added`, `discarded`, `taken` are history.

### ComputeRpc

`deliver`, `trySend` and `send` have value receivers. Each call copies the
struct: the lock (`DeliverCopies`: copied while held, it is locked for ever), the
slice header (`SliceCopies`: possibly torn while discovery stores it), a counter
that is always zero in the original. The map is shared and unprotected: a write
during discovery's iteration may kill the process (`crashed`), and discovery may
close the connection between two writes of a frame. Go leaves these data races
undefined, so every such outcome is a nondeterministic choice. Any dial or write
may fail. `excuses` counts failures the network or discovery account for.
Discovery's first call and its ticker are one actor with arbitrary answers. An entry
added to the map during discovery's iteration is visited by it or not, as Go
leaves open.

### Delivery

Extends `Sessions`: a step is one of the session core (`SessionStep`) or one of the
subscriber goroutine. The room tables of Go are maps of maps and `deliverToRoom`
keeps a pointer to the inner one between two critical sections; `orphan` says
that the room's map was deleted since, so that the one in hand is empty and no
longer the room's. User ids and room ids are both strings and the owner of a
room is the user whose id is the room id, so `Users` and `Rooms` overlap in the
instances. Each lookup in the client table and the `ServerHello` on what it
returned are two steps; `deliverToWorld` is one, since it holds the table's lock.
`steady` and `present` are history: the clients that stayed in the table, or in
the table and the room, for as long as the message has been under way.

### ChatSystem and ChatPath

The two modules are joined where `consumeEvent` calls `deliver`: `HandsOver` is
`Deliver` of the one and `DeliverCopies` of the other in one step, `Drains` waits
for `deliver` to have returned, a crash ends everything. The specification is
`ChatSpec`, with fairness `ChatFairSpec`; the variables `cpc`, `batch` and `k` of `ComputeRpc`
are called `rpc`, `number` and `failures` here. `parcel` holds the
messages of each batch, `arrived` those of completed writes. The refinement
mapping: `said` are the messages a handler has numbered, `lost` those a full queue
discarded or a batch that `deliver` gave up contained.

### Shutdown

Adds to `Sessions` the history `late`, the connections that registered after
`CloseAll` had looked at the table, and fairness (section 4).

### Heartbeats

`BeatReads` and `BeatStores` are the two halves of `Client.heartBeat`. `SweepStarts`
reads the clock and computes the limit, `SweepLocks` gets the read lock later,
`SweepLoads` loads one `heartBeatTime` and compares it, `SweepCloses` closes the client
that was found late (`judged`); in the code the pumper's statistics and a line of
the log stand between the two. Registrations and removals need the lock,
heartbeats do not: `beaten` records that one was stored between load and close.

### Expiry

One client; every accepted token starts `expire`, whose test of `expireTimer`,
creation, store and `Reset` are separate steps. Timer `i` is the one token `i` may
create. `Fires` is the callback, late by any time; `EndingStopsTimer` the line in
`ending`. `CoarseNow` is the clock as the code reads it. `raced` says that an
`expire` overlapped another one or `ending`. The clock counts milliseconds,
durations and deadlines nanoseconds: `Nanoseconds` is the product of
`client.go:328`, an int64 that wraps around (`Wrap`; `Limit` stands for 2^63), and a timer
started with a duration that is not positive is due at once (`When`). The
runtime caps a deadline at 2^63 ns after the machine started, which is
later than any expiry time that is not too far, and is left out. Expiry times
are read as milliseconds, as the name `durationInMills` says. The name of
`sessionAliveDurationInSeconds` (`client.go:304`, called by nobody) reads the same
difference as seconds; were that right, `expire` would stop every session early,
and `OneTimer` and `NeverBeforeAll` speak of the other reading only.

### Naming and Stat

`main` walks through configuration, listening, `RegisterNamingService` (`Resolves`
or `ResolvePanics`), discovery and the deferred `UnregisterNamingService`, then
serves, closes and exits; any end may be followed by a restart that finds the
hash as it is. `TopIp` is the loop over the votes in the order the Go map yields.
The ticker samples, may crash on the memory statistics, and publishes or is
refused. `Stat` has the counting listener and connection (`Accepts`,
`AcceptCounts`, `Closes`, `CloseReturns`, `ClosesAgain`) and the walk over the
table under its read lock while bytes keep flowing.

### RouterMessage and TokenCodec

`Unmarshal`, `Fallback`, `Convert`, `HexToBytes`, `SplitBytes` are operators
translated from the functions of these names. `MarshalReads` and `MarshalEncodes`
are the two critical sections of `ToClientMessage.Marshal`. Of `encoding/json` the
module has: a syntax error fills nothing, a mistyped value leaves its field out
and reports an error, two fields with one tag are both left out. A block of a
token decrypts or does not.

### Assumptions on bdmsg

bdmsg is not in the repository; it is modelled from its use. Handlers of one
connection run sequentially in its pumper goroutine. `Stop` is a request and is
idempotent; the pumper may still pick messages that were queued. StopD is closed
when the pumper leaves its loop, never inside a handler. A panic that leaves a
handler ends the pumper and not the process (the handlers that panic without
`recover` rely on it). `Output` appends to a bounded queue, blocks while it is
full, and gives up once the pumper has stopped.

## 3. Runs

| run | instance | states | shows |
|---|---|---|---|
| `sessions` | 3 connections, 2 users, 2 rooms | 766 k (symmetry) | the safety properties of the registry and rooms, and refinement of `SingleLogin` |
| `shutdown` | 2 connections, 2 users, 2 rooms | 176 k | `StopCompletes`, `OnlyLateRemain`, `ShutdownEnds` |
| `guarded_panics` | 2 connections, 1 user, 1 room | | violated: see section 6 |
| `push_queue` | 2 contents, out-queue of 2, 4 pushes | 23 k | order, conservation, what a parked sender may owe, that pushes arrive |
| `room_queues` | 2 senders, 2 rooms, queues of 2, batches of 2, 5 messages | 472 k (symmetry) | creation, overflow, order |
| `compute_rpc` | 2 servers, 4 connections, 2 batches, 3 ticks | 623 k (symmetry) | framing, at most once, no leak, bounded retries |
| `chat_system` | 1 sender, 1 room, queue of 1, batches of 1, 3 messages, 1 server, 2 connections, 2 ticks | 144 k | refinement of `ChatPath`, `EveryChatSettles` |
| `delivery` | 2 connections, 2 users, 1 room owned by one of them, 1 message; 2 messages while only the owner has logged in | 2.8 M (symmetry) | who is served, how often, who first, in which order |
| `timers` | 2 clients, timeout 3, period 1, lateness 1, clock to 7; 3 tokens, 4 expiry times of which 2 are too far | 8.4 M | heartbeat sweep and expiry timer |
| `expiry_units` | 1 token, nothing late | | violated: see section 6 |
| `naming` | 3 resolvers, 2 addresses, 2 restarts; 2 connections, 2 bytes each way, 2 samples | 1.0 M | vote, advertisement, published figures |
| `codecs` | 3 ids, 3 senders; texts of up to 8 characters out of 4, blocks of 3 | 772 k | router message codecs, token decoding |

**What the properties say.**

- `RegistryExact`: the table holds exactly the last registration of each user,
  from `clientIn` to that registration's own `removeClient`.
- `OneLivePerUser`, `ImplementsSingleLogin`: single login, as an invariant and as
  a refinement.
- `LoginUsersTracks`: the published counter counts `Client` objects, so it may
  exceed the table during a teardown and equals its size when none is under way.
- `RoomSlotHeld`, `GhostOnlyAfterSwitch`: the room tables. The code has two weak places and the properties state exactly how far they reach:
  `clientIn` does not leave the *previous* room, so a client stays listed in rooms
  it switched away from, also after its end; and a superseded connection whose
  handler is still running can take its successor's slot (`Overtaken`; the history
  variable `entered` records who entered a room last).
- `PushOrder`: exact conservation and order on a live connection.
  `ParkedOwesNothing`, `PushesArrive`, `SenderEnds`: the window between take and
  wait is the only cause of a late message or a goroutine that never ends.
- `NoOrphanQueue`, `NewestRemain`, `NothingVanishes`, `SenderOrder`: the chat
  queues. Order holds per connection and room only: the id is drawn before the
  queue is locked.
- `FramesWhole`, `AtMostOnce`, `OpenIsMapped`, `OneStaleAttempt`: the rpc client. A
  batch may be lost (no server, three failures, a torn read), never doubled; a
  closed connection that discovery left in the map costs one attempt.
- `UserServed`, `MembersServed`, `OwnerFirst`, `RoomPrivacy`, `InboxOrder`: delivery.
  Whoever stays in place while a message is under way gets it exactly once; what
  is promised to those who come, go or change connection meanwhile is only that
  strangers to the room get nothing and that order is kept. A user who switched
  to another room still gets the old room's messages (see above), which is why
  `RoomPrivacy` says *has entered once* and not *is in*.
- `ImplementsChatPath`, `EveryChatSettles`: the whole way of a chat message. What
  the parts promise adds up: at most once, never after a loss, in order; and
  every message arrives or is given up on record, the exceptions being the two
  ends of the consumer itself, a lock copied while held and a crash.
- `StopCompletes`, `OnlyLateRemain`, `ShutdownEnds`: a connection told to stop is
  torn down; `main` waits for ever only when a connection that registered after
  `CloseAll` is served for ever, which the code permits.
- `OnlySilentClosed`, `SilenceBounded`: the sweep finds only clients late that are,
  and misses none, although it computes its limit before it waits for the lock
  and heartbeats are stored without one. A client may speak between the load of
  its time and the close, and is closed then; `OnlySilentClosed` says that this is
  the only way to be closed with a fresh heartbeat on record.
  `OneTimer`, `NeverBeforeAll`: tokens that do not overlap work as one timer;
  overlapping ones may leave an old timer running, but never cut a session before
  the time of every token it presented. Both except tokens whose expiry is too
  far away for an int64 of nanoseconds (`TooFar`, `Respects`): their timers may
  fire at any time from at once on (section 6).
- `PluralityWins`, `ServingIsAdvertised`: the vote does not depend on the order of
  the map, and the withdrawal at start-up is repaired by the ticker.
  `ConnectedExact`, `NeverOverReported`, `NegativeOnlyAfterDeparture`: the published
  figures. Traffic may be negative, but only when a counted client has left.
- `OnlyNamedTargets`, `EncodedOnce`, `TokenFaithful`: the codecs. The fallback of
  `Unmarshal` stores `params` in `ToUserId`, which is always empty there; no user,
  no room and not the world is addressed unless the payload names it.

**Bounds, and why they are enough.** Three connections are the smallest number
with a superseded, a superseding and an unrelated or third one; two users and
two rooms let slots and keys collide and differ. Four pushes exceed an out-queue
of two with one message in hand and one queued. Five messages overflow a queue
of two twice and need more than one batch of two; the write lock and the two
senders give every interleaving of double creation. Four connections and two
batches allow the first batch to fail on one and be retried, and the second to
meet a closed entry; three ticks let a server disappear, return and disappear.
For `delivery` two users, one of them the owner, are the smallest room with an
order of service, and two connections let a member be superseded or replaced by
a stranger; the second message, for order and supersession, is received only
while nobody but the owner has logged in (`Bound` of `MCDelivery`). In `chat_system`
three messages let one be in the hand of `deliver` while the next is discarded by
a third, and two ticks let discovery close a connection in use; creation races of
two senders are the business of `room_queues`. Its batches of one leave no remainder in a
queue and have no order inside; there the refinement rests on `ChatRefinement`,
which is proved for every batch length, and `EveryChatSettles` says nothing of it. The clock of `timers` exceeds the
longest permitted silence (6); three tokens are two that overlap and one
that refreshes; their expiry times are one that may be over when it is looked at,
one that is reached in time, one whose duration wraps to a negative number and
one that wraps to a short one. Two restarts leave keys of two earlier processes; three resolvers
give majorities and ties, with and without answers that are empty. Two samples
are a difference. Eight characters are four bytes, one more than a block; odd
texts and characters that are no digits are among them. The safety results proved
in section 5 do not depend on these bounds. `MaxPushes`, `MaxMsgs`, `MaxBatches`,
`MaxTicks`, `MaxMessages`, `MaxTime`, `MaxClock`, `MaxTokens`, `MaxRestarts`,
`MaxBytes`, `MaxSamples` and `MaxLen` are bounds of the model; `OutqueueN`, `MaxSize`
(100), `MaxLength` (10000), `Timeout` (3 s), `Period` (1 s), `Second` (1000), `Mega` (1e6), `Limit` (2^63) and
`SplitLength` are parameters of the code with small values. `Delay` is neither: it
is the assumption that a sweep ends at most that long after it was due, on which
`SilenceBounded` alone depends.

**Deadlock** is checked in `sessions`, `shutdown`, `room_queues` and `delivery`, where
the only resting state is after `main` has returned or everything has been said.
The others may rest: a parked sender with no more pushes, a stuck consumer, a
process that died, a clock or an input that has reached its bound.

## 4. Fairness

- `Shutdown`: weak fairness of the goroutines in the middle of a handler or of
  `ending` (they wait for nothing but short locks), of `main` after the signal,
  and of bdmsg's handshake timer. Strong fairness of `PumperStops`: a pumper that
  is kept busy is not continuously able to stop, but its `select` chooses at
  random among ready cases, so a pending stop is taken. Peers and session
  timers are under no obligation.
- `PushQueue`: weak fairness of the sender, of the two steps of `ending`, and of
  the pumper's writes. The last one says that the peer keeps reading; a
  connection need not stop and nobody need push.
- `ChatSystem`: weak fairness of the consumer (a ticker), of the handlers' steps
  and of a delivery in progress (dials and writes return; the code
  sets no deadline on a write, so this assumes that the server keeps reading or the
  connection breaks), strong fairness of
  `Create`: a waiting writer of a Go `RWMutex` blocks new readers, so successive
  drains cannot keep it out.
- `Naming`: weak fairness of the ticker, strong fairness of `Publish`: of
  infinitely many commands redis takes infinitely many. Start-up owes nothing,
  since `http.Get` has no timeout.

## 5. Proofs

All are checked by TLAPS for every value of the constants that satisfies the
named assumptions, which TLC evaluates on the instances:

- `ConstantsAssumption`: finitely many connections, nil is none of the ids;
- `DeliveryAssumption`: the world is no room, and neither has the name by which
  the history `inbox` marks a push to a user;
- `PushAssumption`, `QueuesAssumption`: limits are positive, nil is no queue and no
  message;
- `ChatAssumption`: the bound on batches is a number;
- `RpcAssumption`: finitely many server addresses, nil is no address and no
  connection;
- `HeartbeatAssumption`, `ExpiryAssumption`: times are natural numbers, expiry times
  integers of the word size, periods, units and the word size not zero;
- `NamingAssumption`, `StatAssumption`: finitely many resolvers, addresses and
  connections; no answer and an empty answer are different and no address;
- `RouterAssumption`, `TokenAssumption`: the empty string and a missing field are no
  id and no text; a block has at least one byte.

**Sessions.** `IInv` adds to the safety properties what a step needs to know:
`Lifecycle` couples the goroutines of one connection (a handler in progress keeps
the pumper from stopping, an ended client's pumper has stopped), `LatestOnly`
says every registration but the last of its user was told to stop, `SlotsKeyed`
that a slot holds a client of its own user. Without `LatestOnly` a registration
could find an empty table entry while an older connection is open; without
`Lifecycle` an ended client could still be inside a handler that enters a room.
`InductiveInvariant` has one lemma per group of actions (`ConnActions`,
`RegisterStep`, `BeginEnterStep`, `FinishEnterStep`, `MonitorLeavesRoomStep`,
`MonitorEndsStep`); `LeaveEffect` says once what `RoomManager.ending` does.
`RegistryIsExact`, `OneLive`, `RoomTables` and `NoGhostInLastRoom` follow.
`Refinement` maps every step to `LogIn`, `LogOut`, `End` or a stutter of `SingleLogin`.
`LoginUsersTheorem` rests on `Counted`: the counter is the number of clients between
`createClient` and the last step of their monitor, of which the table is a part,
and all of it when every monitor is at rest.

**Shutdown.** `ShutdownInv` is `IInv`, `OnlyLateRemain` and the fact that after
`main` has returned no pumper runs. `CloseAll` reaches every client in the table; that
it thereby reaches every client nobody told to stop is `LatestOnly` and
`RegistryExact`, and that none is opened afterwards is `NothingOpens`.

**Stat.** `ConnectedExactTheorem`: the counter is the number of connections between
the increment in `Accept` and the decrement in the one `Close` that succeeded.
`StatInv` is the type invariant (`StatTypeTheorem`) and `FiguresInv`: what was published
adds up to what was kept at the last sample; what is kept, and what a sample has
added up so far, was carried by clients it counted; and while no client of the
sample before has left, what the sample in progress has added up and what is
left to visit make up what was kept. The second part gives
`NeverOverReportedTheorem`. The third is what `NegativeOnlyAfterDepartureTheorem` needs at the step that
publishes, where nothing is left to visit.

**Naming.** `PluralityWinsTheorem` needs no invariant but itself: the address is settled
by one step. What it needs is what the loop of `resolveIp` computes: `TopIpLeads` says
that the winner has as many votes as any address met, in every order.

*Sums and loops over data.* The totals of `Stat` and the loop of the vote are folds of the
community modules, that is, recursive functions chosen by `CHOOSE`. The
library's induction theorems take an operator as a parameter, which the
installed provers cannot instantiate, so `NamingProofs` states induction about a *set*
instead: `LeastNumber` from the well-foundedness of the natural numbers (`WFMin`),
`NumberInduction` and `SubsetInduction` from it, and `FoldExists`, which says that a
recursion over the subsets of a finite set that takes one member away at a time
defines a function. With it `CarriedIsFold` and `TopIpIsFold` become usable: `CarriedLaws` says
that a sum over connections is any one of its counters and the sum of the
others, whichever `CHOOSE` takes first, and `TopFcnLeads` that after any part of the order the
loop holds a leader of that part.

**Delivery.** `DeliveryInv` has three layers on top of `IInv`. `PlaceInv` says what the
locals of the subscriber goroutine hold at each of its places (`Locals`), that the
clients of the histories hold their user id and slot (`Held`), and that whoever is
in a room, collected from it, looked up for it or pushed to has entered it
(`Entrants`). `OnceInv` says that no inbox is ahead of the message under way, no
user id is listed twice, and a client looked up for the room is not listed any
more. `ServedInv` says that a client of the histories still has its turn to come, is
the one in hand, or has the message, the owner before all others. Each layer needs
the ones before: `RoomPrivacy` is not inductive without `Entrants`, since a user id
collected long ago decides who is pushed to; `InboxOrder` is not without the order
of places in `Pushed`; and exactly once is `ServedInv` (at least) and `OnceInv` (at
most). `RoomPrivacyTheorem`, `InboxOrderTheorem`, `UserServedTheorem`,
`MembersServedTheorem` and `OwnerFirstTheorem` follow. TLC checked the three layers
on the instance of the run `delivery` before they were proved.

**PushQueue.** `PushInv` adds: the hand is empty outside `output`; in the window
the queue is empty unless a push was missed; once `ending` has moved, the
pumper has stopped and `q` is set. From it `PushesInOrder` and
`ParkedIsSettled`. The sequence lemmas (`AppendLast`, `MoveFront`, `FrontIsPrefix`, ...)
carry the conservation argument.

**RoomQueues.** `QueuesInv` adds: different rooms have different queues, an
unallocated queue is empty, the rooms still to be drained have one. From it
`QueuesReachable` (`NoOrphanQueue`), `OldestFirst` (`NewestRemain`), `AllAccounted`
(`NothingVanishes`) and `QueuesBounded`. `NewestAppend` and `NewestCut` are the
facts about suffixes that `AddMessage` and `DrainQueue` need. `SenderOrderTheorem`
needs `OrderInv` as well: what went out precedes what is queued, and both precede
the message a handler holds, whose id was drawn before it waited for the lock.

**ChatSystem.** `ChatComposes`: a behaviour of the composition is one of each part, so the
theorems about `RoomQueues` and `ComputeRpc` hold in it. `ChatInv` joins the two: `QueuesInv` and
`OrderInv`; `HandledInv`, by which a discarded message is in no queue, in no batch, and
in no handler that might add it again (`NothingVanishes` counts messages, and counts alone do not
say which); and `ParcelsInv`, by which the batches handed to `deliver` follow one
another in the order of sending, only batches `deliver` is done with have an
outcome, and what arrived was in batches that were sent. Batches that precede one another
share no message (`PrecedesDisjoint`), so a batch given up and a batch sent have none in
common; `ArrivedOrLost` concludes that nothing both arrived and was lost. `ChatRefinement` then
maps every step: `HandleMsg` says (`SayStep`), `AddMessage` loses what it discards
(`LoseStep`), a write of the bytes makes a batch arrive and a batch given up is lost
(`SendsStep`), everything else is a stutter (`QuietStep`). The rpc client's own invariant is
not needed: that a failed write completes no frame is in `AttemptMoves`. TLC checked
`HandledInv` and `ParcelsInv` on the instance of the run `chat_system`, and on one with two senders and
two rooms, before they were proved.

**ComputeRpc.** `RpcInv` adds: a write goes to the connection the map has for the
address taken from the copied slice (`Addressed`; discovery only closes connections
and never puts another one in their place); a connection nobody dialled is
closed and empty (`Undialled`); an open connection ends with a whole frame, but for
the length of the batch in hand on the one being written to (`OpenEnds`); the batch
in hand and later ones are not reported as sent (`NotYetSent`). `FramesWhole` alone is
not inductive, since a connection with half a frame might be used again, and
`AtMostOnce` is not without `NotYetSent`. `StaleSpent` says where an attempt without
an excuse can have gone, which `OneStaleAttempt` does not.

**Heartbeats.** `HeartInv` adds: no recorded time is ahead of the clock, and one a
handler holds is not behind the one on record, so a late store never turns
`heartBeatTime` back (`TimesPast`); the sweep read the clock after it was due
(`SweepTimes`); every client in the table was heard of since the limit of the
previous sweep and, once visited and not found late, of this one (`Heard`); and
there is one client at most that was found late and not closed yet, whose record
is behind the limit unless it has spoken since (`Judgement`). Without `Heard`
`SilenceBounded` is not inductive: a client might be as silent as permitted and
not be visited in time. From it `Bounded` and, step by step, the action property
`OnlySilent`.

**Expiry.** `ExpiryInv` adds: a duration in the hand of a goroutine reaches to its
token's expiry, unless that is too far, however long ago it was computed
(`DurationReaches`; `WrapFacts` says that the int64 product is the true one when
that fits, `Products` carries the rest of the arithmetic), a timer
exists from its token's test and is known to the client from the store
(`TimersMade`), and as long as nothing overlapped, one goroutine at a time is at
work, on the client's own timer (`NoOverlap`). The first carries
`NeverBeforeAllTheorem`, which holds under every overlap; the last `OneTimerTheorem`.

**Codecs.** `RouterInv`: message and object for the clients are what `Unmarshal` and
`convert` made of the payload, and the cache is filled by the first and only run of
the encoder, whose result every sender that has finished has. `UnmarshalTargets`
goes through the three forms of a payload; `WireFields` says what `encoding/json`
makes of the tags. `TokenInv`: what was decrypted are the first blocks of the text.
`TokenFaithfulTheorem` needs lemmas about the operators: two hex digits and their
byte determine each other (`ByteDigits`, `HexInverted`), `SplitBytes` puts byte `i` into
block `(i-1) \div SplitLength + 1` and loses none (`SplitFacts`, `SplitPlaces`, `BlockFacts`),
from facts about quotients and remainders (`Division`, `Multiples`).

The inductive invariants themselves, and `RoomKeysTight` and `Bounds`, are proved
and therefore not part of the runs.

**Only model-checked** are the liveness properties: `StopCompletes`, `ShutdownEnds`,
`PushesArrive`, `SenderEnds`, `EveryChatSettles` and `ServingIsAdvertised`. The prover does not reach
fairness. Every invariant and every action property that a passing run checks,
and both refinements, are theorems.

The two properties that the code violates (section 6) are no theorems.

## 6. Findings

`guarded_panics`: `handleRegister` and `handleRefreshToken` install a deferred
`recover` with the comment that the defer "must be declared first, otherwise the
panic cannot be captured" (`connectsvc.go:78`), but their first statement, above
it, is an unchecked type assertion on the pumper's user data (`connectsvc.go:76`).
A second Register on a connection, or RefreshToken before Register, fails there
and the panic leaves the handler. The run shows the shortest such history. The
connection ends in either case; the explicit `Handshaked()` test below is never
reached with a true value.

`expiry_units`: `expire` subtracts `time.Now().Unix() / 1e6` from the expiry time and
calls the difference `durationInMills` (`client.go:325`). Seconds divided by a
million are next to nothing, so the timer is set for about the whole expiry time
counted from now, and a session outlives its token ("expiry time", `token.go:19`)
by decades. The run shows it with a single token and nothing late.

Seen while modelling, without a run of their own:

- `time.Duration(durationInMills) * time.Millisecond` (`client.go:328`) is an int64. For an
  expiry more than about 9.22e12 ms after the epoch, the year 2262, it wraps
  around; "never", written as 9999-12-31, gives a negative duration, so that the
  timer fires at once, logs "session to %s expired" and stops a session whose token is
  valid for millennia. `OneTimer` and `NeverBeforeAll` except exactly such tokens, and the
  run `timers` has one that wraps to a negative duration and one that wraps to a
  short one.
- Reading the memory statistics may fail; the error is logged and the nil result
  used (`stat.go:65`), in a goroutine without `recover`, so the whole process dies and its key
  stays in the hash. `Naming` has the crash as an action.
- `resolveIp` (`naming.go:62`) counts answers without an address as votes for the
  empty string; it panics with "no available dns" when they win, although some
  resolver may have known an address. `PluralityWins` says how far this goes.
- `FromRouterMessage.Unmarshal` (`pconnector.go:97`) looks at the deprecated fields
  only after an error, so a well-formed payload that uses them is delivered to
  nobody.
- `ToClientMessage` (`pconnector.go:125`) has two fields tagged `content`, and
  `encoding/json` writes neither of them.
- `UnregisterNamingService` (`connectsvc.go:61`) is deferred in `newService`: it runs at
  start-up and never at the end, so the key of a process that exited remains.

## 7. Plan, and what is not modelled

All components with state of their own have a module, the parts that interact
are composed (`Delivery`, `ChatSystem`, `Shutdown`), and every safety property of the
passing runs, the two refinements included, is proved for all instances. What a
prover that reaches fairness could still add are the six liveness properties of
section 5.

Left out for good: redis and the network beyond "may answer anything, may fail";
the RSA library; log output (`logfactory.go`); generated protobuf code; the fields
and formats of configuration files; the switch that disables heartbeats; the
figures that are only read (cpu, memory, length of out-queues); debug service,
http client (nobody calls it), manager set (empty), test client; and `purge`, whose
only call is commented out.

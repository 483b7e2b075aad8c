# A TLA+ model of channeld

channeld is a messaging gateway for games. Servers and clients connect to it over TCP,
KCP or WebSocket; what they share lives in *channels*. A channel has an owner (usually a
server), data (a protobuf message) and subscribers; updates of the data are merged by the
channel and fanned out to each subscriber at the subscriber's own interval. Channels of
type SPATIAL divide a world into a grid, channels of type ENTITY follow an entity through
it, and a server whose connection breaks may get its channels back when it reconnects.

Everything of interest is in `pkg/channeld`. Every channel has a goroutine that ticks;
every connection has one that receives and one that flushes; others poll (recovery,
unauthenticated connections). They share maps, some concurrent (`xsync`), some guarded
(`subLock`, `ownerLock`), some not guarded at all, and they send work to each other through
the message queues of the channels.

## 1. Inventory

| part | state | operations | meets | hard behaviour | correct when |
|---|---|---|---|---|---|
| channel data fan-out (`data.go`, `channel.go`, `subscription.go`) | `ChannelData` (data, `updateMsgBuffer`, `maxFanOutIntervalMs`), `fanOutQueue`, `subscribedConnections`, `inMsgQueue` | PutMessage, tickMessages, OnUpdate, tickData, SubscribeToChannel, UnsubscribeFromChannel, tickConnections | receivers stamp and queue; the tick handles and fans out; any goroutine subscribes | stamp before enqueue, catching up after a late tick, an interval of 0, list reordered while walked, buffer overflow, connections that close between two parts of a tick | every update reaches every subscriber, once per window, and what they hold is the data |
| connection recovery (`connection_recovery.go`, `connection.go`) | `connectionRecoverHandles` by PIT, `allConnections`, `recoverHandle`, `recoverableSubs` per channel | Close/makeRecoverable, OnAuthenticated/RecoverFromHandle, tickConnectionRecovery, tickRecoverableSubscriptions | four kinds of goroutines, no common lock | crashes during a recovery, two connections of one PIT, timeouts against late reconnections, half-written handles | nothing kept is lost, nobody is displaced, recoveries end |
| channel lifecycle (`channel.go`, `message.go`) | `allChannels`, id counters and "full" flags, `removing`, `inMsgQueue` (capacity 1024) | CreateChannel, RemoveChannel, PutMessage, Execute, Tick, Broadcast | GLOBAL channel creates and removes, every goroutine sends | send on a closing or full queue, recursive read lock, GLOBAL channel losing its owner | ids are unique and reusable, nobody blocks for ever |
| connection I/O (`connection.go`) | `sendQueue` (128), `oversizedMsgPack`, `readBuffer` | Send, flush, receive, readPacket, Close | every goroutine sends, one flushes | Close against Send, message pack kept for the next packet | every message pack is written once, in order |
| authentication and filtering (`auth.go`, `message.go`, `ddos.go`, `pkg/fsm`) | state, FSM, black lists, counters | handleAuth, onAuthComplete, checkUnauthConns, FSM transitions | provider's goroutine, receiver, poller | late or double results, closing meanwhile | only authenticated connections get through |
| access control and handlers (`message.go`, `channel_acl.go`) | settings | create, remove, list, subscribe, unsubscribe, forward | GLOBAL channel and others | decisions on another channel's state | no one acts without access |
| grid (`spatial.go`) | configuration | GetChannelId, GetRegions, GetAdjacentChannels, CreateChannels | - | rounding, edges of the world | the authority areas partition the grid |
| handover (`spatial.go`, `message_spatial.go`, `pkg/unreal`) | owners and data of two spatial channels and the entities' | Notify, Execute | goroutines of three channels | two handovers of one entity in flight, closing servers | an entity is in one spatial channel |
| entity groups (`entity.go`) | shared group instances | AddToGroup, RemoveFromGroup, cascadeGroup, GetHandoverEntities | controllers of several channels | shared instances changed under different locks | members of a group agree on it |
| events (`event.go`) | slice of handlers | Listen*, UnlistenFor, Broadcast | any goroutine | removal while iterating | a one-time handler runs once |
| client, replay, settings, metrics, transports, generated code | - | - | - | - | see section 10 |

The hazards found while reading, each at its line and with the properties that watch it,
are in `PROJECT.json`.

Which module models which part:

| part | modules | configurations |
|---|---|---|
| channel data fan-out | `FanOut`, `FanOutQueue`, `FanOutProofs`, `FanOutQueueProofs`, `MCFanOut`, `MCFanOutQueue` | `FanOut`, `FanOutQueue`, `FanOutLateUpdate`, `FanOutFieldMask` |
| connection recovery | `ConnectionRecovery`, `ConnectionRecoveryProofs`, `MCConnectionRecovery` | `ConnectionRecovery`, `...Saved`, `...Table` |
| its broadcasts about the owner | `OwnerBroadcasts`, `MCOwnerBroadcasts` | `OwnerBroadcasts` |
| channel lifecycle, with the handlers of the GLOBAL channel and their access checks | `ChannelLifecycle`, `ChannelLifecycleProofs`, `MCChannelLifecycle` | `ChannelLifecycle` |
| connection I/O, framing, authentication, filtering | `Connection` over `SendQueue` and `PacketFraming`, against the abstract `MessageStream`; `ConnectionProofs`, `MCConnection` | `Connection` |
| grid | `SpatialGrid`, `SpatialGridProofs` | checked through `Handover` |
| handover, spatial interest, entity groups | `Handover` over `SpatialGrid` and `EntityGroup`; `HandoverProofs`, `WorldProofs`, `MCHandover` | `Handover`, `HandoverResidual` |

## 2. Plan

Done, in this order, the most important first:

1. `FanOut`, `FanOutQueue`, `FanOutProofs`, `FanOutQueueProofs` - one channel's data pipeline,
   first with the fan-out queue as a set, then as the list it is; all safety properties of
   both are proved.
2. `ConnectionRecovery`, `ConnectionRecoveryProofs` (what a recovered server is sent, and
   what is lost of one); `OwnerBroadcasts` extends `ConnectionRecovery` with what the
   subscribers are told.
3. `ChannelLifecycle` - ids, creation, removal, queue capacity and closing, `subLock`
   taken twice, and the access checks of the handlers that do these things;
   `ChannelLifecycleProofs` proves all its invariants.
4. `SendQueue`, `PacketFraming`, `MessageStream`, `Connection` - both directions of a
   connection as refinements of one abstract stream; authentication, filtering and bans;
   `ConnectionProofs` proves the sending direction and all invariants but the types.
5. `SpatialGrid`, `EntityGroup`, `Handover`; `SpatialGridProofs` (the grid and what a query
   reaches), `HandoverProofs` (the regions) and `WorldProofs`: all other invariants of
   `Handover` but the one about groups (section 9).

To come:

6. The client library of the simulated clients.

More than half of what counts as implementation in the repository (about 11 600 of 21 500
lines) is generated by protoc: no module can stand for it, so the share of the lines that
the models map stays well below what the hand-written part alone would show.

## 3. FanOut and FanOutQueue

| code | model |
|---|---|
| `ch.GetTime()`, milliseconds | `now`, advanced by `Advance` in units of the shortest interval |
| `PutMessage`: `ch.GetTime()`, then the send | `Stamp`, then `Enqueue`: other goroutines come in between |
| `tickMessages`, `handleChannelDataUpdate`, `OnUpdate` | `DropUpdate`, `HandleUpdate`; `Writer` is the access test and the attribution to the owner |
| the end of `tickMessages` | `StartTickData`: the queue is empty, or a message was handled and the tick interval has elapsed |
| `tickData` | `DropClosedElement`, `PassOver`, `FirstFanOut`, `FanOut`, one step per visit of an element, `tickTime` its argument |
| `tickConnections` and end of tick | `TickConnections` |
| `SubscribeToChannel`, `UnsubscribeFromChannel`, the owner reset in `handleUnsubFromChannel` | `Subscribe`, `Resubscribe`, `Unsubscribe` |
| `subLock` | these three happen in phase `"messages"` only: the tick holds the lock from `tickData` to the end of `tickConnections` |
| `Connection.Close` | `Close`: from here on `IsClosing()` is true; it may happen anywhere, also inside a tick |

An update sets one field and is known by its `messageIndex`; a field holds the index of the
update that set it last, so the merge is "the last one wins" and a masked field is 0. The
history variables (`whole`, `view`, `received`, `repeated`, `owed`, `late`, `dropped`) are
read by properties only. A subscription request gives all its options; `proto.Merge` appends
the field masks.

An interval may be 0: `SubscribeToChannel` merges what it is asked for unchecked
(subscription.go:53, 67). `nextFanOutTime` is then `lastFanOutTime` again after every fan-out
(data.go:205, 271), the element is due whenever the walk comes back to it, and `tickData`
does not end before the connection closes. In the model as in the code, such an element is never
taken from `toVisit` by a fan-out; `received` stops counting at `MaxCount`, one above what
the property allows, so that the endless walk is a loop of finitely many states.

`FanOut` has the fan-out queue as a set whose elements a tick visits in any order.
`FanOutQueue` extends it with the linked list and the position of the walk: each of its
steps is a step of `FanOut` together with what the code does to the list, and its steps
are exactly those the list permits. Its property `WalkCoversQueue` (what is at or behind the cursor is what the set says
is still to visit) is why the list can always do what the set does; what the list
adds is checked there.

Properties (all of `FanOut.cfg` unless named otherwise):

- `TypeOK`.
- `SubscriptionHasElement`: live subscribers and elements of the queue are the same,
  although three functions change them and only two change both.
- `ReceivedAtMostTwice`: an update goes to a subscription once, or twice when it arrives
  exactly at the end of a window (both ends are inclusive). Excepted, update by update, are
  those in a window of no length (`repeated`), which are sent again and again.
- `OnTimeUpdatesReceived`: nothing that was handled before its window was fanned out is
  ever skipped; exceptions, by name: updates overtaken by one with a later stamp, updates
  the buffer dropped, one's own.
- `NobodyDueAfterTickData`: a tick catches up completely, if it ends.
- `ViewIsChannelData`: whole data and windows fit together without gap or reversal.
- `DropOnlyWhenOverdue` (action property): the overflowing buffer loses an update a live
  subscriber was not sent only if that subscriber's fan-out is late, as long as nobody
  raised an interval by subscribing again.
- `WalkCoversQueue` (`FanOutQueue.cfg`).
- `EveryTickEnds`, `DueAreServed` (liveness; `FanOutQueue.cfg`): a tick ends and whoever is
  due is served, unless a walk goes round for good (`<>[]Endless`) because a subscriber with an
  interval of 0 lives for ever. A walk that met such subscribers ends when they have closed.
  The exception is what the code does, not what it should: channeld.proto:332 says that each
  connection receives the update in every fanOutIntervalMs, and during an endless walk the
  others are sent nothing that falls due after the tick began; the channel handles no message
  either, and `subLock` stays locked.

Two runs are expected to fail, each on a statement of the documentation:

- `FanOutLateUpdate.cfg` / `EveryUpdateReceived`: the design document says that a
  modification is sent to all subscribers. An update stamped before a fan-out and handled
  after it is in no later window.
- `FanOutFieldMask.cfg` / `DataHoldsEveryUpdate`: the field masks say how fields are
  filtered before sending; the first fan-out filters the channel's own data.

Bounds. `FanOut.cfg`: two connections, one a server and the owner; a reader (interval 1,
skips the whole data) and a writer (interval 2, brought forward by 1, receives its own
updates), and a reader of interval 0; a buffer of one, so that two updates overflow it (the code has 512); time up to 3,
so that a subscriber of interval 1 misses up to two windows; two updates and two calls of
SubscribeToChannel, so that one may be merged or follow an unsubscription; the client may
close. Two updates are what overtaking, overflow, merging and a boundary need; the
proofs cover the rest for every safety property. `FanOutQueue.cfg`: three subscribers,
because moving an element needs one before and one after it; each with an interval of 1, when it
skips the whole data and may be two windows behind, or of 0, when it starts early; time up
to 2; three calls of SubscribeToChannel; a connection that may close before or during a walk,
and whose updates, which it may not make, keep `tickMessages` busy. `FanOutFieldMask.cfg` has
two fields and a masked reader, `FanOutLateUpdate.cfg` one reader.

Deadlock checking is off: the bounds stop the clock and the traffic.

## 4. ConnectionRecovery

A handle is named by the connection it was made for. Times are ages in units of
`ChannelDataRecoveryTimeout` (one second), which stop growing when no comparison can tell
them apart. Handlers are cut where other goroutines can see the difference:

| code | model |
|---|---|
| `AddConnection` | `AddConnection` (the id loop is the guard; the ids that may be generated are a constant) |
| `Close` | `BeginClose` (makeRecoverable if the close is unexpected), `CloseState`, `EndClose` (the entry of the *current* id) |
| `OnAuthenticated`, `RecoverFromHandle` | `OnAuthenticated`, `ClaimPrevId`, `SetNewConn`, `SetStartRecoveryTime`; the last one may find the handle reset, which ends the process (`panicked`) |
| `tickConnectionRecovery` | `TickConnectionRecovery` for the entry of a PIT, then `DeleteHandle` by its key |
| `handleCreateChannel` of the GLOBAL channel, `SubscribeToChannel` | `Possess`, `SubscribeToChannel` |
| `tickConnections`, `removeChannelAfterOwnerRemoved` | `RemoveClosed` |
| `tickRecoverableSubscriptions` | `BeginRecoverable`, then `GiveUp`, `KeepWaiting` or `Restore` for the entries in any order (it ranges over a map), `EndTick` |
| time | `Advance` |

All connections are servers (`makeRecoverable` is for servers) that authenticate
successfully; `BeginClose` lets one Close run per connection. `Advance` waits until every
channel has ticked in the time unit, as the comment on `ChannelDataRecoveryTimeout` asks
("should not be smaller than the tick interval of any recoverable channel"), and until no goroutine is in the middle
of a handler: the code has no step in them that takes a second.

Properties:

- `TypeOK`.
- `EndAfterWaitIsAfterData`: when `RECOVERY_END` is sent because the wait since
  `startRecoveryTime` is over, no channel still keeps or has to keep something of the
  server. A handle whose start time was not yet set is kept apart (`early`). Excepted: the
  handle was taken over by a connection that closed in its turn, and its subscription is
  what the channel keeps, under the old handle (`HeirClosed`).
- `OnlyKnownLosses`: what is kept of a server is lost in four ways only - a connection that
  took over its id closes before the channel has given it back; the server had itself taken
  over an id; another connection with its PIT, which broke down or had taken over an id,
  closes; another server's handle timed out - and in no other interleaving. A handle is the
  new connection's `recoverHandle` until it closes, so that the third case needs no second
  breakdown.
- `LiveOwnerKept` (action property): giving an ownership back never displaces a live owner.
- `RecoveryEnds` (`OwnerBroadcasts.cfg`): a recovered live connection leaves the state in which messages for the
  owner are dropped. Excepted: the handle times out first (then the code never resets it),
  or another connection breaks with the same PIT and replaces the entry.

Two runs are expected to fail:

- `ConnectionRecoverySaved.cfg` / `SavedUntilRecoveredOrTimeout`: `channel.go` says the
  state is saved until the recovery or timeout; it is keyed by PIT, and a second
  connection with the PIT overwrites it.
- `ConnectionRecoveryTable.cfg` / `LiveConnectionsInTable`: `RecoverFromHandle` takes the
  previous id over "if the previous connection id is not used", but tests it by deleting
  its entry.

Bounds. `ConnectionRecovery.cfg`: three connections of one server, one channel; two of the
connections may close, so that there are a failure during a recovery, an old connection still
open when the new one comes, and a connection that takes over what another had taken over; a
timeout of two units, so that handles time out before, during and after a recovery. The two
that may close are symmetric: they have one PIT, and no constant, order or choice of the
module tells one from the other. The two failing runs also have three
connections of one PIT. Deadlock checking is off: after the last close and recovery nothing
is left to happen but time.

### OwnerBroadcasts

Channels with SendOwnerLostAndRecovered tell their subscribers what happens to their owner.
`OwnerBroadcasts` extends `ConnectionRecovery`: each of its steps is a step of that module
together with the broadcasts, or a goroutine that wakes up.

| code | model |
|---|---|
| `tickConnections`, with the broadcast of CHANNEL_OWNER_LOST | `RemoveAndBroadcast` |
| `tickRecoverableSubscriptions`, with the `go func()` at its end | `RestoreAndSleep`, `Sleepers` |
| that goroutine after its `time.Sleep` | `BroadcastRecovered`; a sleep is over when more than one time unit has gone by, so that it never ends too early in the model |

- `LossIsTakenBack` (liveness): subscribers that were told of a loss are told that it is
  over when the server has come back, and the channel then has a live owner, although the
  broadcast comes a second after the ownership was given back.

The configuration also checks `RecoveryEnds`, as its steps are those of
`ConnectionRecovery`.

Two things the model reaches and no property asks for, because the code does not provide
them. Nothing orders the broadcast after RECOVERY_END, as the comment at
connection_recovery.go:162 wants it: a goroutine that sleeps a second from the moment the
channel gave its data back, and a poll every second that waits for more than a second since
`startRecoveryTime`, may run in either order. And the broadcast is made for every
subscription that is restored (line 161 does not test `isOwner`), so that subscribers may
be told of the recovery of an owner that was never lost.

Bounds: a server's two connections, the first of which closes, and a server that may
possess and watch the channel meanwhile. No timeout: with one, every recovery would end by
it and `RecoveryEnds` would say nothing.

## 5. ChannelLifecycle

An instance is a Go `*Channel`; an id is looked up in `allChannels` whenever the code does
so. That is the point of the model: goroutines and messages hold instances, requests hold
ids, and an id may be given out again, or stored twice. Handlers are cut where the code
takes a lock or sends to a queue.

| code | model |
|---|---|
| `receiveMessage`: the lookup, then `PutMessage` | `Receive`, then `Put`, which waits for room and sends to a queue that may have been closed |
| `handleCreateChannel`, `CreateChannel`, `GetNextIdTyped` | `Possess` (GLOBAL), `CreateChannel`, `FindFull`, `SetFull`, `RefuseCreate` |
| creation of entity channels, also from the goroutine of a spatial channel | `TestEntity`, `StoreEntity` |
| `SubscribeToChannel` and the locks it takes | `SubTest`, `SubLock`, `Subscribe` |
| `handleSubToChannel`, `handleUnsubFromChannel`, `CheckACL` | `HandleSub`, `HandleUnsub`, `CheckACL` |
| `handleRemoveChannel`, `RemoveChannel` | `RemoveUnknown`, `HandleRemove`, `RemoveChannel`, `DeleteChannel` |
| `Tick`: `tickMessages` ends, `tickConnections` | `EndTick`, `TickConnections`, `DropSubscriber`, `OwnerLost`, `Broadcast`, `OwnerRemoved`, `Unlock` |
| `removeChannelAfterOwnerRemoved`, with `PutMessage` on GLOBAL | `OwnerRemoved` or `GiveUp`, then `TestGlobal`, then `AskForRemoval`, which waits for room, or panics when GLOBAL's queue has been closed meanwhile |
| `tickRecoverableSubscriptions` | `GiveUp`, `Wait` |
| the end of the goroutine | `Stop` |

The queue of a channel has room for two messages (1024 in the code). `subLock` is a Go
`RWMutex`: a reader waits behind a writer that waits. A panic ends the process and is kept
in `panicked`: `"send"` (a message sent to a closed queue, channel.go:300), `"close"` (a
queue closed by two goroutines), `"nil"` (a removal without a connection finds no channel
and logs through it, message.go:405).

Properties (`ChannelLifecycle.cfg`):

- `TypeOK`.
- `FullFlagIsTrue`: channels are refused as full only while no id is free. Excepted: a
  NORMAL channel removed by another goroutine than GLOBAL's, whose reset may come between
  the search and the setting of the flag; and GLOBAL itself removed, which sets the next id
  back to 0, from where the search does not try every id.
- `LiveChannelIsFound`: no goroutine ticks on for a channel that nobody can look up,
  unless two goroutines created or removed one entity id at the same time.
- `OneRemovalIsSafe`: the two panics of removal need a channel whose removal was asked for
  more than once (by a connection, also one whose request is just being handled, or twice in
  one tick), or an id with two instances.
- `LostOwnerRemovesChannel` (liveness): a channel of a type that is removed with its owner
  goes when its subscribed owner closes. An owner that closes before it is subscribed, or
  that unsubscribes first, leaves its channel behind for good: the property says
  "subscribed" for that reason. Nor does it go when GLOBAL is being removed, which takes no
  messages any more.
- `QueuesDrain` (liveness): accepted and waiting messages are handled. Excepted by name:
  `Deadlocked`, the two ways in which goroutines wait for each other for ever - Broadcast
  reads `subLock` again behind a waiting writer (channel.go:443 and 499), and a goroutine
  that holds the lock waits for room in GLOBAL's full queue while GLOBAL waits for the lock.
  That there is no third way is what the property shows.

Bounds: two NORMAL ids (`MaxId`; with one, `GetNextIdTyped` behaves differently at its
edge and the configuration excludes it), one spatial and one entity id, six instances
(numbered from 0), two servers and one that may recover, fifteen scenarios, each a set of requests
that may arrive in any order: ids that run out and come back, owners that leave around
their subscription, channels removed twice, the GLOBAL channel removed by a request in
another channel, an entity id used by two goroutines.

Not in the model: `handleRemoveChannel` walks `subscribedConnections` without `subLock`;
the full flag of spatial channels; `handleListChannel`; a GLOBAL channel with
RemoveChannelAfterOwnerRemoved (the settings have it false; set, channel.go:478 would
mark GLOBAL itself as removing and stop its goroutine).

## 6. Connection

| code | model |
|---|---|
| `AddConnection` on an accepted socket | `Accept` |
| the peer breaks off; the authentication timeout passes | `HangUp`, `Expire` |
| `receive`, `readPacket`, `readSize` | `Read` (any number of the bytes that have arrived), `ReadEnds`, `ReadPacket`; operators of `PacketFraming` |
| `receiveMessage` with the FSM | `ReceiveMessage` |
| `Send` | `CallsSend` (the test), `PutSend` (the send, which waits for room or panics) |
| `flush` | `Collect`, `Write`; operators of `SendQueue` |
| `Close` | `CallsClose` (the test), `StoreClosing`, `FinishClose` |
| GLOBAL's goroutine | `HandleMessage` |
| `handleAuth`, the provider's goroutine, `onAuthComplete`, `OnAuthenticated` | `DoAuth`, `Authenticate`, `OnAuthenticated`, `Reply` |
| the listener of Event_AuthComplete | `ReadCounter`, `WriteCounter` (the maps have no lock) |
| `checkUnauthConns` | `CheckUnauth`, `BanUnauth` (test and ban are two steps) |

`MessageStream` is the abstract specification: messages are accepted one by one, delivered
in their order, none twice, and left out only on a stream that has become lossy.
`Connection` implements it twice, with two refinement mappings:

- `SentIsStream`: accepted is what `Send` put in `sendQueue`, delivered what `flush` wrote.
  What makes it hard is the message kept for the next packet. A stream is lossy once its
  peer asked for compression, because a packet that grows too large when compressed is
  dropped whole.
- `ReceivedIsStream`: accepted is what the peer sent, delivered what `receiveMessage` got,
  however the bytes are cut. Bytes carry their position in the stream, so that a buffer
  moved by one byte too few is seen.

The other properties (`Connection.cfg`):

- `TypeOK`.
- `NothingBeforeAuthentication`: GLOBAL never gets another message than AUTH of a
  connection that was not authenticated, although filter and FSM are moved by two goroutines.
- `ClosedIsForgotten`: when nobody is inside `Close` any more, the connection is in no
  table, even when two goroutines closed it.
- `FailuresLeadToBan`: enough failures ban a token or an address, unless two goroutines
  counted at the same time (one failure is lost, or the runtime stops the program over a
  concurrent map write: `panicked = "map"`).
- `AcceptedIsWritten` (liveness): the queue runs empty. The message kept from the last
  packet is not covered: with an empty queue `flush` returns before it looks at it
  (connection.go:627), so it waits for the next message.
- `UnauthenticatedIsClosed` (liveness): nobody stays unauthenticated for ever.
- `PacketsAreHandled` (liveness): all that arrives is handled. Excepted: a malformed
  packet. The log says that the connection will be closed; `readPacket` returns no error
  (connection.go:519-526), the packet stays at the front of the buffer and nothing behind
  it is ever handled.

Behaviour that the run reaches and the properties allow for: AUTHENTICATED stored over
CLOSING by a late result; the address of a client banned although it has just been
authenticated; a send to a closed queue (`panicked = "send"`).

Bounds: two clients with one address, one of them on a WebSocket (whose `Read` truncates a
message that does not fit and which no address ban is tested for), and the owner of
the GLOBAL channel; a packet header of two bytes (five) and packets of at most seven, so
that a packet takes several reads and three messages do not fit in one; a send queue of two
(128); two failures to a ban; fourteen scenarios. They are single packets or two or three
on purpose: every interleaving of one hazard at a time, not the product of all.

## 7. SpatialGrid, EntityGroup and Handover

`SpatialGrid` has the functions of the controller that only read its configuration:
`GetChannelId`, `GetRegions`, `GetAdjacentChannels`, the channels and the border of a
server, the cells a query reaches. A position inside a cell matters for box and sphere
queries only. `QueryChannelIds` samples points, so a box may miss a cell that it enters by
less than half a grid; `MustReach` and `MayReach` bound what it returns. A box or a sphere
without an extent is refused, as is one whose centre is outside the world (`QueryFails`).

`EntityGroup` has the group instances that several entities share and the way AddToGroup
makes members point at them. It keeps three peculiarities of the code: a nil handover
group hands the entity over even if it is locked (entity.go:199-201), only the entity's own
lock group is looked at, and RemoveFromGroup leaves an entity with an empty group that
never hands over again.

`Handover` composes both with the spatial channels (one instance per creation), the entity
channels and the GLOBAL channel:

| code | model |
|---|---|
| `handleCreateSpatialChannel`, `CreateChannels`, subscription of the new owner and of the border | `HandleCreateSpatial`, `SubscribeCreated` |
| the controller's `Tick`: a lost server's index is free again | `ControllerTick` |
| entity channels created through GLOBAL or a spatial channel, with the access the creator asks for (`SubOptions`, READ by default) | `HandleCreateWorldEntity`, `HandleCreateEntity`, `NewEntity` |
| SPAWN with a location in the channel it names or without one: the data of the handling channel; with a location elsewhere: that channel's; outside the world: dropped | `HandleSpawn`, `Spawn` |
| entities destroyed | `HandleDestroy`, `HandleRemoveEntity` |
| `handleChannelDataUpdate` and the merge that finds a movement | `HandleUpdate`, `SetObjRef` |
| `Notify`, in the goroutine of the entity | `NotifyOwners`, `NotifyRemove`, `NotifyAdd`, `NotifySubscribe` per subscriber, `NotifyReturns` |
| the functions it gives to `Execute`, in the goroutines of the two spatial channels | `RemoveFromData`, `AddToData` |
| group messages | `HandleAddGroup`, `HandleRemoveGroup` |
| `handleUpdateSpatialInterest` and the subscription messages it sends | `HandleInterest`, `HandleSub`, `HandleUnsub` |
| `tickConnections` | `SpatialTick`, `EntityTick` |
| a message arrives, a connection closes | `Send`, `Close` |

Properties (`Handover.cfg`), each with the exceptions that the code reaches:

- `TypeOK`.
- `RegionsAgreeWithOwners`: what GetRegions tells a client is what CreateChannels did,
  also after servers were lost and their indexes given to others. Proved, see section 9.
- `ServersWatchTheirBorders`: when all servers are there each is subscribed to its own
  channels and to its border. Not for a border wider than a server's grids: the
  subscription fails, and the last server is then subscribed to nothing, not even its own.
- `EntityIsPlaced`: an entity is never lost from the data of all spatial channels, and one
  that never was in a group is in exactly its own, once nothing moves it. Not when an update
  moved it without a handover (`strayed`: out of the world, or into a channel that does not
  exist), or it was created or spawned through another channel than that of its
  location, as a SPAWN without location permits: it adds the entity to the data of whatever
  spatial channel handles it (message.go:86-95 of `pkg/unreal`). And it
  may be lost if it was listed in a group before it existed and was created while the
  group was being moved (`late`): the handover will remove it, but has read the data to add
  before.
- `OwnerFollowsChannel`, `OnlyOwnerWrites`: owner and write access after Notify. Both only for
  entities that never were in a group (`grouped`), as the Notify calls of members
  interleave, and only while no channel was created anew. Not for an entity that
  another server than the owner of its channel created there (`foreign`,
  message_spatial.go:216): a handover takes write access from the owner of the source channel
  only. That the owner itself may write is said of entities in `granted` only: its creator
  asked for write access (without SubOptions it gets READ, subscription.go:23; its updates
  are merged all the same as long as it is the owner, message.go:609), or a handover gave it to
  its owner, which subscribes it with write access whatever it had. `OnlyOwnerWrites` speaks
  of worlds whose channels are there from the beginning (`Ready`): the owner of a new channel owns it before it subscribes to it.
- `GroupMovesTogether`: members of a handover group end in the same channel's data,
  unless the group was torn (changed while a handover was under way, or by an
  entity that was elsewhere) or one of them is `late`.
- `InterestFollowsQuery`: a client is subscribed to what its latest query reaches among the
  channels that existed when it was handled, and to nothing else, when no messages of an
  earlier query were still waiting (message_spatial.go:88 and 95 compute the difference
  before they are handled). If all its queries were handled in one channel it gets what it
  asked for even then, but may keep too much.
- `LostOwnerRemovesEntity` (liveness): an entity whose owner closes goes, or is handed
  over. Not one that was handed over to a channel without a live owner (`orphaned`).

`HandoverResidual.cfg` is expected to fail: the comment at spatial.go:696 says that the
residual updates of the server that has handed an entity over are ignored;
`handleChannelDataUpdate` attributes such an update to the owner (message.go:612-614),
merges it, and the entity is handed back (`ResidualUpdateIgnored`).

Bounds: grids of at most four cells (4x1 of the shipped configuration, 2x2, one that does
not divide evenly, one with too wide a border), three servers, one client, two entities;
38 scenarios, each a sequence of messages per server and the connections that may close, in
any interleaving. Four cells in a row are the least with two channels that are neither
adjacent nor of one server; two entities are the least that can tear a group. Five scenarios
are about SPAWN without location or in another channel's name (of an entity that waits for
its object reference, is not there yet, is elsewhere, or has no location at all), three about owners
that asked for less than write access, before and after handovers. `MaxGen`
(instances per cell) is never reached.

## 8. Fairness

- `QueueSpec`: weak fairness of the channel's goroutine, whose `Tick` is a loop that blocks
  on `subLock` only, which the subscribers of the model do not hold across steps (a turn of
  `tickData` that leaves its element where it is counts as a step too); and of the end of `tickMessages`, which stops after the message during which the tick interval
  has elapsed (the interval of a channel type is positive unless configured otherwise), so
  that no amount of traffic keeps it from fanning out. Nothing is assumed of clients,
  servers and the clock.
- `ConnectionRecovery` (`Fairness`): weak fairness of the goroutines in the middle of `Close` and
  `RecoverFromHandle`, of every channel's tick and of the polling loop, and strong fairness of
  `Advance`: time goes by again and again between ticks, although a tick disables it while it runs.
  Nothing makes a server reconnect or close. `FairBroadcastSpec` adds that a goroutine whose
  sleep is over goes on.
- `ChannelLifecycle`: weak fairness of each channel's goroutine and of each connection's
  pending `Put`. A goroutine that waits for a lock or for room is not enabled, so a deadlock
  is not excused by fairness but shows.
- `Connection`: weak fairness of each connection's receiver, of its flusher, of each
  provider's goroutine, of GLOBAL's, of the poller, and of `Expire` (the timeout passes).
  Providers answer: the code has no timeout for them. `CheckUnauth` is fair for each client
  because the poller ranges over all of them. Peers are free to connect, hang up or not read.
- `Handover`: weak fairness of GLOBAL's goroutine and of each entity channel's. Nothing
  makes a server send or close.

Deadlock checking is off in these three: scenarios end, an idle tick is no step, and the
process may end by a panic.

## 9. Proofs

`FanOutProofs` proves, for all connections, servers, fields, options, buffer sizes and
bounds that satisfy `FanOutAssumption`:

- `TypeCorrect`: `Spec => []TypeOK`. One step per action; the lemmas `NewestInSet` (a set of
  updates has a last one, by well-foundedness of the naturals), `AfterOverflowShrinks`, `MergedType` and `ForgetType` give the types of the
  operators.
- `SubscriptionsHaveElements`: `Spec => []SubscriptionHasElement`, inductive together
  with the type invariant and what a tick still has to visit.
- `NoUpdateThrice`: `Spec => []ReceivedAtMostTwice`. The bound 2 is not inductive: nothing
  in it says why an update already sent twice is not sent again. `WindowInv` adds
  that an update that was sent was stamped no later than the last fan-out, and one sent twice
  strictly before it, or has been in a window of no length and is `repeated`; a window
  starts at the last fan-out and moves it by at least one, or has no length (lemmas
  `CountedInWindow`, `WindowStep`, from `SelectedInWindow`). No interval is excluded. It also
  says that a connection without subscription has received nothing, which a new
  subscription needs, and what a tick visits.
- `TickLeavesNobodyDue`: `Spec => []NobodyDueAfterTickData`. `VisitedNotDue`: inside
  `tickData`, whoever is no longer to be visited is not due; `subLock` keeps it so.
- `NoUpdateSkipped`: `Spec => []OnTimeUpdatesReceived`. `OwedInv` adds what the window
  that should contain an update relies on: what is owed to a connection is in the buffer or was
  dropped, is not its own, and nothing is owed before the first fan-out. The argument is in
  two lemmas: `OwedWindow` (what a window leaves behind is in it, or was overtaken) and
  `OwedUpdate` (a new update lies at or after the last fan-out, or is late).
- `DropsAreOverdue`: `Spec => DropOnlyWhenOverdue`, from `OwedInv` and `StampsInPast`: the
  update that overflows the buffer is older than `maxFanOutInterval` for the stamp of a
  message, which lies in the past, and not before the last fan-out of whoever is owed it.
- `CaughtUpHoldsData`: `Spec => []ViewIsChannelData`. `ViewInv` says of each field what a
  subscriber must hold (`MustHold`) and that it lies at or before its last fan-out. A window
  starts where the previous one ended, so that it may contain an update older than the one
  held; then the newer one is in it too (lemma `ViewWindow`), because updates leave the
  buffer in the order of their indexes (`BufferIsSuffix`) and both are stamped alike. With
  `MsgIsNewest` (a field holds its last update, or was masked) and `StampsInPast` (the whole data
  contains nothing stamped after the tick that sends it).

The strengthened invariants were model-checked on the instance of `FanOut.cfg` before they
were proved.

`FanOutQueueProofs` proves, under the same assumptions:

- `WalkCovers`: `QueueSpec => []WalkCoversQueue`. The lemmas `Removed`, `Moved` and `Pushed` say what
  is where in a list after each of its operations, `RemovedCovers` and `MovedCovers`
  that moving an element from the cursor to a place behind it (`PlaceIsBehind`) changes
  neither the elements nor those still to visit. A subscription that is removed has an
  element to remove, as tickConnections ends what tickData began (`SubscribersQueued`).
- `WalkIsFanOut`: `QueueSpec => Spec`, as each step of the list is a step of the set: all
  theorems about `FanOut` hold of the list.

`ConnectionRecoveryProofs` proves, for any connections, PITs, ids, channels and timeouts
that satisfy `RecoveryAssumption`:

- `RecoveryTypeCorrect`: `Spec => []TypeOK`. The types are not inductive alone: `GiveUp` and
  `Restore` use the saved subscription under a key, and the types allow `None` there. `WalkInv`
  adds what makes it a record: the keys a tick of a channel has still to look at have an
  entry, and outside the tick there are none. It holds because only the channel's own
  goroutine removes entries, and it adds entries (`RemoveClosed`) before the walk begins.
- `LiveOwnersKept`: `Spec => LiveOwnerKept`, from the same invariant and the lemma
  `OwnerStep`, which looks at the three actions that write `owner`.
- `EndComesAfterData`: `Spec => []EndAfterWaitIsAfterData`. The argument is about time.
  `Advance` waits for every channel to have ticked, so that a handle whose wait is over has
  seen a complete tick of each channel after its `newConn` was set, and that tick gave back
  whatever the channel kept of it. `AfterInv` says so for the unit of time in which the wait is not
  yet over, channel by channel and, inside a tick, entry by entry (`PassedIn`). It rests on
  `SubInv` (only an authenticated connection is subscribed) and on `Basics`: `RecoveryInv`
  of the types, `PhaseInv` (how far `Close` and the authentication of a connection are),
  `MadeInv` (a handle is made once, and only made handles are referred to), `TakeOverInv`
  (a connection linked to another's handle has its id) and `PollInv` (a handle is in the
  table under one PIT at most and leaves it when it has ended).
- `LossesAreKnown`: `Spec => []OnlyKnownLosses`, from `Basics`, the types of the history,
  `HeirInv` (who can be a handle's new connection) and `LostInv`, the property with the
  losses under way. Each of its excuses is shown to last (`ExcusedStays`).

The proofs corrected the properties: the exception `HeirClosed`, the third way of losing data
and the pair of connections with which the configuration reaches both were found by steps
that could not be proved.

`SpatialGridProofs` proves, for grids and divisions of any size (positive integers), facts
about the operators of `SpatialGrid`:

- `EveryChannelHasAServer`: the server that GetRegions names is one of the servers, also
  when the grid does not divide evenly.
- `RegionsAreChannels`: GetRegions divides coordinates, CreateChannels counts grids from
  the corner of a server; the channels made for a server are those whose regions name it.
- `AdjacencyIsMutual`: GetAdjacentChannels returns existing channels, and adjacency is
  symmetric.
- `QueryReaches`: `MustReach` and `MayReach` bound `QueryChannelIds` for every query that is
  not refused, whatever its place and extent. Samples are no further apart than a grid is
  wide, so that every strip of the grid contains one, if the interval enters it by more than
  the last step leaves out (`StripSampled`); and none lies outside the interval (`SampleInside`).

They rest on a handful of lemmas about integer division (`Division`, `Quotient`,
`Multiples`, `Strip`), which the SMT solver finds only when the products are named.

`HandoverProofs` proves, for any scenarios on such grids, any servers, clients and
entities:

- `RegionsAgree`: `Spec => []RegionsAgreeWithOwners`. The inductive invariant `GridInv`
  adds that the scenario does not change, that the server table and the generations are
  typed and that the table of spatial channels is well formed; the agreement itself
  then carries over because the only step that makes channels, `HandleCreateSpatial`,
  takes an index that no live server has and makes the channels of that index
  (`CreationAgrees`, from `RegionsAreChannels`), the step that frees an index does so
  after the loss of its server, and all others keep the owners (`KeptAgreement`). A
  closed connection stays closed, which is why a dead server's channels do not disturb it.

`WorldProofs` proves, for the same constants, the other invariants of `Handover` but one:

- `TypeCorrect`: `Spec => []TypeOK`. `TypeInv` also types what waits in the queues
  (`SpatialWork`, `GlobalWork`, `EntityWork`), says that a channel instance that was not yet
  made is empty, and that no channel outside the world is ever made (`NoneOutside`): this
  holds because `Init` and `CreateChannels` refuse servers whose grids are not in the world.
- `EntityPlaced`: `Spec => []EntityIsPlaced`. Where an entity *is* says nothing while
  callbacks wait. `WillHold` is what the data of a channel will be when everything in its
  queue was done: it holds the entity and no removal waits, or the last callback for it is an
  addition. Taking a callback does not change it, appending one decides it (`WorkTaken`,
  `WorkAppended`). `PlacedInv`: an entity that entered the world will be held by a channel or is
  in the hands of a Notify that will still add it. `AloneInv`: of an entity without a group, no
  channel will hold it but that of its location and the one its Notify has still to remove
  it from.
- `OwnersFollow`: `Spec => []OwnerFollowsChannel`. `OwnerInv`: the owner is that of the
  source before `NotifyOwners`, that of the location after it. A step that changes the owner of a
  channel makes it one that is not live.
- `OwnerWrites`: `Spec => []OnlyOwnerWrites`, for owners created with any access. `WriteInv`
  says which owners may write (`granted`) or will when Notify returns (`Written`), and who else may still write: a
  server with interest in the destination, or in the list of those that Notify has read and
  will subscribe with the access they are due. It needs `SubsInv`: a server is subscribed to the
  channels it is interested in, which is why `NotifyOwners` may leave it its access.
- `BordersAreWatched`: `Spec => []ServersWatchTheirBorders`. `WatchInv` is about the time
  before the last index is taken: a live server owns the channels of its index, and is subscribed
  to them unless its creation is under way. `NearIsWatched` is the geometry: the channels near
  a server's own columns or rows are those of `BorderOf`.
- `InterestFollows`: `Spec => []InterestFollowsQuery`. `WillWatch` is for subscription messages
  what `WillHold` is for callbacks: the last message for the client decides. `InterestInv`
  says of the latest query that what it answered is, or will be, subscribed to (`Answered`),
  that a client knows of its subscriptions, and that a message for it never waits in the one
  channel that handled all its queries. `OwnInterest` is the step that asks; `QueryReaches`
  does the geometry.

The invariants of the entities are inductive only together (`WorldInv`), because what a Notify
does depends on all of them. Steps that are not about an entity are `Steady`, those not about a client
`ClientsQuiet`: one lemma says what such a step keeps, and one per action that it is such a step.

The proofs corrected the model and the properties. Steps that could not be proved led to
scenarios that showed `late`, `foreign` and the exceptions that `grouped` and `Ready` stand
for (an entity that has left its group keeps what the group did to it; an owner owns before it
subscribes); to the restriction to the channels that existed when a query was handled; and to
queries without extent, which the code refuses and the model did not.

`ConnectionProofs` proves, for any connections, PITs, addresses, packet streams, queue and packet sizes and
limits that satisfy the assumptions of `Connection`, `SendQueue` and `PacketFraming`:

- `ClosedIsNowhere`: `Spec => []ClosedIsForgotten`. The invariant under all theorems of the
  module is `CoreInv`: the types (`TypeInv`), which labels each process may be at and which
  connection it then acts for (`LabelInv`), and that a receiver which handles a message has
  parsed its packet (`MessageInv`). `AcceptedInv` adds that nobody knows a connection that
  has not been accepted, so that `Accept` does not bring a closed one back, and `ClosedInv`
  that a closed one is in no table.
- `AuthenticationComesFirst`: `Spec => []NothingBeforeAuthentication`, if the first state of
  the clients' FSM lets nothing but AUTH through, as the shipped one does; the FSM of a client moves
  only when it has been authenticated (`FsmInv`).
- `FailuresAreBanned`: `Spec => []FailuresLeadToBan`. `CountInv`: of a key whose failures were
  never counted by two goroutines at once, one goroutine at most is counting, with the count it
  read, and the count is that of the attempts.
- `SendIsAStream`: `Spec => SentIsStream`, the refinement. `StreamOf` says that what is being
  written, then the message kept for the next packet, then the queue carry consecutive numbers
  that end with the one accepted last, and start after the one written last. `PutSend` maps to
  `Accept`, `Write` to `Deliver` or a stutter, `Collect` and all others to a stutter. How much
  `flush` takes into a packet is a matter of sums; the proof needs only that it is a prefix
  (`TakenType`, `TailOfPending`), and so no induction.

`ChannelLifecycleProofs` proves all four invariants of `ChannelLifecycle`, for any ids,
capacity, requests and settings that satisfy `LifecycleAssumption`:

- `TypesAreKept`: `Spec => []TypeOK`. The types are not inductive: nothing in them bounds
  `removing` or says that a goroutine works on an instance that exists. `CoreInv` adds `TableInv`
  (what is found under an id has that id, each type of channel has ids of its own),
  `TickAt` (how often a channel has been marked as removed, not counting `RemoveChannel`, at
  each place of its tick: not at all in the middle, once or twice at its end) and `JobAt`
  (what a goroutine works on at each place). `GoStep` and `OwnStep` are the frame of every step
  of one goroutine.
- `LiveChannelsAreFound`: `Spec => []LiveChannelIsFound`, inductive with `CoreInv`. A new
  instance gets an id that was free (`NextIdIsFree`), or that of an entity, found free or
  marked before; an entry is deleted for an instance marked for good.
- `FullMeansFull`: `Spec => []FullFlagIsTrue`. `SearchInv` extends the property to the
  window between the failed search and the setting of the flag, and says where the search
  starts; `SearchTriesAll` is the arithmetic of `GetNextIdTyped`, which wraps around once.
- `RemovalsAreSafe`: `Spec => []OneRemovalIsSafe`. `QueueInv` says which messages may be in
  which queue, and that only GLOBAL handles internal removals; `AskedOnce` follows the request for a removal as its
  place moves from the queue to the goroutine of GLOBAL to the closed channel (`Traces`): as
  long as no excuse holds, there is one trace at most, and none before the channel has
  asked. `InTable` says that the instance is still found until it is closed and deleted.
  The excuses of the property last (`ExcusesLast`), so that the invariant need only
  speak of states without one. Most steps are quiet (`Calm`): they leave the table alone and
  only take a message, or mark the channel.

The proofs corrected the model and two properties here too: the exception of `FullFlagIsTrue`
for GLOBAL and that of `OneRemovalIsSafe` for a request being handled were steps that
could not be proved, and the scenario added to show the first one also showed that the test and
the send of `PutMessage` had to be two steps in `removeChannelAfterOwnerRemoved`.

Model-checked only: the other properties. Liveness (`EveryTickEnds`, `DueAreServed`,
`RecoveryEnds`, `LossIsTakenBack`, `LostOwnerRemovesChannel`, `QueuesDrain`,
`AcceptedIsWritten`, `UnauthenticatedIsClosed`, `PacketsAreHandled`,
`LostOwnerRemovesEntity`) is out of the prover's reach. `ReceivedIsStream` and `TypeOK` of
`Connection` (the bounds of the read buffer) are about sums over the packets of a stream, folds over sequences, whose value for
every input needs induction over data, which the provers cannot do either. So is
`GroupMovesTogether` of `Handover`: it needs to know what `AddToGroup` and `RemoveFromGroup`
leave of every group, and they are folds over the lists of the messages. What is proved of the
other invariants treats groups as unknown: it holds whatever they contain.

## 10. Not modelled

- In the modelled parts: a channel whose data is nil until the first update; the list and
  map options of `ReflectMerge`; a sub-option request that leaves options out; several channels in one fan-out; unsubscribing, disconnecting and handing over during a
  recovery; authentication results that arrive after a close.
- Further limits of the newer modules: channels of connections in recovery (their handles
  are in `ConnectionRecovery` only); ServerBypassAuth and the built-in authentication
  providers; FSM transitions other than the one after authentication; a second server on
  the authentication path; recording a session in `Close`; cone queries, distances and the
  damping derived from them; the contents of handover messages; well-known entities; entity
  ids that are created again after a handover; updates of a
  spatial channel's own data (`SpatialChannelData.Merge`, which may add an entity that is not
  there or remove one with its channel; `EntityIsPlaced` speaks of creation, SPAWN, DESTROY and
  handover only); SPAWN and DESTROY handled by GLOBAL or SUBWORLD channels; two calls of
  `AddToGroup` or `RemoveFromGroup` inside each other (each is one step); the recipients of a
  spatial broadcast (only the set of adjacent channels); the creation of an entity without object reference from
  GLOBAL, which dereferences nil in `pkg/unreal`; queue capacity in `Connection` (GLOBAL's)
  and `Handover`, where `ChannelLifecycle` has it.
- `InitSpatialController` ignores the error of `LoadConfig`, and one shipped configuration
  (spatial_static_2x2.json, border 0) is one that LoadConfig rejects: start-up, not
  modelled; `MCHandover` uses that grid with a border of 1.
- Events (`event.go`): listeners are called where their events are broadcast. The slice of
  handlers, and the removal of one-time handlers while it is walked (event.go:93), are not
  modelled: the gateway itself registers no one-time handler, only tests and an example do.
- The client library: used by tests and simulated clients; planned last.
- Logging, metrics, profiling and debugging, settings and start-up: no state the program
  reads back, or constants. Generated protobuf code, examples, the replay tool: not the
  program's own logic. The WebSocket transport is an adapter, but for the truncation in
  its `Read`, which `Connection` has.

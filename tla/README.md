# Verification of the central event system

TLA+ models of the program in `src/` (hub, messenger, repeater; Go), the TLC
runs that check them on small instances and the theorems that TLAPS proves
about them for every instance. Definitions are named after the code they model;
`PROJECT.json` lists for each one the lines it stands for.

## The system

Events, tagged with a room, travel between *messengers* (programs in rooms),
*hubs* (routers) and *repeaters* (bridges to devices and other systems), over
websockets. The parts, their state, and how they meet:

| Part | Source | State | Operations | Hard because |
|---|---|---|---|---|
| Nexus, the hub's router | `hub/nexus/nexus.go` | registries of messengers (by room, with an index by messenger), hubs and repeaters; a round-robin cursor; two channels | `RegisterConnection`, `DeregisterConnection`, `SubmitRegistrationChange`, `Submit`, the routing loop | one goroutine serves everybody through bounded channels; checks and sends are apart; slices are edited while they are walked |
| Hub connection | `hub/hubconn/connection.go` | per connection: two pumps, a write channel, an exit signal, the socket | `CreateConnection`, `OpenConnectionWithRetry`, read pump, write pump | the two pumps end separately, each in several ways; reconnections reuse an ID |
| Hub server, topology | `hub/server.go`, `hub/hub.go` | none of its own | start-up, `POST /event`, who dials whom | HTTP clients inject events under an ID nobody registered |
| Messenger | `messenger/connection.go` | three channels, subscription list, two tokens, kill channel, socket | `Send`, `Receive`, `SubscribeToRooms`, `UnsubscribeFromRooms`, `Kill`, two pumps, `retryConnection` | tokens handed between three goroutines; reconnection races with calls |
| Repeater | `repeater/repeater.go`, `pumphouse.go` | table of pumping stations; per station four goroutines, six channels | `runRepeater`, `handleConnection`, pumper and pumps | look-up and use of a station are apart; several ways to wait in a circle |
| HTTP buffer, send list | `repeater/httpbuffer/http.go`, `sendlist.go` | a bounded queue; a map | serial sender; built once | slow receivers hold up the repeater |
| Wire format | `hub/base/common.go` | none | `ParseMessage`, `PrepareMessage`, `WrapEvent` | a message is parsed and printed at each hop |

A read pump of the hub calls `Submit` and `SubmitRegistrationChange` of the
nexus, which put into its two channels. The nexus puts events into the write
channels of connections, from which the write pumps take them. A messenger's
socket is the other end of a connection of the hub; a repeater uses a messenger
for its way to the hub.

What makes each part correct:

- *Nexus*: registry and index agree at every moment; a deregistration leaves
  nothing behind; an event goes where its source and room say, never back to
  where it came from and to one repeater at most; the router does not wait for
  a slow connection.
- *Hub connection*: a connected peer is registered, a gone one is not, nor does
  a gone one leave a pump running; one link for each dialled peer; events of a
  source keep their order.
- *Messenger*: a lost connection is made again; what the program has subscribed
  is subscribed at the hub, and nothing else; events keep their order; `Kill`
  ends it.
- *Repeater*: a station at work is in the table; a device is dialled once; a
  failed station comes apart; nobody waits in a circle.
- *Topology*: hubs that find each other get one link, whoever dials; an event
  reaches no hub twice and leaves the room once.
- *Wire format*: what is printed parses, into the same room and event.

## Modules

| Module | Content |
|---|---|
| `Slices` | finding in, and removing from, an unordered Go slice |
| `Nexus` | the router, in the most general environment: any connection calls any operation at any time |
| `EventRouting` | what a hub promises of an event, without saying how |
| `NexusRefinement` | `Nexus` implements `EventRouting` |
| `Hub` | extends `Nexus`: the same router among the pumps of its connections; each step of the environment is now a step of a pump |
| `Messenger` | the client side of one connection |
| `Repeater` | `runRepeater`, the table of stations, the goroutines of the stations, the HTTP buffer |
| `RepeaterFlow` | `Repeater` composed with its `Messenger` |
| `SendList` | where a repeater sends the events of a room |
| `Room` | the hubs of a room: who dials whom, and the way of an event among them |
| `WireFormat` | printing and parsing of messages as byte sequences, with theorems |
| `MCNexus`, `MCHub`, `MCMessenger`, `MCRepeater`, `MCRepeaterFlow`, `MCRoom` | bounds and history variables for TLC, and properties that need the history |
| `SliceTheorems`, `NexusProofs`, `RoutingProofs`, `HubProofs`, `MessengerProofs`, `RepeaterProofs`, `RoomProofs` | theorems and proofs |

Conventions. A goroutine moves in one step from one call that can block to the
next. A Go channel is a sequence; a send has the guard that there is room. Room
names and events are model values. Logging, status pages and timers are left
out: a timer that fires is a failure that may happen at any time. Definitions
marked `Mutant:` are deliberate bugs, each of which breaks one property;
nothing uses them unless it is put in the place of the definition after it.

### Nexus

`attempts` is what the routing loop still has to do for the event in hand: one
entry for each send, with the flag whether the code looks at the channel first
(`guarded`). `AdmitAttempt` is the test `cap > len`, `SendAttempt` the send, and
write pumps run in between. Lines 144-149 send to each hub twice, the first time
without the test; `Twice` has both. `jobs` is the loop over the rooms of a
messenger's change, one room at a step. A deregistration without rooms makes
`r.Rooms` the index slice itself, whose elements the body of the loop moves:
`shared` says so, and `Through` is what the loop then sees.

Write channels belong to connections; `IdOf` gives the ID they are registered
under, and `KindOf` the type, which the code appends to the ID. An entry with an
empty slice and no entry behave alike in all the code modelled, and are both
`<<>>`.

### Hub

A connection object is named by its write channel. `reader` and `writer` are the
control points of its pumps; `open` is that this side has not closed the socket.
`StopReading` is the deferred function of the read pump (deregister, signal,
close), `StopWriting` that of the write pump (close, and dial again on a
connection that retries). `dialing` counts the goroutines in
`OpenConnectionWithRetry` for each peer. Two connection objects with one ID are
a connection to a dialled peer and its successor. Outbound connections exist only
on hubs in rooms (`ROOM_SYSTEM`), hence the assumption on `RoomNexus`. The ID of
an inbound connection is the peer's address and port; `HubAssumption` gives each
its own, so a peer that comes again from the same port while the hub still
deregisters its last connection is left out.

`ClosedConnectionIsReaped` is stated for hubs in rooms: there every send of the
router looks at the channel first, so it always comes back for the
deregistration, also when read pumps wait in `Submit` with their events. On a
hub in no room line 145 of `nexus.go` sends without looking, and `hub_wedge`
shows such a hub violating it.

### Messenger

`readDone` and `writeDone` are the channels of one place that hold a pump's
token. `retry` is where `retryConnection` stands. After it has connected, its
last call, the resubscription, may still wait for room in `subscriptionChannel`
while the next connection is already lost, so `resubs` holds any number of such
calls (bounded by `MaxResubs`). `held` is what the hub has registered for the
current connection, with the effect `registerMessenger` and
`deregisterMessenger` have; a new connection starts with nothing, for it has a
new ID. `eventOut` and `changeOut` are what the write pump is writing: a write has
no deadline (nothing in `messenger/connection.go` sets one), so the pump may stay
in `WriteMessage` at lines 296 and 321 as long as the socket is open, and look at
no token and at no `killChan` meanwhile. One goroutine of the program calls
`SubscribeToRooms` and `UnsubscribeFromRooms` at a time (`appCall`). A change that
was written takes effect at once: the hub applies the
changes of a connection in their order, and the properties look at settled
states only.

### EventRouting

An event that is taken from the queue gets an audience, fixed at that moment;
everybody in it is served or, if their mailbox is full at their turn, left out,
in any order; meanwhile nothing is registered and no other event is taken.
`NexusRefinement` reads the slices of registrations as sets of channels
(`Subscribed`, `Peers`) and `attempts`, without those that the router will skip
because of their ID, as the pairs of `owed`. Full channels are thus the only way
for an event to miss somebody in the audience. One step of `Nexus`
that passes over an entry is a stutter. That a channel may get an event twice is
part of the specification: `Twice` and duplicate registrations do that.

### Repeater

A station is named by its place in `stations`, for two stations can have one
name; a name is an ID and the number of times `RegisterConnection` has changed
it, and `connections` is the table by name. A channel of events is the number it
holds, since no property tells the events apart. `distributor` is `runRepeater`:
it receives an event, then goes through the targets of its room and of `*`,
looking each up, sending to its station, or starting and then registering a new
one. Start and registration are apart: the station runs in between. The pumper
of a station has three waits besides its `select`: for room in `writeChannel`,
for room in `HubSendBuffer`, and in its deferred function for the confirmations
of the other goroutines. `signals` are what it has sent to them; a signal to a
goroutine that has ended stays in its channel unseen and is left out.

`RepeaterFlow` puts the repeater and its messenger together: the messenger's
`Receive` is the same step as `TakeEvent`, its `Send` the same as `SendToHub`.

`SendList` is `BuildSendList` on the devices of the database; `MCRepeater` takes
the send list of its repeater from it.

### Room

A hub routes an event in one step, to the audience `EventRouting` gives it. That
a neighbour gets one copy at most does not follow from `EventRouting`, whose
`Serve` may give a channel an event again; it is read from the code: a hub's
channel is registered once (`WellNamed`), and on a hub in a room each loop over
the hubs sends to it once. That one hub has not two links to another in the same
direction is built in as well: `up` is a set, and a hub dials where it has no
link and no other loop dialling. What lies between two routers (write channel, socket, read pump,
incoming channel) is the set `pending`: it keeps no order and may lose what it
holds, and an event in it outlives its link. Hubs crash and start again with
what they find in a database that may be replicated in part; links break and are
dialled again.

### WireFormat

A message is a sequence of bytes: the room, a newline, the event. `Hop` is what
happens on the way from one hub to the next. `ParseMessage` leaves the newline
in front of the event and `PrepareMessage` writes another, so an event arrives
with as many newlines in front as it has passed hops; JSON does not mind them.
No run uses this module: its theorems hold for all messages of any length.

## Runs

| Run | Question | Bounds |
|---|---|---|
| `nexus_registry` | do registry and index agree, does a deregistration clear everything? | 2 messengers, 2 rooms and `*`, 4 changes with lists up to 3 rooms, one with a room twice |
| `nexus_routing` | no waiting after a check, no way back, one repeater; does the router implement `EventRouting`? | 1 messenger, 1 hub, 2 repeaters, 3 changes, 2 events, channels of 1 and 2 |
| `hub_inbound` | do registrations follow connections; on a hub in a room, is a closed connection taken apart? | two out of a messenger, a hub and a repeater, all channels of 1, 3 events, 1 subscription, `RoomNexus` |
| `hub_outbound` | one link for each dialled peer; order of events; is the hub an instance of `Nexus`? | a messenger, HTTP clients, two connections to one peer; 2 frames, 1 subscription, registration channel of 1, others of 2 |
| `hub_redial` | violated: a live link is registered | two connections to one peer |
| `hub_wedge` | violated: a deregistration completes | a hub and a repeater, channels of 1, 2 events |
| `messenger_subscriptions` | are the program's rooms subscribed at the hub? | 2 rooms, 3 calls, 2 losses, channel of 2, connected or not at the start |
| `messenger_reconnect` | tokens, order, reconnection, `Kill` | 3 events out, 2 in, 3 losses, channels of 2 |
| `messenger_unsubscribe` | violated: no room stays subscribed | 1 room, 2 calls, 1 loss |
| `repeater_stations` | who is in the table; do failed stations end; what holds up the repeater? | a device that is dialled and dials, a web address; 3 stations, 3 events, 2 inputs, channels of 1 |
| `repeater_flow` | violated: the connection to the hub comes back | 1 device, no station fails; 4 events, 4 posts, 1 frame, 1 loss, channels of 1 |
| `room_mesh` | one link for each pair, no event twice; do hubs meet? | 3 hubs with their own numbers, 1 message, 1 crash, 1 loss of a link |

Why the bounds are enough. Channels of one or two places are full and empty
within a few steps, so every wait of the code occurs. Lists of three rooms are
the shortest in which the element moved by a removal is neither the removed one
nor next to it. Two repeaters are what round robin needs, two connections to one
peer what a reconnection needs. Three events, in the hands of the router, in
`incomingChannel` and in the hand of a read pump, are what it takes for a pump to
wait in `Submit` while a deregistration waits as well. Three stations are one at work, one that takes
its name and one that comes after both; two inputs are a device that dials and a
failure, and runs of the hub's events alone already fill channels of one place. Three hubs make
the smallest circle, and one of them can crash and start again while the other
two keep their link. Four changes are enough to register, register
again, deregister and see the rest. `MaxResubs` is one more than the number
of losses in the runs that subscribe, so it never holds `Connect` back;
in the runs with `Kill` there is no subscription and the calls end at once.
`nexus_routing` uses the symmetry of the two repeaters: what it checks are
invariants and steps that do not tell them apart. `CHECK_DEADLOCK` is off because each bounded instance ends: its inputs are
used up and, in `Hub` and `Repeater`, its connections too.

Histories: `MCNexus` remembers what each write pump took, `MCMessenger` what the
hub got and what the program asked for last (`wanted`), `MCRepeater` which
stations have shared their name with another at one time (`rivals`).

### What the violations show

- `hub_redial`: the write pump of an outbound connection fails, the new
  connection registers under the same ID and is ignored as a duplicate, then the
  old read pump deregisters that ID. The new link stays unregistered.
- `hub_wedge`: the unguarded send of line 145 to a hub whose write pump has
  ended and whose channel is full. The router waits for ever, and every
  connection with it.
- `messenger_unsubscribe`: the rooms of a call that still waits in
  `subscriptionChannel` are sent again by the resubscription. The hub registers
  them twice, for the `continue` of line 221 of `nexus.go` belongs to the inner
  loop, and one unsubscription removes one registration. (A deregistration copes
  with that: `DeregistrationClears` is proved without assuming uniqueness.)
- `repeater_flow`: the read pump of the messenger waits for `runRepeater`,
  `runRepeater` for a station, the station's pumper for room in `HubSendBuffer`,
  the translator for room in the messenger's write channel. With the connection
  lost, the write pump waits for the read pump and does not make room.

Limits that no comment denies, and that properties state as exceptions:

- `runRepeater` stops at a station that has ended, or whose write pump has,
  once its channel is full (`repeater.go` line 128, `pumphouse.go` lines 361 and 394). `HeldUp` and
  `Stuck` in `OnlyTheDeadHoldUp` and `FailedStationEnds` say that nothing else
  stops it. Such stations occur: one that fails before it is registered stays
  in the table, and a device that dials in can take the place of another.
- A messenger that is killed while its hub is out of reach dials on: the retry
  loop does not look at `killChan` (`messenger/connection.go` line 181).
  `KillTakesEffect` assumes `HubReturns`.
- A messenger that is killed while its write pump is in `WriteMessage` (lines 296
  and 321) goes on as long as the hub stays connected and neither reads nor sends
  anything but pings, for instance because the read pump of the hub waits in
  `Submit`. A ping renews the deadline of the messenger's `ReadMessage`, no write
  has one, and so neither pump looks at `killChan`, although the comment of line
  360 says "Kill kills a messenger". `Hung` in `KillTakesEffect` is this state and
  the only exception; without it the run finds the property violated.
- Hubs that a partly replicated database hides from each other stay unlinked
  (`Acquainted` in `HubsMeet`); hubs of equal numbers dial each other and get
  events twice (`Production` in `OneLinkPerPair` and `OncePerHub`).

The code's comments say "we ALWAYS send to messengers", and `readme.md` that the
hub "will ensure that events are sent to at least one repeater"; a guarded send
to a full channel drops the event instead. `AtMostOneRepeater` states the other
half, also in `readme.md`: "at most one repeater".

## Fairness

`Hub`: Go runs every goroutine that can run (weak fairness of a pump's or the
router's own steps). Goroutines that wait for one channel are served first come
first served, and a `select` with several ready cases picks at random: strong
fairness for the calls that compete for the router's channels and for the two
cases of the router's `select`. Reads and writes of a socket that this side has
closed fail, and a write ends within `WriteWait`, for the hub sets a deadline
before each one (`hubconn/connection.go` lines 228 and 246). Nothing is assumed
about peers: they may be silent for ever.

`Messenger`: weak fairness of the steps the pumps and `retryConnection` take by
themselves. The messenger sets no deadline for a write, so a write to an open
socket is not assumed to end, and the write pump not to come back to its
`select`; if it does come back for ever, strong fairness makes it take the ways
out of the `select`. A write to a socket this side has closed fails, and so does
a read (strong fairness: the finitely many frames already received can still be
read first). `AppReceives` is an assumption on the program: a
read pump that waits for room in `readChannel` cannot end. `HubReturns` is an
assumption on the hub and used only where named: without it nothing can be said
of reconnection.

`Repeater`: weak fairness of `runRepeater`, the translator, the HTTP sender and
the stations' own goroutines (`WorkFairness`): one condition for all
stations is enough, since the finitely many inputs leave finitely many steps. It
includes that a read fails once the socket is closed. `MessengerSends` is an
assumption on the messenger. Peers are not assumed to send or to fail, and the
timer not to fire. `RepeaterFlow` needs neither `MessengerSends` nor
`AppReceives`: each is what the other module does; `HubReturns` stays.

`Room`: weak fairness of the retry loops of each hub, which dial for ever and
get through at some time to a hub that runs and goes on running.

## Proofs

Every invariant and every action property that the passing runs check is also
proved, and so are the two refinements (`HubSpec => Spec`, and
`ImplementsRouting`). The theorems hold for any sets of rooms, connections and
events and any capacities; the assumptions are `NexusAssumption`, `HubAssumption`,
`MessengerAssumption`, `RepeaterAssumption` and `RoomAssumption`, which TLC
evaluates in each run. `WireFormat` assumes in its theorems that the newline is
a byte.

Properties that need a history are stated of the bounded instances (`MCSpec`),
and hold for every bound: `MCNexusAssumption`, `MCMessengerAssumption` and
`MCHubAssumption` say no more than that the bounds are numbers, that the numbered
events are among the events, and (`MCHub`) that the tags of sources differ. A
bounded instance takes only steps of the specification it bounds
(`MCImpliesSpec`, `MCImpliesHub`, `MCStepIsStep`), so the theorems about that one
can be used; the histories restrict no step.

- `SliceTheorems`: `CopiesAppend` and `CopiesSwapRemove` say how appending and
  swap-removal change the number of copies of an element, `FirstHitFinds` that a
  scan finds one, `RangeAppend`, `RangeTail` and `RangeSwapRemove` what they do
  to the set of elements. `LeastPosition` gets its minimum from the well-foundedness of
  proper inclusion of finite sets.
- `NexusProofs`, `TypeCorrect`: one lemma for each group of actions. The cursor
  is in range because it is taken modulo the length at the moment of use.
- `IndexCorrect`: `IndexMatchesRegistry` is inductive given types. Registration adds one copy on both sides; in deregistration the match
  itself says that the scan of the index finds the room exactly when the scan of
  the registry found the messenger, so both lose one copy or none.
- `WalkCorrect`: `WalkMatchesIndex` is the invariant behind the edited slice. The
  room at the walk's position is in the index; the removal puts the index's last
  element in the place of its first copy and shortens it by one, and `Through`
  shows the walk that change. What is still before the walk keeps the same
  number of copies of each room as the index. When the walk ends, the index is
  empty, so by `IndexCorrect` the registry is too: `DeregistrationClears`.
- `AdmittedNeverBlocks`: only `SendAttempt` adds to a write channel, and it
  cannot happen between the check and its own send.
- `WellNamed`, an invariant used by the next two modules: each registry holds
  only its own kind, under the ID of the channel, and a hub or a repeater once.
- `RoutingProofs`, `RoutingImplemented`: the router at its select is `EventRouting`
  between two events. `RouteIs` and `OutwardIs` say that the sends `Route` makes go
  to exactly the audience of the event; `OwedOf` reads sends as pairs of `owed`.
  One lemma for each kind of step gives the abstract one: `SubmitIsAccept`,
  `RouteIsBegin`, `SendIsServe`, `SkipIsDrop`, `PeerIsChange`, `IterationIsChange`.
  They need `InHand`: no change is applied while sends are owed, what is
  admitted is no echo, the sends owed are to whom the event may go, and one to a
  repeater is the last. Without the last part, `Serve` could leave a repeater
  the abstract audience does not have.
- `SplitHorizonCorrect` and `OneRepeaterCorrect`: `History` follows a numbered
  event. Events wait in the order of their numbers (`QueueInOrder`), so the event
  being sent (`SendsEarlier`) and those delivered (`DeliveredEarlier`) are older
  than all that wait and are never routed again. What was delivered went only where it
  may; while a send to a repeater is owed, its event has left to none, and no
  event has left twice (`LeftOnce`).
- `HubProofs`, `HubImplementsNexus`: with the identity as mapping, every step of
  the hub is a step of `Nexus` or leaves its variables alone; it needs that a
  pump which submits holds an event. `HubSafety` carries the results over.
- `OneLinkCorrect`: `LinksInv` replaces the sum by its two cases, one loop and no
  link or no loop and one link. It needs that a write pump is off until its
  read pump starts; a connection that has neither started nor ended is a link all
  the same, so nobody dials in between.
- `InboundCorrect` (`PeerRegistered`): the ID of an inbound connection is its own,
  so from its registration until its read pump has stopped no
  deregistration of that ID waits; the registration does, or it was applied and the
  registry has an entry of that ID, which by `WellNamed` is the only one and
  under its channel.
- `NoDeadRegistrationCorrect` (`StoppedLeaves`): a deregistration without rooms of
  a stopped connection's ID waits behind every registration of its channel
  (`LeavesAt`), or it is being applied (`Leaving`), or the channel is registered nowhere
  and nothing is on its way to change that (`Gone`). IDs of dialled peers are
  shared by successive connections, so what matters is which channel an entry
  has, and not its ID alone. When the walk ends the channel is gone by the
  argument of `DeregistrationClears`.
- `PerSourceOrderCorrect` (`OrderInv`): what lies on the way of an event (hand of a
  read pump, `incomingChannel`, the sends of the router, a write channel) is
  ordered inside each place and between any two (`Ranked`), source by source. A
  step moves one event to the end of the next place. The router's place holds
  one event only; with two goroutines routing, `Precede(R, R)` is lost.
- `MessengerProofs`: `TokensMatchPumps` is inductive together with the types; the
  types need it, because a read pump that were started while the old one still
  ran would lose the event in hand.
- `EventsInOrderCorrect` (`SendsInOrder`): what the hub got and what has not been
  written are ascending, the first below the second, and no number is above that
  of the last event sent; the write channel outlives the connection, and a lost
  connection only takes from between the two. What has not been written, the
  message in the pump's hand and those in the channel, is one sequence
  (`Unsent`, and `Changes` for subscriptions): taking a message leaves it as it is
  (`HandTakes`), a write or its failure removes the head (`HandGives`).
- `SubscriptionsCorrect` (`WantedStays`): a room that the program wants is in
  `subscriptionList`; a removal of it that waits has an addition behind it
  (`WantedAgain`); and while the write pump runs it is held by the hub or on its
  way there, in the program's call, in `Changes` or in a resubscription
  (`OnItsWay`). After a loss the list alone carries it to the next connection.
- `RepeaterProofs`: `StationsOK` has the types of a station and the bound on its
  errors (`ErrorsCorrect`): each goroutine that may still report one has a place
  kept for it. That needs that pumps and pings run only in a station that has been
  opened. `OneStationCorrect` needs two more facts, inductive together. A
  dialled station at work is in the table under its name or is the one that
  `runRepeater` is about to register, unless a device has dialled in under that
  name (`RunningListed`); and while one is to be registered no other of that name
  is at work (`NewIsAlone`). `runRepeater` dials a device that is not in the table, so by the
  first none of its stations works then; a station that leaves by name takes
  only its own entry.
- `ListedCorrect` (`ListedInv`): a station that has started and is no rival is in the
  table or about to be; it starts from `Rivals \subseteq rivals`, so a station that
  enters, leaves or is registered under its name is a rival of it, and both are
  excluded from then on. It uses that what is to be registered has the target's
  name (`NewIsAlone`).
- `LeavingCorrect`: `LeavingIsHeard` is inductive given types. Only `Leave` puts out
  signals, to all who listen when the pumper leaves; whoever takes one ends, and a
  pump that has failed needs none. It is the safety part of `FailedStationEnds`:
  what the pumper still waits for has been told, so fairness ends it.
- `RoomProofs`: `OneWayOutCorrect` from `FirstHubFirst`: while an event waits at
  the hub it was sent to, it is nowhere else and has not gone outside; all later
  arrivals have a hub as their source and do not go there (`SentOnly` says that
  an event not yet sent has left no trace). `OncePerHubCorrect` from `OnceOnItsWay`: an event goes
  from its first hub to each other over one link, whose copy
  is pending or has been routed, never both, and copies are not forwarded. It needs
  `OneLinkCorrect`, which in turn needs that links go from a lower number to a
  higher one (`LinksRise`).
- `WireFormat`: `HopKeepsRoomAndEvent` and `HopsAddNewLines`: a prepared message
  parses, since its room has no newline and the first newline is the one that
  `PrepareMessage` wrote (`FirstNewLine`). The second is the step
  of an induction over hops.

Only model-checked: the liveness properties (`ClosedConnectionIsReaped`,
`ConnectionComesBack`, `KillTakesEffect`, `FailedStationEnds`,
`OnlyTheDeadHoldUp`, `HubsMeet`), for fairness and `ENABLED` are beyond the proof
system; and what the four violated properties show, which are counterexamples.
Proved only for one step: that the newlines in front of an event grow with each
hop (`HopsAddNewLines`); the induction over hops is beyond the provers.

## Not modelled

- Status pages, `GetStatus` and `GetState`: read-only. Their unlocked reads of maps that
  other goroutines write are data races; so are the messenger's uses of
  `subscriptionList`. A model that takes each use as one step says nothing about
  what Go does with a race.
- `CreateInterconnection`, which dials an address without a protocol and so
  never succeeds; its comment says "this will NOT work".
- `SetReceiveChannel`, which nothing calls, and the second `Kill`, which panics.
- Closing of write channels: `RegistrationChange`'s comment says "the axle will
  close the channel", but no code does, and the branches for a closed channel
  are dead.
- `WrapEvent`, which prints an event with a library, and the content of events:
  also the empty event that a station forwards after a message that does not
  parse.
- In `Repeater`: which events are lost with a station that times out (they are
  counted only), and visitors whose ID looks like an ID that was changed. In
  `Room`: the order of events over a link that is made again.
- Deployment scripts and infrastructure descriptions.

## Plan

Done: router, hub, messenger, repeater, their composition, topology, wire
format, and the abstract specification of routing. What is left:

1. Theorems about `EventRouting` itself, carried to the router by
   `RoutingImplemented` (a served connection was in the audience; a repeater's
   event is owed to no repeater), and more of what the liveness arguments rest
   on: who can wait for whom in a connection of the hub, as an invariant.
2. `Subscription`: `Messenger` composed with `Hub`, `held` replaced by the
   registry of the nexus, to check what `Messenger` assumes of the hub.

# Baltic Shoreline Monitor: verification project

TLA+ models of the code in this repository, checked with TLC, and theorems about
them, checked with the TLA+ proof system.

- [The system](#the-system): its parts, their state and operations, what is hard
- [The modules](#the-modules): what each models and how it corresponds to the code
- [The runs](#the-runs): what is checked, in which bounds, under which fairness
- [What disagrees with the code's own words](#what-disagrees-with-the-codes-own-words)
- [What is proved](#what-is-proved)
- [Not modelled, and the plan](#not-modelled-and-the-plan)

`PROJECT.json` lists components, runs, mutants, hazards and theorems, and maps every
definition to the lines it models.

## The system

The repository holds two programs that share a LoRa board.

**The Baltic node** (`src/meshtastic_baltic.cpp`, one file) is an Arduino sketch: one
thread, `setup()` and `loop()`, a polled radio, a polled button, five screens.

**The Meshtastic firmware** (`meshtastic-firmware/src`) is the mesh stack the board
normally runs: cooperative threads on one stack, real interrupts from the radio chip,
and on ESP32 a second task for Bluetooth.

`lib/BalticShorelineMonitor` is a third, unused piece: a sensor library that no program
calls. The classes the top-level README describes (SystemController, AudioFrontend,
VisionModule, MeshLink, ...) do not exist in the tree.

| Component | State | Operations | What makes it hard | What makes it correct |
|---|---|---|---|---|
| Node: loop and display (`meshtastic_baltic.cpp`) | six `millis()` timers, last button level, LED, screen | the sections of `loop()`, `handleButtonPress` | blocking sections delay each other; `millis()` wraps; the button is sampled | telemetry fresh, spaced and on time; panel current; one mode change per press |
| Node: mesh (`meshtastic_baltic.cpp`) | `nodeDatabase`, the radio's one packet buffer | boot, node info, telemetry, `receiveMeshPacket`, `addOrUpdateNode` | collisions, restarts, repeated and lost packets, a full list | no duplicate, bounded, stable list; what is heard is listed |
| Transmit queue (`mesh/MeshPacketQueue.cpp`) | a sorted vector of packets | `enqueue`, `dequeue`, `remove`, `replaceLowerPriorityPacket` | the limit, the late window, ownership of packets | sorted, stable, just evictions, no leak |
| Radio thread (`mesh/RadioLibInterface.cpp`, `SX126xInterface.cpp`, `concurrency/NotifiedWorkerThread.cpp`) | transmit queue, packet being sent, one-slot notification, chip and interrupt mode | `onNotify`, `setStandby`, `startReceive`, `startSend`, `send`, `cancelSending`, `reconfigure` | interrupts between any two lines, handlers nested in `setStandby`, failing SPI, a watchdog | packets owned once, never deaf, no lost wakeup, every packet leaves |
| Packet history (`mesh/PacketHistory.cpp`) | table of seen packets, three relayers each | `wasSeenRecently`, `wasRelayer`, `removeRelayer`, purge | expiry over a wrap, uninitialized slots, relays that are cancelled | a duplicate exactly within the expiry time; relayers found, nobody else |
| Routers (`FloodingRouter`, `NextHopRouter`, `ReliableRouter`, `Router`, `modules/RoutingModule.cpp`) | pending retransmissions, `fromRadioQueue`, learned next hops | `send`, `shouldFilterReceived`, `sniffReceived`, `doRetransmissions`, `perhapsHandleReceived` | lost and overheard acknowledgements, retries, cancelled relays, routes in a circle, a full queue | a reliable packet is accounted for until its phone is answered; arrives once; a confirmation is true; no packet goes round for ever |
| Phone path (`PhoneAPI`, `MeshService`, `Observer.h`) | handshake state and indices of each phone, `toPhoneQueue`, the list of observers | `handleStartConfig`, `getFromRadio`, `close`, `sendToPhone`, `loop` | a phone that comes back or asks again, a node list that moves while it is read, a phone found gone in the middle of a round | the configuration whole and in order, every node once, no packet waits for ever |
| Preference files (`SafeFile.cpp`, `FSCommon.cpp`, `NodeDB.cpp`, `AdminModule.cpp`) | segments in RAM, a file and its `.tmp` for each, edit transaction | `saveToDisk`, `loadFromDisk`, setters, commit, backup, restore, factory reset | power loss between any two steps, failing flash, results that are dropped, saves put off | a boot finds what RAM held; nothing torn under its own name; only the file in hand is at risk |
| Others | listed in `PROJECT.json` | | | |

How they interact: the phone path and the mesh modules call the router; the router
records the packet in its history and gives it to the radio interface, which queues it
and owns it from then on. The interrupt of the chip notifies the radio thread; a received
packet goes to the router's queue and from there through the duplicate test to the
modules, the phone and, if it is to be relayed, back to the transmit queue. A copy heard
from another relayer cancels our own relay in the transmit queue and with it our mark in
the history. The Baltic node has none of this: it talks to the radio library directly.

The hazards these interactions expose, each at its line and with the properties that
would catch it, are in `PROJECT.json`.

## The modules

    BalticLoop <-- MCBalticLoop                BalticMesh <-- MCBalticMesh
        ^                                          ^
        +-------------- BalticProofs --------------+

    MeshPacketQueue <----------------- TxQueue <-- MCTxQueue
        ^        ^                         ^
        |    MeshPacketQueueProofs <-- TxQueueProofs
        |                        ^
    RadioLibInterface <-- RadioLibInterfaceProofs
        ^
    MCRadioLibInterface

    PacketHistory <-- MCPacketHistory          PhoneAPI <-- MCPhoneAPI
        ^                                          ^
    PacketHistoryProofs                        PhoneAPIProofs

    MeshDelivery  (abstract)                   PreferenceStore  (abstract)
         ^  implemented by                          ^  implemented by
    MeshRouter <-- MCMeshRouter                Preferences <-- MCPreferences
         ^                                          ^
    MeshRouterProofs                           PreferencesProofs

Operators whose name begins with `Mutant` stand before the definition they replace: each
is the same definition with a plausible slip, and some run must fail when it is put in.

**BalticLoop**: one pass through `loop()` is six actions in the code's order, each taking
the time its blocking calls may take; `now` is `millis()` modulo `Wrap`. The history
variable `age` holds the true elapsed times, so a property can compare them with what the
wrapped subtraction says. What the sections compute (sensor values, packet text, pixels)
is left out.

**BalticMesh**: devices on one channel. Its specification is `MeshSpec`, so that one module
can hold the proofs about both views of the node. `Boot`, `BroadcastNodeInfo`,
`BroadcastTelemetry`, `TransmitDone` and `ReceiveMeshPacket` are the node's handlers;
`PowerLoss` takes the node's memory away at any moment. The radio is external: a receiver
locks on one transmission and keeps one packet. With `Lossy` packets are lost, cut off
by `startReceive()` (the loop calls it on every pass, line 323) or read twice, and a radio
may fail to start, which halts the node for ever.

**MeshPacketQueue** is the queue as operators on sequences; **TxQueue** drives it with
the calls its owner makes. `tx_after` is abstracted to a flag, "in the late window"; that
is all the comparison looks at.

**RadioLibInterface**: the cooperative threads share one stack, so the model keeps the
code that is still to run as a sequence of steps, `todo`. `setStandby()` starts with
`checkNotification()`, which may run a whole other handler: its steps are put in front of
the caller's. The interrupt (`TransmitEnds`, `PacketEnds`) may fall between any two steps;
with `IsrInWindows` also between the two lines of `checkNotification()` and between the
test and the store of `notifyCommon()`. Timers are abstracted: a delay that is set may
fire any time later. `send()`, `cancelSending()`, `clampToLateRebroadcastWindow()` and
`reconfigure()` are called by other threads between two runs. A region is set and the
transmitter is enabled.

**PacketHistory**: `WasSeenRecently` is one call with all it does to the table, including
the slots it leaves unwritten (`StackBytes`) and the purge; what it answers is `Seen` and
`WasFallback`. `Received` and `Sent` are its callers, `RemoveRelayer` is the cancellation of
a relay. `age` and `last` are history.

**MeshRouter** is the mesh: each node's routers, history and queues are one record, a handler
is an operator from that record to the next one, named after the function it models and
built from the calls that makes, and the channel between the nodes is external.
`Transmit` takes a packet out of a transmit queue, in any order, and lets any part of those in
range hear it, so packets are lost, reordered and overheard; copies come from relays and
retries. `Receive` is `perhapsHandleReceived()` with the filter for known packets and
everything behind it; `Retransmit` is `doRetransmissions()` for one packet, at any time;
`PhoneSends` is a packet from a phone; `DutyCycle` and `Reboot` are what it says. What it
assumes: the last bytes of the node numbers differ and the node database is never full (a
next hop can always be stored); a module of the destination replies to every
`want_response`; a node without the key cannot read `request_id`; a node that has reached
its duty cycle stays silent. The history's expiry and the order of the transmit queue are
left to PacketHistory and TxQueue.

**MeshDelivery** is what the routers promise two phones: a direct message arrives at most
once, and it is only confirmed in the name of the destination when it has arrived. A
refusal promises nothing: an acknowledgement and a refusal may both come, in either order.

**Preferences**: a save is a list of files, and each file goes through SafeFile one call of
the file system at a time (`OpenFile` ... `RemoveTmp`), on each of the four platforms. Any
call may fail, the power may go at any step, and `Boot` loads what is there; the first node
database is saved by the constructor, the rest at its end (`BootSave`). Setters, edit
transactions, `updateUser()` with its deferred save, removed and reset nodes, backup, restore
and factory reset are actions. A segment's value is a number. The file system is external: a
file that is open when the power goes holds anything, including nothing, one that was
closed is whole; the hash SafeFile reads back is assumed to notice every difference, and an empty file
counts as an absent one. The backup is followed through the owner, a part of the device state.

**PreferenceStore** is the promise: of every segment but the one whose file is in hand, a
boot finds what it held; a file is let go only when it holds what is in RAM, unless the
flash failed. A factory reset's erasing and the formatting of a flash are steps of their own.

**PhoneAPI**: phones on links served by the main thread (serial, network). A step is one
message to or from a phone, or one call of another thread: `WantConfig`, `Handshake` (the
next item, in the order of `getFromRadio()`), `ReadPacket`, `SendToPhone`, `Loop` (one round
of notifications, which the first phone found gone ends), `AddNode`, `RemoveNode`,
`ResetNodes`. `MyInfo` is the first item of the handshake, apart because it asserts that our
own entry is there; `RemoveNode` takes out any entry, our own too, as `removeNodeByNum()`
does. `AddNode` evicts any entry but the first when the list is full or the heap is low; when
every other node is favourite, ignored or verified it evicts none, and `at()` throws behind a
full list. A failed assertion, that exception and a loss of power are `Reboot`: the phones are
gone and the list is any the constructor may find and mend (`BootLists`). `Leave` and `Return`
are the phone's. The queue is a count, since what a
packet says decides nothing but which packet a full queue gives up. History are `got`, what
each phone was sent (items of the configuration and nodes, apart), `fresh`, whether it asked
when no hand-over was under way, and `stay`, the nodes it is promised. Not modelled are the calls of the BLE task.

## The runs

| Run | Shows | Bounds and why they are enough |
|---|---|---|
| `loop` | `TelemetryFresh`, `TelemetrySpacing`, `TelemetryOnTime`, `DisplayFresh`, `Debounced`, `HeldButtonIsSeen` | periods 2 to 4, a wrap at 14: all orders of timers, every section shortest and longest, several wraps |
| `mesh` | `DatabaseSane`, `DatabaseStable` | 3 nodes of which two share an id, 4 boots, room for 2: restarts, repeats, collisions of two packets at a third node |
| `tx_queue` | `QueueOrdered`, `StableOrder`, `OwnedOnce`, `EvictionJust` | room for 2, 4 packets, 2 keys, 3 priorities: evictions and refusals with late and normal packets |
| `radio` | `OwnedOnce`, `NeverDeaf`, `AssertionsHold`, `WakeupPending` | 3 packets, two of them copies, room for 2; all interrupts, SPI faults, reconfiguration, reboot |
| `radio_liveness` | `SentIsFreed` | 2 packets, no SPI faults, interrupts outside the two windows of the notification code (inside them the watchdog's reboot is the recovery) |
| `history` | `SeenIffRecent`, `RelayersKept`, `RelayersTrue`, `FallbackJust` | 2 packets, one of them our own, 3 bytes, 2 slots, purge above 1 record, wrap at 3, expiry 2, an unwritten slot that holds the byte of a node |
| `router` | `Accounted`, `OwnSendsBounded`, `RelaysBounded`, refinement `DeliveryKept` | a line of 3 nodes whose ends only reach each other through the middle; one message of a phone, direct or broadcast, with 3 hops and 3 tries; the sender may reach its duty cycle; `fromRadioQueue` holds 3, so it overflows; no next hop is known before the message |
| `router_quiet` | `BecomesQuiet` | the same line with routes learned that lead in a circle, a message without acknowledgement, the middle node may restart once |
| `prefs` | `NeverTorn`, `RebootSafe`, refinement `StoreKept` | ESP32, NRF52 and RP2040; the two segments with a special path (the device state is saved fully atomically, the node database by the constructor and deferred) and the backup, 2 values, 2 power losses (one may hit the repair of the other), 1 flash fault (which also makes the second try) |
| `prefs_reported` | violates `SaveReported` | STM32, no faults |
| `phone` | `ConfigWhole`, `NodesWhole`, `Drains` | 2 phones of which one goes out of reach and asks for a part only, 2 requests, a list of at most 2 of 3 nodes, our own among them, or zeros, a queue of 1, 2 packets or changes of the list, any number of restarts: entries that go before, at and behind a read index, a full list with and without an eviction, a full queue, a time-out in the middle of a round, a failed assertion while another phone reads |
| `phone_restart` | violates `ConfigRestarted` | 1 phone, 2 requests, 2 channels |

Each passing run also checks its module's `TypeOK`, but for the two of liveness alone.

A node's own packets are bounded with any routes: `OwnSendsBounded`, which is run without learned
ones and proved with them. `RelaysBounded`, about those of others, belongs to a mesh that has
learned no next hop yet. With a stale one a relayer starts its retries anew each time it relays,
and sends a packet more often than the property allows; that it stops all the same is
`BecomesQuiet`, which is checked with such routes.

The properties of `history` hold whatever the slots hold that `wasSeenRecently()` never writes. For
`RelayersTrue`, that nobody is found but who relayed the packet, these bytes are excepted by name:
a node whose byte is in such a slot is taken for a relayer (PacketHistory.cpp:26).

`NodesWhole` leaves out by name the nodes that slide under the read index when an entry before
them goes (`Skipped`): these are in the database all the time and are never sent.

`DeliveryKept` and `StoreKept` compare every step with the abstract specification: it is a step of
that, or a stutter. `Accounted` names the one way in which an answer may go astray, the
overflow of `fromRadioQueue` (Router.cpp:84). `ConfigWhole` speaks of a phone that asks when no
hand-over is under way on its connection (`fresh`); `ConfigRestarted` is the same without this premise.
`RebootSafe` holds on three platforms and is not asked of the STM32.

`WakeupPending` excludes two things by name: an interrupt that was overwritten between
two halves of the notification code, and a `startReceive()` that nothing follows, which
is what a failed transmission and `reconfigure()` end in.

Bounds on counters: `MaxBoots` (power cycles), `MaxPackets` (calls of `send()`), the finite
set `Messages`, `MaxRequests` (packets of phones), one restart of each node in `MayReboot`,
`MaxCrashes`, `MaxFaults`, `MaxValue`, `MaxStarts` (handshakes), `MaxArrivals` (packets for
phones and changes of the node list), `NumOthers` (nodes that come and go), `Asks` (what each phone asks
for), at most 255 files, channels and sections, so that `config_state`, a `uint8_t`, does not
wrap, and in PacketHistory `MaxAge`: no record is left alone for a whole wrap of `millis()` (49 days). Beyond it an old record would look recent again: below 90 % of the
table nothing purges it, and the same id would have to come back after 49 days.

`CHECK_DEADLOCK FALSE` is set where the bounded system really stops: all boots used up,
all packets sent, a node halted in `initializeLoRa()`, every request answered. PhoneAPI never
stops: it may always restart.

**Fairness.** `BalticLoop` assumes only that the Arduino core keeps calling `loop()`; the
user owes nothing. `RadioLibInterface!Fairness`: the thread runs when it is
enabled (the scheduler's loop visits every thread); the chip finishes what it began; and
strongly for what other events may disable in between: a wait for a flag or a timer ends,
the channel is found free now and then, a pending reboot happens. `SentIsFreed` assumes in
its premise that the air becomes quiet. `MeshRouter!FairSpec`: a node goes on working while
it has a packet to send, to handle or to repeat (its threads and its radio run); nothing is assumed of
which packet it takes or of what is heard. `PhoneAPI!FairSpec`: the main thread comes to `loop()`
again and again, and a phone in reach that has asked or has been told reads until it gets
nothing (`MyInfo`, `Handshake`, `ReadPacket`); `Drains` asks that there be a phone that stays connected and in
reach.

## What disagrees with the code's own words

Two runs are expected to find a violation; each checks one sentence of the repository.

- `prefs_reported`: `saveProto()` returns "true for success" (NodeDB.cpp:1277), but it returns what
  the encoder said and drops what `SafeFile::close()` found. On an STM32 a `.tmp` that a power
  loss left behind is opened at its end, the read-back fails, and the caller is told that
  all is well; the second try of `saveToDisk()` never comes.
- `phone_restart`: `handleStartConfig()` is to "restart our state machine" when a phone asks
  again while connected. It keeps `config_state`, so a phone that asks again in the middle of
  a list is not sent all of the channels.

Met on the way, listed as hazards or explained here, and checked by no run of their own:

- "@return true if node was indeed a relayer" (PacketHistory.h:59): `wasSeenRecently()` declares a
  record without initializing it and writes only the first of its slots (PacketHistory.cpp:26). When
  another holds the byte of a node, `wasRelayer()` takes that node for a relayer of a packet it never
  sent. With `\ StackBytes` taken out of `RelayersTrue`, TLC finds this in one step.
- A phone that asks "wants radio to send full node db to the phone" (mesh.pb.h:1122). The list is read
  by an index that nothing adjusts: when an entry before it is removed or evicted, the next node
  slides under it and is never sent. With `Skipped` taken out of `Forget`, `NodesWhole` is violated.
- `refreshLocalMeshNode()` asserts that the list has our own entry (MeshService.cpp:356).
  `removeNodeByNum()` takes out any entry, and AdminModule.cpp:286 passes it the number as it came:
  after the node's own was removed, the next phone that asks for the configuration restarts the
  node. Until then a phone that asks for the nodes alone is sent the entry that moved to the front
  as the node's own.
- A Baltic node announces itself only once, so of two nodes that stay up the later one
  never lists the earlier, on a channel that loses nothing (line 75).
- An interrupt between reading and clearing the notification is lost
  (NotifiedWorkerThread.cpp:79), and a minute later the node reboots for a "hardware failure".
- After a transmission that fails to start no timer is set (RadioLibInterface.cpp:523), and
  the packets behind it wait for the next traffic.
- `stopRetransmission()` drops its record on every path but releases the copy it holds only
  where it cancels (NextHopRouter.cpp:162-175): a router, or a node whose packet has had no
  retry left, loses it from the pool.
- `restorePreferences()` takes any result of `loadProto()` for success: a backup that does
  not decode is restored and saved as what the decoder left.
- `isEOT` and `retrans` of a cancelled XModem transfer survive into the next (xmodem.cpp:211).
- The id "from MAC address" keeps 24 bits, so two devices may share one (two do in the
  instance of `mesh`). On ESP32 `getEfuseMac()` puts the first bytes of the address, the
  vendor's prefix, in these bits; that layout is external to the repository.
- A full transmit queue looks at one packet for eviction and never at the late ones, so
  late packets of low priority shut out one of higher priority.
- Late packets are queued by priority, not by the time they may leave.
- A receive interrupt "which shouldn't happen" outside receive mode does: a packet may
  end while `setStandby()` is at work. It is dropped without harm (`NeverDeaf`).
- The three relayer slots are filled with every copy heard, so three later copies push our
  own relay out of the record; `FallbackJust` therefore speaks of the last relayers only.

## What is proved

Each `...Proofs.tla` shows, for every value of the constants that the assumptions of its
module allow, what the runs show for one. `[]P` stands for `Spec => []P`; for an action
property or a refinement `P`, the theorem is `Spec => P`.

| Module | Theorems | For every |
|---|---|---|
| BalticProofs, the loop | `[]TypeOK`, `[]TelemetryOnTime`, `[]DisplayFresh`, `TelemetrySpacing`, `TelemetryFresh`, `Debounced` | period, blocking time and width of `millis()` |
| BalticProofs, the mesh | `[]MeshTypeOK`, `[]DatabaseSane`, `DatabaseStable` of `MeshSpec` | set of devices, MAC addresses, capacity, number of boots |
| TxQueueProofs | `[]TypeOK`, `[]QueueOrdered`, `[]StableOrder`, `[]OwnedOnce`, `EvictionJust` | limit, set of keys and priorities, number of packets |
| RadioLibInterfaceProofs | `[]TypeOK`, `[]OwnedOnce`, `[]NeverDeaf`, `[]AssertionsHold`, `[]WakeupPending` | set of messages, limit, with or without each kind of fault and interrupt |
| PacketHistoryProofs | `[]TypeOK`, `[]SeenIffRecent`, `[]RelayersKept`, `[]FallbackJust` | set of packets, number of slots, expiry, wrap, purge limit, content of unwritten slots |
| MeshRouterProofs | `[]TypeOK`, `[]Accounted`, `[]OwnSendsBounded`; refinement `DeliveryKept` | network, set of requests, roles, routes, restarts, silence, size of `fromRadioQueue` |
| PhoneAPIProofs | `[]TypeOK`, `ConfigWhole`, `NodesWhole` | set of phones, number of channels, sections, modules and files (up to 255) and of nodes, room for nodes and packets |
| PreferencesProofs | `[]TypeOK`, `[]NeverTorn`; `[]RebootSafe`, refinement `StoreKept` | set of segments and platforms, number of values, power losses and faults |

`MeshPacketQueueProofs` holds the lemmas on the queue's operators (what `Enqueue`,
`UpperBound` and removal do to a sorted list without repetitions), which the proofs
of both users of the queue cite.

### Assumptions

The assumptions on constants are named, in the module that declares them, and evaluated by
every run. Those with content:

- `PeriodsAssumption` (BalticLoop): no period and pass together reach the wrap of
  `millis()`, 2^32 ms against 5 minutes in the code; a pass takes time (`delay(10)`); the
  sensors are read at least as often as telemetry is due, and `setup()` ends before; two
  periods of the button fit in a wrap (100 ms in the code).
- `HistoryAssumption` (PacketHistory): zero is nobody's byte (`getLastByteOfNodeNum()`
  never yields it; a received packet without relayer carries it), and packets expire before a wrap.
- `RouterAssumption` (MeshRouter): a node does not hear itself, and a phone does not send to its own
  node (`sendLocal()` hands such a packet straight to the modules' queue and calls no `send()`).
- `MessagesAssumption` (RadioLibInterface): messages are told apart by their number, and are not in
  the late window when they are given to `send()`.
- `PhoneAssumption` (PhoneAPI): no list that `config_state`, a `uint8_t`, counts is longer than 255.
- `PreferenceAssumption` (Preferences): the device state and the node database are among the
  segments, as the code saves both by name.

Three theorems have a premise of their own, which is where the code's promise ends:

- `SafeReboot` and `StoreRefinement` need `"STM32" \notin Platforms`: there `SaveReported` is
  violated. `TypeCorrectness` and `NoFileTorn` hold with it.
- `DeliveryRefinement` needs `MayReboot = {}`: a node that restarts forgets its history and may
  hand a message to its phone again. `Accounted` is proved with restarts and speaks of the
  nodes that did not.

### The inductive invariants

No property here but some `TypeOK` is inductive. What each proof adds was first checked by
TLC as an invariant of the run's instance.

- **BalticLoop**, `LoopInv`: at every section, each timer's wrapped difference is the true
  time since it fired, or at most so much more, and is bounded by its period and what the
  sections since its own may take (`TelemetryClock`, `EnvClock`, `DisplayClock`,
  `ButtonClock`). Without the position in the loop the bounds do not follow from each other:
  a timer that is not due in its section grows by a whole pass before it is asked again. The sensors
  are read first because their timer starts with that of telemetry and is the shorter one.
- **BalticMesh**, `MeshTypeOK /\ DatabaseSane`, where `AddOrUpdateSane` shows that
  `addOrUpdateNode()` keeps ids distinct and the old list a prefix of the new.
- **TxQueue**, `QueueInv`: sorted, stable, no packet twice (else taking one out would leave
  a copy), and the history of each packet agrees with where it is (so a packet given to
  `send()` is newer than all that wait, which is what keeps equal ranks in order).
- **RadioLibInterface**, `RadioInv`: most of it is about `todo`, the code still to run, which
  grows at its front when a handler is nested in `setStandby()`. `Stack` says which step may
  stand behind which, and that what stops the radio is followed by what starts it. `ScanReady` is
  why the assertion after the channel scan holds: between the test of the queue and `dequeue()`
  no handler can run that sends. `Arming` and `Waking` carry `NeverDeaf` and `WakeupPending`
  through the middle of a handler; `Owned` gives each message one of four places.
- **PacketHistory**, `HistoryInv`: a record's wrapped age is its true age (`Timed`), and the last
  relayers stand in their order in its slots, none later than its place among the last ones
  (`RelayersStand`). Slots never written may hold anything, so the record is not the list of
  relayers, and a slot may even be taken for the end of the list.
- **MeshRouter**, `MeshInv`: there is a set M of the facts (sender, id, destination, request
  answered) of all packets ever made, and every packet in a queue, a retransmission, a
  history or a phone is one of them; ids are unique; a packet that answers another came after it, and
  was made by its destination only when that had handed it to its phone; a record in the
  history of a destination means that its phone has the packet; and each router still cares for
  what its phone sent. Each handler is a composition of calls, and each call has a lemma
  that it leads from a sound node to a sound node (`Sound`, `Leads`).
- **MeshRouter**, `AllBudget`, for `OwnSendsBounded` on top of `MeshInv`: of each packet of its own,
  the copies in a node's transmit queue, the tries left and the times it was sent add up to
  three at most. Each call has a second lemma that says by how much what is to be sent grows
  (`Grows`), which for all handlers is nothing (`Calm`): a try that is taken pays for the copy it
  queues. `Ends` is what makes that so for `NextHopRouter::send()`, which starts two tries of its own
  for a packet without acknowledgement: none that has two tries left comes there again.
  That `MeshInv` gives every packet an id of its maker's is what separates a new packet from
  one a handler meets.
- **Preferences**, `FileInv`: what `.tmp`, the file and the segment in RAM hold at each step
  of SafeFile on each kind of platform (`RenamedWhole`, `WrittenInPlace`, `HandWritten`), and that
  without a fault a setting is in its file, marked as unsaved, or in the list of the save that is
  under way (`SavedOrListed`).

- **PhoneAPI**, `PhoneInv`: for each phone, the state and `config_state` say what prefix of the
  configuration it has been sent (`ConfigInOrder`), and `readIndex` says of which nodes it has
  had the entry (`NodesInOrder`): of those it is promised, the ones at the positions up to
  the index, once each, and none behind it. The states share `config_state`, so `IndexFits` says at
  which index each begins; a restart in the middle of a list breaks this for the channels, which
  is why `ConfigInOrder` asks for `fresh`, but never carries the index past the manifest, because
  the lists of sections and modules start at an index of their own. The node list (`NodeList`)
  is no longer than its vector, has no node twice, and an entry of zeros, which ends the list for a
  phone, at most in front. An entry that goes, the first included, moves at most one promised
  node under each read index, and that one is no longer promised.

A refinement is proved from the invariant: the initial states map to initial states, and every
action maps to a step of the abstract specification or to a stutter.

### What only TLC checks

- Liveness: `HeldButtonIsSeen`, `SentIsFreed`, `BecomesQuiet`, `Drains`. The prover does not
  handle fairness and `ENABLED`.
- `RelaysBounded`: it holds of a mesh without learned routes only, and what a relayer may send
  depends on how often it hears a packet directly: its proof would need a count of every copy of
  the packet in the mesh, those waiting at other nodes among them.

## Not modelled, and the plan

What is left of the plan is a bound on how often a relayer sends a packet of another node's
in MeshRouter that holds with learned routes too.

Not modelled, and why:

- *Calls from the BLE task* into `send()` and `toPhoneQueue`: between two tasks the code has
  no lock, and what unguarded code does then is not defined by the source.
- *File transfer* (XModem): what it promises depends on the phone's program, which is not in
  the repository.
- *Power state machine, airtime, scheduler*: a transition table without state, counters that
  only decide when a node is silent (an event of MeshRouter that may come at any time), and
  the run-to-completion order that RadioLibInterface assumes.
- *Which node is evicted* from a full node database, and positions, users and telemetry in
  it: data. PhoneAPI lets any node behind the first go, or none.
- *What is written or read behind the node vector*: `removeNodeByNum()` of a number that a full list
  does not have fills one entry past its end (NodeDB.cpp:952). And a saved list that is full,
  evicts none and lacks our own entry throws again in each boot; `BootLists` holds the lists of
  the boots that succeed.
- *A manifest of 256 files or more*: `config_state` wraps and the hand-over does not end.
- *Channels, ciphers, keys*: data; a node with or without the key is a constant of MeshRouter.
- *Modules*: applications on top of the router; what they all share, a reply to a request,
  is in MeshRouter.
- *The UI's and the extra admin keys' files and the migration of old versions*, which use
  the same SafeFile.
- *The rest*: drivers, displays, GPS, serialization, ciphers and board support (I/O
  and data), generated protobuf code and vendored libraries.

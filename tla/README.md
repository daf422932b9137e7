# JOKER protocol: TLA+ models and proofs

JOKER is opportunistic routing for ad-hoc networks. A data packet is handed to
everyone in range; the header ranks the *candidates* that may forward it, each
waits in proportion to its rank, and a candidate that hears somebody else
forward is meant to keep quiet. This repository implements the protocol as a
C++ core with adapters for the NIC (UDP on Android, AF_PACKET on Linux, a mock,
OMNeT++), and an Android chat application on top.

Every definition here follows the source, not the documents; where a property
states what a document or a comment says, it quotes the line. `PROJECT.json`
maps each definition to the lines it stands for.

## 1. Inventory

| Part (source) | State | Operations | What makes it hard, what makes it right |
|---|---|---|---|
| Duplicate cache (`dedup_cache`) | list of ids in order of use, map of iterators and time stamps | `Contains`, `Insert`, `EvictExpired` | two structures that must agree; the sweep trusts the order; eviction re-opens the door to a packet |
| Timer wheel (`timer_wheel`) | heap of entries, next id | `Schedule`, `Cancel`, `Tick` | calls arrive in the middle of a tick; a timer fires once, on time, in order, or not at all |
| Forwarding pipeline (`forwarding`) | none of its own | `process_received_frame` | seven exits whose order decides what is a duplicate, what is overheard, what is delivered |
| Timer coordinator (`coordinator_timer`) | `pending_` | accept, callback, `HandleOverheardForward` | an entry and its timer live in two structures, under different locks |
| ACK coordinator (`coordinator_ack`) | `pending_` | accept, `HandleAck`, `HandleForwardingMessage`, `ProcessTimeouts` | a handshake that may be answered late, twice, or not |
| Header (`header`) | none | serialise, deserialise, validate | limits and lengths |
| Control plane (`neighbor`, `ogm`, `candidate`, `routing`, `cmsi`) | neighbour table | update, expire, select, reschedule | staleness, ties, reordered OGMs |
| Android node (`joker_jni`) | `g_node`, `g_seq_counter`, the node's members | start, stop, set peer, send; receive callback; ticker | four kinds of threads, a destructor that joins two of them, restarts |
| UDP adapter (`udp_nic_adapter`) | socket, `running_`, peer addresses | `Start`, `Stop`, transmit, `ReceiveLoop` | descriptor used by three threads; failures that only get logged |
| AF_PACKET adapter (`linux_af_packet`) | socket, `running_`, the interface's IFF_PROMISC | as above | a thread nobody can wake; a flag shared by the whole host |
| Mock and OMNeT++ adapters | queue; the simulator's | as above | `is_candidate` comes from the link-layer address |
| CLI (`cli/main.cpp`) | one node | send, quit | sends without remembering, binds to 0.0.0.0 |
| Android UI (`MainActivity.kt`, `WiFiDirectManager.kt`) | chat list, transfers, connection state | chat, files, discovery, connection | callbacks of the system that come late; lost chunks |
| Metrics, CRC-32, MAC addresses | counters; none | | |

How they interact. A receive thread of the adapter calls the node's callback,
which calls `process_received_frame`; that looks into the duplicate cache and
hands data packets to the coordinator, which schedules a timer. A ticker thread
calls `Tick` every 10 ms, which runs the coordinator's callbacks, and these
transmit through the adapter. User threads enter through JNI under `g_mutex`,
which the other two never take; `pending_mutex_` guards `pending_` only.

## 2. Modules

    LruOps ── SeenCache (abstract)          WheelOps
      │                                       ├─ TimerWheel ────────┐
      │        DedupCache  ⇒ SeenCache ───────┼─────────────────────┤
      │                                       │     AckCoordination ┼─ MCParts
      ├─ ChatSession ── MCChatSession ─┐      │     PacketSocket ───┤
      │                 MCFileTransfer ┴─ MCActivity  ControlPlane ─┘
      │                   └─ FileTransfer     │
      └──────────── Forwarding ───────────────┘      JniNode ────┬─ MCApp
                    │  │  ⇒ PacketLifecycle (abstract) WiFiDirect ┘
                    │  └─ MCForwarding
                    └─ JokerNetwork                  UdpPeer
                         └─ MCJokerNetwork

| Proofs | About |
|---|---|
| `LruOpsProofs` | the operators of `LruOps` |
| `StructuresProofs` | `DedupCache`, `TimerWheel` |
| `ForwardingProofs` | `Forwarding` |
| `JokerNetworkProofs` | `JokerNetwork`, by the lemmas of `ForwardingProofs` |
| `LinkProofs` | `AckCoordination`, `ControlPlane`, `PacketSocket` |
| `JniNodeProofs` | `JniNode` |
| `WiFiDirectProofs` | `WiFiDirect` |
| `ActivityProofs` | `ChatSession`, `FileTransfer` |

| Module | Models |
|---|---|
| `LruOps` | the duplicate cache as a sequence of ids, oldest first: `Contains`, `Insert`, `Evicted` |
| `SeenCache` | what a user of the cache may rely on: exactly the newest `Capacity` ids are remembered |
| `DedupCache` | the code: list cells, the map from id to iterator and time stamp, the sweep; an iterator may dangle here |
| `WheelOps`, `TimerWheel` | the heap as the set of its entries; a `Tick` reads the clock once, then pops, then runs the callback, and schedules and cancels fall in between |
| `Forwarding` | a node: one action per way through `process_received_frame`, the ticker's pop, its callback and the transmission as three steps, the node's own sends. Any frame may arrive at any time with either value of `is_candidate` |
| `PacketLifecycle` | what a node promises about packets: it knows the ids of at most `Capacity` of them, handles a packet at first sight or after a wait that began at first sight, and has no timers, frames or order of ids |
| `JokerNetwork` | nodes and links; each copy of a frame on a link is lost, late, out of order or repeated on its own |
| `AckCoordination` | senders that wait for a candidate's ack and may transmit again at any time, since the class does not tell them how a wait has ended; an ack can be heard by every sender, late and twice |
| `ControlPlane` | one node's neighbour table, fed by the OGMs of neighbours that boot and crash; the interval between their OGMs, the sweep, the selection of candidates |
| `JniNode` | the Android node's threads, step by step, with the locks, the socket and the joins |
| `UdpPeer` | whom a UDP frame goes to, and whom a node hears: set peers, captured peers, broadcasts that come back |
| `PacketSocket` | the AF_PACKET adapter: its owner in `Start` and `Stop`, its receive thread between `poll` and the callback, the socket's buffer and the promiscuous flag |
| `WiFiDirect` | scans, connections and their time-outs on the main looper, against a Wi-Fi P2P service that answers and broadcasts late |
| `ChatSession` | two phones: the packet id, the two looks of the callback into the cache, restarts of node and process |
| `FileTransfer` | an activity that sends files and receives them as META, CHUNK and DONE, over a channel that loses messages and lets one fall behind those sent after it; files are stored by name, the chat has an item per transfer, and each write of the banner is a step of its own |
| `MCParts`, `MCApp`, `MCActivity` | compositions without interaction, each for one run: the variable `part` says to which of the parts a behaviour belongs, and the others stay as they begin. `MCParts`: wheel, cache, ack, socket and control plane; `MCApp`: the native node and Wi-Fi Direct; `MCActivity`: chat and files |

State against code. In `Forwarding`, `dedup`, `pending`, `timers`, `next_id`,
`tx` are the members of the same name, one per node; `popped` is the local
variable of `Tick` between pop and callback, `in_hand` the callback's
`frame_to_send` between the release of `pending_mutex_` and the NIC; `now` is
`steady_clock`; `count` is a ghost that counts what has become of each packet
(three of its counters are the node's metrics; `early` counts the forwards that
a left-over timer has brought forward). A reception is one step because only the receive thread
touches `dedup` in it and what it does to `pending_` is under the mutex;
`JniNode` is the module in which that is *not* taken for granted. There a thread
is *in* a structure between two of its steps, and a data race is two threads in
one structure; what a race then does to the bytes is left open.

In `AckCoordination`, `pending` and `late` are `pending_` and those entries of it
whose `deadline` has passed, and `elected` is a ghost that lists every
`first_ack_sender` a packet has ever had. `AddPending` overwrites what is there,
as the code does: neither a pending entry nor an earlier election prevents it.
The election has no effect in this code:
`HandleAck` builds the Forwarding message and does not send it,
`HandleForwardingMessage` is empty, and only tests call `AddPending` and
`ProcessTimeouts`. The module has a sender call them as `IMPLEMENTATION.md:1055`
describes.

In `ControlPlane`, `table` is `table_` with ages in place of time stamps; `loop`
is the timer of the neighbour's `CmsiScheduler`, `ogms` what is under way, and
`silence` a ghost that adds up the intervals over lost OGMs. The repository
declares this loop and tests its parts, but no program wires them together, and
`ogm_receive` is a stub; an OGM is therefore a record, handed to `ogm_process`.
Its sequence number and its TTL are left out because nothing reads them, and
`Lookup` because it changes nothing (it returns stale entries too).

In `ChatSession`, `forgotten` is a ghost that counts how often a node's cache has
given up each id. In `FileTransfer`, `files` is the download directory by name,
`items` what `_chatItems` has of received files, each with the name by which it
finds its file, and `to_show` says whose coroutine is about to set the banner.
Writing the file and adding the item are one step of the receive thread.

In `PacketSocket`, `pc` is where the owner of an adapter is between the public
calls, `rx` where the receive thread is, `buffer` what the kernel holds for the
socket. In `UdpPeer` a node stands for its address; `bind` says whether the
adapter knows that address (`own`) or was given 0.0.0.0 (`any`).

Data is abstracted: an address, a packet id or a text is a value without inner
structure, a payload is left out, parsing is its outcome (`Malformed` or a
header), and the checksum of a packet id is taken to be injective in text and
counter, which is kind to the code.

## 3. Runs

| Run | Question | Bounds |
|---|---|---|
| `parts` | Wheel: once, on time, in order, never after a cancel, and out of the heap in the end? | 3 timers, delays 0 and 2, clock to 3; calls fall inside a tick |
| | Cache: do list and map agree, is a sweep exact, does it implement `SeenCache`? | 3 ids, 3 cells, 2 places, clock to 3: eviction, refresh and expiry all meet |
| | Acks: does a transmission elect one candidate at most, one that has the packet? | 2 senders, 2 candidates, 1 packet, each sender transmits twice |
| | AF_PACKET: is the thread gone when `Stop` returns, and does it return? | 1 adapter, 1 frame in the buffer |
| | Control plane: are candidates selected on recent metrics, is a neighbour kept over lost OGMs, and found in the end? | 2 neighbours, 1 candidate, so that one is left out; delay and clock step 1.5 s, expiry 4.5 s; OGM intervals of 1.5 s (one OGM may be lost, two may not) and of 6 s, which is beyond the expiry: the neighbour is given up between any two OGMs and must be found again |
| `ack_two_forwarders` | *violated*: a packet gets one forwarder | as in `parts` |
| `forwarding_small_cache` | One node against any traffic, with a cache of one id: is anything handled twice, stranded, forwarded early or lost from the books, but for what the cache has forgotten? Does the node live with packets as `PacketLifecycle` says? | 2 ids, each inserted twice at most, so that each pushes the other out and comes back; `SendHorizon` 1 and `TWait` 1 let a timer be pending, popped, cancelled, replaced and left over |
| `network` | Triangle A, B, C with D behind B and C, lossy links: TTL, one life per packet and node. And a chain of the four whose links deliver: does a packet whose TTL spans it arrive? | 4 nodes, 1 packet, TTL 3: the last hop of the chain uses the last of it |
| `network_suppression` | *violated*: an overheard forward ends a wait | mesh |
| `network_backup` | *violated*: a listed candidate that got the packet forwards it if the primary does not | mesh |
| `app` | Native node: two user threads start, stop and send: use after free, closed descriptors, stranded frames, leaks, endless stop | 2 nodes started, 2 timers |
| | Wi-Fi Direct: does an attempt end, and by its own time-out; does a scan end; is a lost group still shown? | 1 scan, 2 attempts, 1 start and stop, 1 change by the service itself (besides those its calls cause: a stop and a recovery from BUSY remove groups, so a group can come and go) |
| `jni_data_race` | *violated*: one thread at a time in cache and heap | as in `app` |
| `activity` | Chat between two phones: shown once, shown if the id is its own, own packets not relayed, but for what the cache has forgotten | a cache of 1 id, 2 evictions at each node before it hears no more; 3 sends, 3 node starts and one killed process between the phones, 2 frames under way, TTL 2 |
| | Files: is what is stored under a name one transfer's; does the banner show only what has not ended? | 2 incoming transfers of one name, with 2 chunks and with 1, and an outgoing one with 1; a message falls at most 3 behind, which is past the end of the other transfer |
| `chat_ids` | *violated*: what arrives is shown | 1 text, a cache of 2 ids |
| `wifi_direct_lock` | *violated*: the attempt the service negotiates holds the lock | 2 scans, 2 attempts |
| `udp_self_peer` | *violated*: a node drops what it has sent itself | a laptop and a phone, bound to 0.0.0.0 or not |

Why the bounds are enough: each hazard needs one packet that conflicts with
itself (a copy, an echo, a second acceptance) or with one other (eviction), and
each race needs two threads and two nodes in a row. Every bound is a constant
named in its module: `MaxInserts`, `SendHorizon`, `MaxTx` (Forwarding; `MaxInserts`
bounds how often an id is new to one cache, so with a cache that evicts it also
bounds how long a packet can go round),
`MaxStarts`, `MaxTimers` (JniNode), `MaxSeq`, `MaxSent`, `MaxAir`, `MaxRuns`,
`MaxLives`, `MaxForgotten` (ChatSession), `MaxClock` (DedupCache),
`MaxNow` and `MaxTimers` (TimerWheel), `RetryLimit` (AckCoordination),
`Backlog` (PacketSocket), `MaxLag` (FileTransfer),
`MaxScans`, `MaxAttempts`, `MaxProtocolStarts`, `MaxChanges` (WiFiDirect). In
`ControlPlane`, `MaxDelay` and `Step` bound the delay of an OGM and the grain of
the clock, and an entry's age saturates once it is past the expiry, which is all
the code ever compares it with; its OGM intervals of 1.5 s and 6 s are what
`calculate_cmsi` gives for throughputs of 0 and 750 kbps.
Runs say `CHECK_DEADLOCK FALSE` where the system rightly comes to rest when all
traffic is over or the bounds are used up.

What a cache that forgets may cost is part of the properties, not kept out of the
runs. A packet accepted again overwrites its entry but leaves its old timer
(`coordinator_timer.cpp:29`), which then forwards the new acceptance early:
`EarlyOnlyIfForgotten` says that this takes an eviction of the id each time.
`ShownOnce` and `OwnNotForwarded` say the same of the chat. The real cache holds
1000 ids, and a file of 800 KB uses that many.

### Fairness

* `Forwarding`, `JokerNetwork`: the ticker of every node keeps running, its NIC
  takes what it is given, and time goes on. Nothing is assumed of a medium,
  unless it is one of those marked `reliable`, on which every copy arrives.
* `TimerWheel` (in `PartsSpec`): ticks keep coming and end, time goes on.
* `PacketSocket` (in `PartsSpec`): the owner in `Stop` goes on when it can, and the
  receive thread does so, where `poll` returns after 100 ms if nothing else does.
  That `poll` fails is not assumed, nor that frames come.
* `ControlPlane` (in `PartsSpec`): time goes on, timers fire, an OGM under way
  arrives within `MaxDelay`; and of the OGMs of a node that goes on sending not
  all are lost (strong fairness), without which no protocol could find it.
* `JniNode` (in `AppSpec`): every thread that can step does so in the end. Two strong
  assumptions are added for the ticker: a `Tick` ends, because it reads the
  clock once and only finitely many timers are due then, and it gets
  `pending_mutex_` in the end although the receive thread takes it again and
  again. No frame need ever arrive. Sends and starts are up to the user.
* `WiFiDirect` (in `AppSpec`): the looper runs what is posted or delivered to it, and the
  system ends its scans. Nothing is assumed of peers or user.
* Safety properties, `ChatSession`, `AckCoordination`, `UdpPeer` and
  `FileTransfer` use no fairness.

### Where code and documents disagree

1. An overheard forward does not suppress a waiting one (`forwarding.cpp:76`
   comes before line 89). `ARCHITECTURE.md:561-562`. Run `network_suppression`.
2. A backup candidate never forwards, because it is not told it is a candidate
   (`forwarding.cpp:83`). `ARCHITECTURE.md:30`, 803. Run `network_backup`.
3. The duplicate cache and the timer heap are used by two threads at once
   (`joker_jni.cpp:250`, `timer_wheel.cpp:34`). `ARCHITECTURE.md:706-707`,
   `IMPLEMENTATION.md:1604`. Run `jni_data_race`.
4. Packet ids are not unique: two phones whose n-th message is the same text
   give it the same id, and neither shows the other's (`joker_jni.cpp:235`
   against the comment in line 234). Run `chat_ids`.
5. The late failure of an attempt that was called off takes the lock and the
   time-out of the next one (`WiFiDirectManager.kt:97`, 245).
   `docs/v3_walkthrough_and_known_issues.md:8`. Run `wifi_direct_lock`.
6. A node bound to 0.0.0.0 does not know its own frames
   (`udp_nic_adapter.cpp:200` against the comment in line 199): a broadcast of
   its own comes back, is handed up and makes the node its own peer, so that
   nothing leaves it any more. The command line always binds so (`main.cpp:90`),
   the phone in developer mode or without an address (`MainActivity.kt:237`,
   773). Run `udp_self_peer`.
7. In ACK mode a packet can get two forwarders: an election erases the sender's
   entry as a time-out does (`coordinator_ack.cpp:51`, 67), so that a sender that
   tries again elects whoever acknowledges next. `ARCHITECTURE.md:799`. Run
   `ack_two_forwarders`.

Seen while modelling and not made a run: `TransmitBroadcast` of the UDP adapter
sends to the one peer once there is one, which `interface.hpp:19` does not say;
`Stop` of the AF_PACKET adapter clears IFF_PROMISC for whoever else listens on
the interface; `config.hpp:27-28` calls the expiry of 6 s a few OGM
intervals, although the interval reaches 7.5 s at 1000 kbps, from where on no
single loss is tolerated (the precondition of `LossTolerance` is that boundary);
and a received file is written without the chunks that have not come, and over an
earlier file of the same name, whose item in the chat then shows the new one
(`MainActivity.kt:186-202`), which is why `FilesAreWhatWasSent` speaks of what is
stored and not of each item.

## 4. Proofs

Every safety invariant of the passing runs, and the safety part of both
refinements, is a theorem: the runs show them on small instances, the theorems for every value of
the constants, under the assumptions the modules state about these (each an
`ASSUME` that TLC evaluates in the runs). What is left to TLC is liveness.

### The node

`ForwardingProofs` proves `TypeCorrect` (`[]TypeOK`), `AtMostOnce`
(`[]HandledAtMostOnce`), `EveryAcceptanceAccounted` (`[]AcceptanceAccounted`),
`NoStrandedFrame` (`[]PendingHasTimer`), `ForwardsEarlyOnlyIfForgotten`
(`[]EarlyOnlyIfForgotten`) and `PacketsLiveAsRemembered` (`LivesAsRemembered`, a
refinement), for every set of nodes, addresses and frames, every capacity, delay
and bound.

None of these invariants but the first is inductive. `HandledAtMostOnce` bounds
deliveries, forwards and expiries by evictions; that follows from three things:
every acceptance and delivery goes with an insertion (`OutcomesInserted`), every
acceptance is resolved once at most (`AcceptanceAccounted`), and an id that was
inserted `k` times and evicted `k` times is not in the cache
(`InsertionsAccounted`), where in turn the cache must not hold an id twice
(`DedupShape`). `PendingHasTimer` needs `TimerIdsDistinct`: cancelling by id
must hit the one timer meant, and a fresh id must be fresh. `NodeInv` is the
conjunction; `NodeInvInit` and `NodeInvStep` show it inductive, in three groups
(types and cache, accounts, timers), one step per action.

`EarlyOnlyIfForgotten` needs an account of its own (`EarlyInv`): every timer of a
packet that can still fire, and every forward and expiry of it, goes back to an
acceptance of its own (`LiveAccounted`). A forward ahead of its time uses up one
timer while the entry's own is still running, so there have been at least one
acceptance more than forwards, each with an insertion, and as many evictions as
insertions but one. What the ticker has popped is due (`PoppedIsDue`), so the
timer that comes early is never the entry's own.

`PacketsLiveAsRemembered` maps a node to `PacketLifecycle` by what it remembers
(`Known`), what waits (`Waiting`) and how often it has delivered, forwarded or
given up each packet (`Handled`). An insertion of a new id is a first sight, which
gives up one id if the memory is full (`InsertIsNote`), and no other step
changes what is known; each action is shown to be a step of one packet at one
node, or none. Nothing is assumed of the capacity.

### The network

A network brings a node fewer frames than `Forwarding` does, but not the same
ones: copies have a TTL that the set `Frame` need not contain. The step lemmas of
`ForwardingProofs` are therefore about `NodeAction`, in which any frame of a
wider set (`AnyFrame`) may arrive or be sent at any time; `Next` is a special
case, and so is every step of a network. `JokerNetworkProofs` gets from them
`NetInvariance` and with it `NetworkHandlesOnce` and `NetworkStrandsNoFrame`,
for any nodes and any medium, and likewise `NetworkForwardsEarlyOnlyIfForgotten`
and `NetworkPacketsLiveAsRemembered`.

`TtlPays` (`[]TtlPaysForHops`) is about all nodes at once. A copy on a link was
at a NIC before, and before that in the hands of a callback, for which it waited
in `pending_`, or its sender had just made it; the invariant `JourneyInv` says of
each of the four places that what is there was sent, changed in nothing but its TTL,
and that the TTL it has lost pays for the way from its origin (`OnTheAir`,
`AtTheNic`, `InHand`, `InPending`). A reception
adds a hop to the route and the timer takes one from the TTL.

### Cache and wheel

`StructuresProofs` proves of `DedupCache` `NoDanglingIterator`
(`[]IteratorsValid`), `SweepsAreExact` (`[]SweepIsExact`) and
`CacheRefinesSeenCache` (`ImplementsSeenCache`), for any ids, capacity and ttl,
provided that a list node is free when one is wanted (`DedupAssumption`). The
invariant `CacheInv` says besides that no cell is linked twice (`LinkedOnce`), that an
entry carries the time of the last insertion of its id (`StampedLast`), and that the
list is in the order of these times (`InInsertionOrder`), which is what the comment
at `dedup_cache.cpp:40` relies on. The refinement reads the list as ids
(`Recency`): a refresh is `SeenCache`'s, an insertion forgets the oldest id if
the cache is full, a sweep drops a prefix, which may be empty.

Of `TimerWheel` it proves `FiresOnTimeAndOnce`, `CancelsAreFinal` and
`FiresInOrder`. An entry is in one place only, the heap, the hands of `Tick` or
what has fired (`OnePlace`), a cancelled one is marked wherever it still is
(`RevokedIsMarked`), and all that has fired expires before what `Tick` holds, and
that before what is in the heap (`InOrder`).

`LruOpsProofs` holds what the models need of the cache as a sequence:
`InsertFresh` says what inserting a new id adds, evicts and preserves,
`InsertRemembers` what any insertion, a refresh included, leaves in the cache.

### Links

`LinkProofs` proves `ElectsOncePerTransmission`
(`[]OneElectionPerTransmission`) for any senders, candidates and packets. The
invariant adds that what is pending still has an election to its account
(`WaitsAreCounted`) and that an ack on the air comes from a candidate that has
the packet (`AcksAreTrue`). That a packet gets one forwarder does not follow, and
is false (disagreement 7). `StopEndsThread` (`[]ThreadEndsWithStop`) holds
for any number of adapters: `running_` alone does not tell, because `Stop` clears
it first, so that `ThreadByOwner` relates it to where the owner is.

`CandidatesAreRecent` (`[]SelectedOnRecentMetric`) and `LossIsTolerated`
(`[]LossTolerance`) hold for any neighbours, fade margins, throughputs, expiry,
interval bounds and delay, if durations are multiples of `Step`
(`ControlAssumption`). The invariant keeps an account of ages: a metric is as old
as its entry and its OGM's delay together (`MetricAge`); a node is up exactly
while its timer is set (`LoopWhileUp`); and the silence of a neighbour still
covers its entry's age and the rest of the interval, or an OGM is under way that
will renew the entry in time (`SilenceCovers`).

### The phone

`JniNodeProofs` proves `NodeTypes` (`[]TypeOK`), `NothingUsedAfterFree`
(`[]NoUseAfterFree`), `DescriptorsAreOpen` (`[]SendsOnOpenSocket`),
`NoSocketLeaks` (`[]OneSocket`) and `EntriesHaveTimers` (`[]EntryHasTimer`), for
any finite set of application threads and any bounds (`JniAssumption`). The
argument is about the phases of a stop: `Locked` says that whoever is inside a
JNI function holds `g_mutex` and finds the node there, `Phase` what each place
inside leaves of threads, socket and flag, `Adapter` and `Gone` that socket and
receive thread come and go together, `Descriptors` that no thread holds an old
descriptor. `Frames` counts entries of `pending_` against timers in the heap
and in the ticker's hands; `Budget` counts the nodes and timers for `TypeOK`.

`ActivityProofs` proves of the chat `MessagesShownOnce` (`[]ShownOnce`),
`UniqueMessagesShown` (`[]ShownUnlessIdShared`) and `OwnMessagesNotForwarded`
(`[]OwnNotForwarded`), for any texts, bounds and capacity of the cache. The
invariant is about the time between the two looks of the receive callback
(`LookHolds`: a message whose id is not in the cache, or was not at the first
look, has been shown only as often as the id has been given up) and about why an
id is in the cache (`RememberedFor`: it is of a message of one's own, or of one
shown), and why one's own is (`FramesGenuine`: or it has been given up).

Of the files it proves `ReceivedAsSent` (`[]FilesAreWhatWasSent`) and
`BannerShowsATransfer` (`[]BannerIsOfATransfer`), for any transfers. While
nothing has been lost, overtaken or restarted, every chunk sent is stored or
still under way, and in its place behind META (`InOrderSoFar`, `Window`); no DONE
can then come before a chunk.

`WiFiDirectProofs` proves `OwnTimeoutOnly` (`[]TimeoutIsOfThisAttempt`) and
`ScreenIsTrue` (`[]ConnectedIsTrue`), for any bounds. The first is inductive as it
stands: every step releases the lock together with the runnable (`UnlockKeeps`),
leaves both alone (`LockUnchanged`), or begins an attempt when nothing is posted.
The second says nothing until everything has arrived; its invariant
`TrueInTheEnd` says what is on the way until then: a screen that shows a group
which is gone has something ahead of it that mends it, a broadcast or an answer,
and an answer that is itself outdated has it behind it in the queue.

### Model-checked only

Liveness under fairness, which the prover cannot do here: `PendingIsResolved`,
`ReachesDestination`, `EveryTimerLeaves`, `StopFinishes`,
`StopReturns`, `NeighbourIsFound`, `AttemptEnds`, `DiscoveryIsOver`, and the
fairness that `ImplementsLifecycle` asks for beyond `LivesAsRemembered`. The seven
disagreements of §3 are counterexamples and need no proof.

## 5. Plan

Done: the duplicate cache, the wheel, the node, the network, ACK mode, the
control plane, the Android node's threads, its peers, its chat and its file
transfers, the AF_PACKET adapter, and Wi-Fi Direct; and the proofs of all their
safety properties. What is left:

1. Proofs of what the liveness runs rest on and is itself safety: that a step a
   fairness assumption speaks of is possible where it is needed (that the ticker
   is never blocked by an entry, that a stop is never waited for by whom it joins).
2. What a neighbour loses when a node is destroyed with forwards pending.

### Not modelled

* The OMNeT++ adapter and timer wheel run inside the simulator only, whose order
  of events and memory management would have to be modelled with them. (Its
  `Cancel` reads the callback out of a message it has just handed to
  `cancelAndDelete`, `omnet_timer_wheel.hpp:45`.)
* The byte layout of the header, CRC-32 and MAC addresses: functions on bytes; an
  address is a value here and a checksum is injective.
* Failures of the phone's storage; the Compose user interface: layout.
* Metrics: counters under a mutex. Logging, build files, the vendored
  googletest.

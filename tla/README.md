# A verification development for zre

`zre` (`src/zre/`) is a Python implementation of ZRE (RFC 36): nodes on a network find each other,
keep a direct connection to every peer, form groups and exchange messages. This directory holds
TLA+ modules that model it, the TLC configurations that check them on small instances, and
theorems that TLAPS proves for every value of the constants.

## The system

A node (`ZreNode`, `zre/node.py`) is one coroutine, `_run_loop`. It takes the commands of the
application from a queue, broadcasts a beacon every interval, and handles what arrives on its
sockets, one message at a time. No handler yields before it is done, with the exception of
`stop()`, which other tasks call. Nodes share nothing but the network.

| component | state | operations | interacts with |
|---|---|---|---|
| discovery | `_peers`, beacon sockets | `_send_beacon`, `_handle_beacon` | UDP broadcasts; a port-0 beacon announces a departure |
| connections | a `Peer` per uuid: DEALER, `connected`, `ready`, `groups`, timers, sequence numbers | `connect`, `disconnect`, `send_encoded` | one DEALER to every peer's ROUTER; messages of one DEALER arrive in order |
| handshake | `Peer.ready` | `_send_hello`, `_handle_hello` | HELLO from both sides; ENTER to the application |
| groups | `_own_groups`, `Peer.groups`, `Group.peers` | `_join_group`, `_leave_group`, JOIN and LEAVE in `_handle_peer_msg` | a SHOUT goes to `Group.peers` |
| direct dialling | `_pending` | `connect_peer`, `_do_connect`, `_adopt_pending` | placeholders are adopted by beacon, gossip tuple or HELLO |
| departure | the timers of `Peer` | `_remove_peer`, `_reap`, `stop` | EXIT to the application |
| elections | `Group.election`, `Group.leader` | `_start_election`, `_handle_elect`, `_handle_leader`, `_maintain_elections`, `_restart_election_if_needed` | ELECT and LEADER between the members of a group |
| gossip client | hub links, `_gossip_tuples` | `_gossip_announce`, `_handle_gossip_client`, `_gossip_maintain`, `_gossip_redial` | `_gossip_require` dials what a tuple announces |
| gossip hub | tuples, clients (`zre/gossip.py`) | `handle_socket`, `_accept`, `_reap` | PUBLISH to every client |
| life cycle | `_running`, sockets, event queue | `start`, `run`, `stop`, `_emit`, the UUID collision path | events to the application, at most 1000 waiting |
| addresses | `_send_sock`, `_send_targets` | `_resolve_interface_ip`, `_build_send_sock` | the host's interfaces and routes |
| examples | settings, tasks, locks, files, registries | `examples/*.py` | commands to a node, events from it |
| codecs | none | `Codec`, `zgs_encode`, `zgs_decode` | every frame |

What is hard in it: both nodes of a pair discover, greet and command each other at the same time,
and a message that comes before its sender is `ready` is dropped without trace; beacons are lost,
late and reordered; a process stops, crashes and comes back under its uuid while others still hold
its old session; a full send queue cuts a connection off in the middle of a broadcast; one side
may expire the other without the other knowing; elections of one group overlap and are sent again; a
hub and its links restart apart; queues are full; events reach an application late or not at all.
`PROJECT.json` lists these hazards at their lines.

What makes each part correct:

- handshake: both nodes of a pair become ready for each other whatever the order of beacons and
  HELLOs; HELLO is sent once per connection and leads it; no command is lost before readiness;
- groups: `Group.peers` and `Peer.groups` agree, and what a node has of a peer's groups is what
  the peer has, up to what is on its way;
- departure: a node that is gone is forgotten for good; ENTER and EXIT bracket everything;
- dialling: a connection is filed under the uuid it leads to, and a peer is not dialled again;
- elections: one leader, the lowest contestant, the same at every member, and an end to every
  wave;
- gossip: what the hub holds reaches every client, and a peer that comes back is dialled again;
- life cycle: a program learns that its uuid is taken, and a file arrives whole or is cut at its end;
- addresses: a beacon reaches every LAN of its host, or only the one that is pinned;
- examples: settings converge and never go back, a task is done once, a lock has one holder;
- timers and sequence numbers: who answers is not given up, a silence is reported once, and no gap is
  reported on a connection that lost nothing.

## Modules

| module | what it holds |
|---|---|
| `ZreMesh` | the peer mesh in beacon mode: life cycle, beacons, HELLO, groups, messages, loss, expiry; its properties and fairness |
| `MCZreMesh` | budgets for TLC |
| `Presence` | abstract: what a node promises its application about the others |
| `ZreMeshPresence` | the refinement mapping: `ZreMesh` implements `Presence` |
| `ZreMeshProofs` | types, tables and the handshake invariant, with what follows from them |
| `ZreViewProofs` | that undisturbed nodes agree on groups, and that `ZreMesh` implements `Presence`; extends `ZreMeshPresence` and `ZreMeshProofs` |
| `ZreDial` | the outbound connections of one node: beacons, HELLOs, dialling by address, placeholders |
| `ZreBeacon` | where a node's beacons go: interfaces, netmasks, the cached targets |
| `ZreAddressProofs` | the theorems about `ZreDial` and `ZreBeacon` |
| `MCZreDial`, `MCZreAddress` | two networks of addresses; the hosts of `ZreBeacon`, beside one of those networks |
| `ZreElection`, `MCZreElection` | the election of a group's leader, over the meetings and departures of a mesh |
| `ZreElectionProofs` | types, that no leader is made up and no contestant passed over, and who leads where one or two contest |
| `ZreGossip`, `MCZreGossip` | the gossip hub, alone or inside a node, and the hub links of the nodes |
| `ZreGossipProofs` | types, convergence and freshness of the tuple tables |
| `ZreLink`, `MCZreLink` | one connection over a clock: PING, EVASIVE, expiry, sequence numbers, and two applications that follow events |
| `ZreLinkProofs` | the theorems about `ZreLink` |
| `ZreTransfer`, `MCZreTransfer` | command queue, event queue, UUID collision and the end of a program, with `file_transfer.py` |
| `ZreTransferProofs` | that a file arrives whole, or is cut at its end |
| `ZreGroup` | nodes and one group, as the examples see them |
| `ZreConfig`, `ZreTasks`, `ZreLock` | `config_sync.py`, `task_queue.py`, `distributed_lock.py` over `ZreGroup` |
| `ZreAppsProofs` | the theorems about the first two of them |
| `MCZreParts` | `MCZreAddress`, or one of those two programs on three nodes, a part per behaviour |

The modules share the handlers of `node.py` and differ in what they keep of them. `ZreMesh` has the
handshake and everything that can go wrong with it; `ZreElection`, `ZreGossip` and `ZreGroup` take
meeting and parting from it in a simpler form and add what they are about.

A definition named `...` after the comment "Mutant of X" is a plausible bug in X. It is used by no
specification; `PROJECT.json` says which property refutes it when it takes the place of X.

### ZreMesh and the code

One node's state is that of its `ZreNode`:

| variable | code |
|---|---|
| `phase` | `_running`: `up`; between the two halves of `stop()`: `closing` |
| `known` | keys of `_peers` |
| `linked`, `ready` | `Peer.connected`, `Peer.ready` |
| `pgroups`, `members` | `Peer.groups`, `Group.peers` |
| `own` | `_own_groups` |
| `seen` | ENTER was emitted and no EXIT since; kept by the application, not the code |
| `net[n][p]` | what n's DEALERs to p sent and p's ROUTER has not handed over, in order |
| `air[n][p]` | beacons of n that may still reach p, a set: UDP reorders them |
| `cut[n][p]` | p hears nothing of n for longer than `expired_timeout` |
| `spent` | how many environment steps of each kind there were |
| `torn` | history: pairs whose session was ever interrupted |

A handler of the run loop runs to its end without yielding to another handler, so each is one
action: `Join`, `Leave`, `Shout`, `SendWhisper` are the application's commands; `SendBeacon`,
`RecvHereKnown`, `Discover` and `RecvGone` are the beacon; `HelloRefresh`, `HelloComplete` and
`HelloAdmit` are the three ways through `_handle_hello`; `RecvJoin`, `RecvLeave`, `RecvData`,
`RecvIgnored` the rest of `_handle_peer_msg`; `Expire` is the reaper. `stop()` is split where
other nodes may see a state in between: `Stop` (the port-0 beacon), one `Leave` per group,
`Close`.

`Post` is `Peer.send_encoded` applied to a set of peers. It shows the one failure a send has: a
full queue (`HWM`) disconnects the peer and leaves its table entry behind. The queue is that of
the pair: messages the ROUTER has received and not yet handled count too. In the program they have
room of their own, so a real queue fills later, but in the same place.

Three things are of libzmq, not of the code: a closed DEALER loses what it had not written
(`Discard`, the newest first), what was on its way to a dead process is lost (`Perish`, the oldest
first), and libzmq reconnects to the same address by itself, so the rest waits for the process
that binds the port next. What a replaced DEALER of n still has on its way to p stays in
`net[n][p]`, ahead of what its successor sends.

The clock is left out. A peer may be expired once it is `Silent`: cut off, or dead with nothing of
it on its way. A cut (`Silence`) covers both a partition and a process that stalls longer than the
timeout.

### ZreDial and the code

One node is modelled, the other nodes being what may arrive: a beacon or a gossip tuple
(`Announce`), a HELLO of a uuid that is new (`HelloNew`) or known (`HelloKnown`), a departure
(`RemovePeer`), a failing send (`HangUp`). `Dial` is `connect_peer`, `ExpirePending` the reaper. Who
listens at an address (`Listens`) and under which addresses a node is announced (`Announced`) are
constants; they are assumed to be truthful, so every misfiled connection is the node's own doing.
`Candidates` is the search of `_adopt_pending`: the exact address, else the port.

`dealer[u]` is `Peer.addr` and `Peer.port` of u's entry, the address its DEALER was dialled at:
adoption changes `uuid_hex` and nothing else.

### Presence and ZreMesh

`Presence` knows four things of a node: whether its application receives events, whom it has met,
whom it told its application of and did not take back, and their groups. A peer is met silently or with
its ENTER; ENTER may come with groups, JOIN and LEAVE are of somebody present, and from the first half of
`stop()` to its second nothing is told. EXIT ends a meeting: there is one for each entry that is removed,
also where the ENTER never came (`node.py:1836-1842`, `2167-2173`), and it takes all groups along.
`ZreMeshPresence` maps `Up`, `known`, `seen` and `pgroups` to it, so a removal is an `Exit` and never a
step that changes nothing. A second ENTER of a peer that is present
is allowed, because the code does it: the HELLO of a peer whose connection a full queue cut off is
announced again without an EXIT in between.

### ZreElection and the code

| variable | code |
|---|---|
| `contest`, `own` | `_contest_groups` and `_own_groups`, for the one group |
| `peers`, `election`, `leader` | `Group.peers`, `Group.election` (challenger, father, `erec`, `lrec`), `Group.leader` |
| `told` | the last LEADER event |
| `known`, `ready`, `net` | as in `ZreMesh` |

`Start`, `Restart` and `Finish` are `_start_election`, `_restart_election_if_needed` and
`_finish_election`; the handlers that call them (`RecvHello`, `RecvJoin`, `RecvLeave`, `Remove`) do so in
the same step. `RecvElect`, `RecvLeader` and `Maintain` are the waves and their resend. A node is its
uuid, so ids are ordered as `_wire_id` makes them. The two seconds between resends are left out: a
resend happens when all is quiet, or early, which a budget counts.

### ZreGossip and the code

`table` and `clients` are the hub's, `tuples` and `peers` a node's `_gossip_tuples` and `_peers`; `up`
and `down` are the two directions of a hub link. A node binds another port at each start, so its
endpoint is the number of the start and a HELLO to an old endpoint reaches nobody. `HubTake` is
`handle_socket` with the forwarding of `_accept`, and the delivery to the node that hosts the hub;
`ClientTake`, `Ping` and `Redial` are `_handle_gossip_client`, `_gossip_maintain` and `_gossip_redial`;
`Require` is `_gossip_require`. `End` is what is left of a node, and of a hub inside it: a DEALER keeps
what it had queued and reaches the next hub by itself, so frames survive or not. `Unpublish`
deletes a tuple of the node's own tuples and, where the node hosts the hub, of the hub's table.

Hub links set no routing id, so at the hub's ROUTER the link of a process and that of the next one, or the
link before a redial and the one after it, are two pipes, which are read in either order. `up[n]` is the
present link of n; `Close` moves what a closed link had sent to `closed`, where `HubDrain` reads it, a frame
at a time, before or after anything on other links (of a closed link only what comes before its last PUBLISH
matters, and the answers go nowhere). A restart before the hub read all that the earlier process published
is a disturbance of its own, `hasty`: the old PUBLISH may come last, and then the old endpoint stays.

### ZreLink and the code

`peer[n][p]` is a `Peer`, or a placeholder, with the two ages that `_reap` compares and the two sequence
numbers; `emitted` is `_evasive_emit_at`, and `on` is `Peer.connected`. In one tick every node handles what
it got and reaps once, or sleeps: its application holds the event loop. `Announce` stands for a beacon or a
gossip tuple. To refresh a peer it costs nothing and may come at any time, as beacons do, or not at all, as
on connections that were dialled or came through gossip; to meet somebody by it is budgeted. A queue that
is full (`HWM` messages, those in the receiver's ROUTER included, so earlier than in the program) may refuse
a message at the expense of a budget (`WhisperCut`, `RecvPingCut`, the probes in `Reap`): EAGAIN
disconnects the peer, which stays in the table without being ready, nobody is told, and what was not
written is lost (`Cut`, `Written`). Dialling a second address of a peer is in `ZreDial` only. `status` and
`services` are the tables of `health_monitor.py` and `service_discovery.py`, `hush` is a history variable.
The applications take each event as it is emitted; the event queue, which may lag or drop one, is in
`ZreTransfer`.

### ZreTransfer and the code

Senders run `send_file`, the receiver `receive_loop` of `file_transfer.py`. `api` is `_api_queue`, without
limit as in the code; `pipe` and `inbox` are the two ends of a connection, with `HWM` places each; `events`
is `_event_queue` with `Room` places. `loop`, `flag` and `exit` are the run task, `_running` and the exit
code: they change apart, and the properties are about what happens when they do. `Collide` is the
collision path of `run()`.

### ZreBeacon and the code

An address is the set of its bits that are 1, so that `&` is intersection, `|` is union and the reversal of
the bytes of a printed mask moves bits. `RouteTable` is `/proc/net/route`, `Leaves` and `Reached` are what
the kernel does with a datagram: they are external. `LocalSubnets`, `InterfaceBroadcast` and `Build` are
the functions of `node.py` that make targets of them. `Readdress` is DHCP, or an interface that goes up
or down.

### The examples

`ZreGroup` is the mesh when nothing disturbs it. A command is executed in the step that gives it: the run
loop empties `_api_queue` before it looks at a socket and lets no other task run in between. Events are
taken later, by a task of the program. `ZreConfig` keeps what `asyncio.create_task` postpones (`tasks`),
`ZreTasks` the half second that a worker sleeps (`doing`), `ZreLock` the loop of `acquire` (`awaiting`).

## Runs

| run | question | size |
|---|---|---|
| `mesh_pair` | Two nodes, four commands, or one command with a stop and a crash: does every interleaving of beacons, HELLOs and commands end with both ready (`BothReady`), no command lost (`NeverDeaf`), one HELLO (`HelloFirst`), right views (`ViewAgrees`), and whoever left for good forgotten (`DepartedForgotten`)? | 17 thousand states, with fairness |
| `mesh_fault` | Do the tables stay consistent (`GroupIndex`, `AppView`), undisturbed sessions correct (`Handshake`) and the events, EXITs of peers never announced included, those of `Presence` (`EventsInOrder`) when a node stops, crashes, restarts, is silent, or has its queue full? | 990 thousand |
| `mesh_half_open` | `BothReady` with one silence. Violated, see below. | |
| `parts` | Nodes with several addresses each: are connections filed right (`DealerReachesPeer`), never dialled twice at one address (`NoDoubleDial`)? Do beacons reach the LANs of interfaces that did not change, and only that of one pinned by name (`SteadyReach`)? Or two programs: do settings converge (`Converged`) and never go back (`NoRollback`), and are tasks done once (`Served`)? | 2.9 million |
| `beacon_pinned` | `PinnedReach`: do beacons of a pinned node reach its LAN and no other in the end? Violated, see below. | depth 2, with fairness |
| `dial_pinned` | `DealerReachesPeer` where two nodes share a port. Violated, see below. | |
| `election` | One leader (`Agreement`), told to all (`Elected`), the lowest contestant (`LowestLeads`), and an end (`TwoFinish`)? Is every leader a member that contests (`NoPhantom`)? | 28 thousand, with fairness |
| `election_split` | `Agreement` of three contestants. Violated, see below. | depth 36 |
| `gossip` | Do tables converge (`TablesAgree`), on present endpoints (`HubFresh`), and do nodes meet (`Meet`), while the hub reads closed links late? | 431 thousand, with fairness |
| `link` | Are gaps reported only where the code explains them (`GapsExplained`), nobody who answers given up (`Patience`), a silence reported once (`Episodes`), the tables of applications right (`AppsRight`), also when a full queue cuts a connection? Are both of a pair ready or neither, once announcements end (`Resolved`)? | 482 thousand, with fairness |
| `transfer` | Is a file whole or cut at its end (`Whole`), does it arrive (`Delivered`), is a collision reported (`Reported`)? | 216 thousand, with fairness |
| `lock_exclusion` | `Exclusive`: one holder. Violated, see below. | depth 14 |

Bounds. `Bound` and `spent` budget what the environment does; what the code does by itself (beacons,
messages, expiry, resends when all is quiet) has no bound.

- Mesh. Two nodes make every interleaving of one session; for more nodes `ViewAgrees` and the other
  safety properties are proved. One group is enough, as handlers treat groups one by one (the proofs
  have any number). Four commands let each node join and leave around the handshake, or one node join,
  leave, join and shout. Three boots (`mesh_fault`) are both nodes' start and a restart under the same
  uuid, with the old session still in the peer's tables and queues. `HWM` = 2 in `mesh_fault` is the
  smallest with which a HELLO and a command fit and the next command fails; it is 9, never reached, in
  the other mesh runs.
- Addresses. Three nodes with two, two and one addresses and a dead address; a card with a /24 or a /20
  lease, a bridge with a /24 or a /16, a /32 tunnel, lo, a route over a gateway that is wider than the
  card's network; no pin, two names, lo, and two addresses, one or none of which the host has at a time.
- Elections. Two contestants with one late join, one leave, one departure and one early resend; three
  members of which one contests, with one late join, so that waves pass through nodes that do not
  contest. Three contestants are `election_split`.
- Gossip. Two nodes, a hub of its own or inside one of them; each of nine disturbances once, two in all,
  which lets every pair of them meet, a stop or crash and the restart after it among them.
- Link. `EV` = 1, `EX` = 3, `IV` = 3 ticks for 5, 30 and 20 s: the smallest with EV < EX between which there
  is a tick to answer in. Numbers wrap at 4 instead of 2^16. A queue may be full from one message on (`HWM` =
  1). Two environment steps of any kinds; three (`Within`), where a connection is slept through twice, one
  more than `Slack`, or a dial and an announcement make an adoption or a second meeting with anything but a
  full queue besides. (All combinations of three, 1.7 million states with symmetry, satisfy the safety
  properties.)
- Transfer. Two chunks, queues of two and an event queue of one place: each limit is reached by one file.
- Apps. Three nodes of which one sets two versions, so that the third learns them of either of two; two
  nodes that both set; two tasks and two workers, one of which may come between them. Lock: two nodes.

`CHECK_DEADLOCK FALSE` stands where everything may come to rest: `mesh_pair` (all nodes down, budget
spent), the elections (all settled), `gossip` and `transfer` (all nodes ended), `parts` and
`lock_exclusion` (all events handled).

Fairness, and what justifies it. The run loop polls again after every message, so a queued message is
handled (weak fairness of `Receive`); it beacons every interval; the reaper runs every second; `stop()`
goes on to its end. Beacons are strongly fair in `ZreMesh`, as one may be lost whenever one is on its way,
but not every one of infinitely many; a port-0 beacon is heard or lost. A cut ends (`Resume`); a partition
for ever is out of the question of liveness. `ZreElection`: messages, beacons, removals and the resend
that `_maintain_elections` makes every two seconds. `ZreGossip`: the hub and the links handle frames,
a link is redialled while the hub is down, and the hub is started again; messages and expiry between
nodes; what closed links left is read. `ZreBeacon`: a beacon is sent every second. `ZreLink`: each node
handles messages and reaps, and time goes on with nobody asleep. `ZreTransfer`:
commands, frames and events are taken, and a program whose run task raised comes to its end. Nothing is
assumed of applications otherwise, of boots, crashes, silences, beacons in `ZreLink`, or of two nodes
meeting in `ZreTransfer`.

## Findings

`mesh_half_open`. One node (A) is silent towards B longer than the timeout, for B alone. B expires
A. When A is heard again B finds its beacon, dials and greets it. A still holds B ready: it
refreshes the entry and does not answer (`node.py:2062-2069`). B never gets a HELLO, so A is never
ready at B, and all A sends to B is dropped at `node.py:1941`; A meanwhile is kept alive in B's
table by its beacons. `docs/PROTOCOL.md:63` says that HELLO is answered so that both sides reach
readiness. Only a departure, or a silence the other way round, ends it.

`dial_pinned`. `connect_peer` to one of two nodes that pin the same port, then a beacon of the
other: `_adopt_pending` takes the placeholder on its port alone and files it under the wrong uuid
(`node.py:1087-1096`). The docstring of `_do_connect` (`node.py:1040-1042`) says the placeholder
is re-keyed by the real uuid. The fallback is there for a host that is announced under another
address.

`beacon_pinned`. A pin by address has no netmask (`_interface_broadcast` asks for that of a name), so the
fallback is taken and beacons go to all subnets of the host (`node.py:1754-1757`), for ever.
`docs/PROTOCOL.md:18-19` says that only the pinned interface's is used, and the comment at `node.py:1753`
speaks of a single, deliberate destination. `PinnedReach` fails in other ways too, which TLC shows when only a
name may be pinned. The interface gets another address: every `sendto` of the bound socket fails, each
failure is suppressed at its target (`node.py:1773-1774`), the reset at 1777 is not reached, and no beacon is
sent any more, where the comment at `node.py:534-535` says "rebuilt on send failure". Or it has no address
yet at the first beacon: the pin then counts as none.

`election_split`. Three contestants that nothing disturbs. Each HELLO that lists the group makes its receiver
start over (`node.py:2154`, `_start_election`), and messages name a challenger and no election, so that
ELECT and LEADER messages of a wave that was thrown away, and those `_maintain_elections` sends again,
count towards the next (`node.py:1195`, `1255`). A member that has counted enough closes its election with
the leader of that moment and takes no LEADER any more (`node.py:1249`). The run ends with the
members told 1, 2 and 1. `examples/leader_election.py:2` says exactly one coordinator wins.

`lock_exclusion`. A node that takes a LOCK_REQUEST adds the requester to its own votes
(`distributed_lock.py:134-135`). The grant goes to `requester_id`, the program's name, where `_do_whisper`
expects a uuid (`node.py:1645-1650`), and arrives nowhere. When two requests cross, each node counts
itself and the other's request, which is the majority of two, and both hold the lock;
`distributed_lock.py:3` says mutual exclusion.

Smaller things met on the way, which the modules show as the code does them:

- Addresses. A node without a pin keeps its first targets for ever: an interface that gets its address later
  gets no beacon. `SteadyReach` states what remains true. `connect_peer` to another address of a peer that is
  connected opens a second DEALER with the same identity, as `_do_connect` compares addresses
  (`node.py:1047`); the far ROUTER hands the route over to it (`node.py:815`), and it expires, as nobody
  answers its HELLO. `tests/test_wan.py:138` calls a second connect idempotent and tries the same address.
- Elections. With three members an election may stay open for ever though it is sent again, which is not
  what the docstring of `_maintain_elections` says; with two, if one leaves while it is open and comes back.
  Elections that members outside the contest take part in stay open. Two contestants that both leave and
  join again may be told different leaders. A late JOIN of a lower id does not win; who LEAVEs and stays
  connected stays leader; a late joiner that is the only contestant starts no election
  (`docs/ARCHITECTURE.md:58-62`).
- Mesh. EXIT is emitted for entries that never were ready; an application that pairs it with an ENTER has to
  look the peer up. A peer that EAGAIN disconnected is not ready any more and gets no EXIT: the registry of
  `service_discovery.py` keeps it (`AppsRight` says so) until it expires or departs.
- Gossip. A hub that restarts within 5 s gets no HELLO from links that ZeroMQ reconnects, and never learns
  their tuples, nor they its own, where `docs/PROTOCOL.md:93-94` says HELLO on connect, answered by a
  snapshot: so `Seamless`. A node that restarts under its uuid while the hub has still to read what the
  earlier process published may be left in the table with its old endpoint. A link that is redialled announces
  learned tuples too, so an old endpoint may replace a new one, even in the table of its owner. A node that
  comes back under its uuid before it expired, or a partition that ends, is not dialled again, as equal tuples
  are ignored: so `Meet` leaves out both.
- Link. The first command after the HELLO of a new peer is reported as a gap (`want_seq` is reset only where
  there is an entry, `node.py:1936`; the comment before it says otherwise). A HELLO that completes a known
  peer does not refresh its timers. EVASIVE is emitted for entries that never were ready. An idle peer stays
  "evasive" in `health_monitor.py` though it answers every PING. After a stall the reaper may run before the
  messages that wait; where beacons go on, the pair then stays half-open (`mesh_half_open`), which is why
  `Resolved` has the end of announcements for a premise.
- Transfer. EAGAIN ends a connection for good, so a file larger than the queues is cut without a word. Two
  senders write to one open file. A port-0 beacon overtakes frames. COLLISION may find the queue full; that
  the run task is awaited still ends the program with code 3.
- Examples. With two writers of a setting "last-writer-wins" does not hold: equal versions leave each node
  its own value, a higher version wins whenever it was set. A task shouted to a peer that is not yet a
  member is lost and stays pending. A LOCK_RELEASE of another node marks a lock free that a node holds
  itself.

## Proofs

TLAPS proves the following for every value of the constants that the named assumptions allow; TLC evaluates
the assumptions in each run. The inductive invariants stand at the end of the modules they are about, where
they can be put into a .cfg; they hold on the instances of the runs.

| module | theorem | says |
|---|---|---|
| `ZreMeshProofs` | `TypeCorrect`, `GroupIndexHolds`, `AppViewHolds` | types and tables, under any failure |
| | `HandshakeCorrect`, `NeverDeafHolds`, `HelloFirstHolds` | undisturbed pairs greet once, first, and are heard |
| `ZreViewProofs` | `ViewAgreesHolds` | undisturbed pairs agree on groups, up to what is on its way |
| | `PresenceImplemented` | `ZreMesh` implements `Presence` |
| `ZreAddressProofs` | `TypeCorrect`, `DealerReachesPeerHolds`, `NoDoubleDialHolds` | dialling |
| | `SteadyReachHolds` | beacons reach the LANs of interfaces that did not change, with no pin or one by name |
| `ZreElectionProofs` | `TypesHold`, `NoPhantomHolds` | a leader contests the group and has joined it |
| | `ElectedHolds` | any number of contestants: each one of a settled group is told of a leader |
| | `OneContestantLeads`, `TwoAgree` | `Agreement` and `LowestLeads` with one contestant, or two nodes |
| `ZreGossipProofs` | `TypesHold`, `TablesAgreeHolds`, `HubFreshHolds` | the clients come to the hub's table, and the table to the truth |
| `ZreLinkProofs` | `TypesHold`, `AppsRightHolds`, `EpisodesHold` | the tables of the programs, and that a silence is reported once |
| | `GapsExplainedHolds`, `PatienceHolds` | sequence numbers; who answers is not removed |
| `ZreTransferProofs` | `WholeHolds` | what arrives of a file is its beginning |
| `ZreAppsProofs` | `NoRollbackHolds`, `ConvergedHolds`, `ServedHolds` | settings and tasks |

Assumptions. Budgets are numbers and sets of nodes, where one is announced to or counted, are finite
(`BoundAssumption`, `NodeAssumption`, `FiniteAssumption`); a value that stands for none is not one of the
others (`NoneAssumption`, `NobodyAssumption`, `PartAssumption`). Queues and files have a size
(`HWMAssumption`, `SizeAssumption`). In `ZreLink` the evasive timeout is shorter than the expired one
(`TimeAssumption`), and numbers do not wrap within three messages (`WidthAssumption`). In `ZreDial`
addresses are announced truthfully (`AnnouncedAssumption`). In `ZreBeacon` a lease is of a unicast address
(`LeaseAssumption`: the network is neither 0 nor all ones, and 127/8 for lo alone), lo has 127.0.0.1/8
(`LoAssumption`), and no interface is named like an address (`NameAssumption`).

### The mesh

`Tables` is inductive given types and gives `GroupIndex` and `AppView`; `OwnStep` does the node that acts and
`OthersStep` all others. The session properties need more: `Handshake` adds that `torn` is symmetric and that
every pair not torn satisfies `Session`. While a node of the pair is not up, the pair is `Unmet`: no entry,
nothing queued, and no beacon of a node that never ran; that is what a restart has to find before it may count
as undisturbed. While both are up it is `Greeted`, which ties the queue to both tables: n's queue to p is empty
until n has p in its table, is led by HELLO exactly until p is ready for n, and has no other HELLO. `NeverDeaf`
and `HelloFirst` speak of the head and the HELLOs of a queue and are not inductive, as neither says why the
queue of an unknown peer is empty; they follow from `Greeted` at once.

`ViewAgrees` is inductive given `Handshake`. Two facts carry it: the queue was empty when the HELLO with all
own groups was put on it, and the receiver has no group listed for the sender until it handles that HELLO. From
there each command is appended for every undisturbed peer (`PostAgrees`) and each message taken makes the view
what it says (`ConsumeAgrees`).

`PresenceImplemented` shows step by step that an action of `ZreMesh` is one of `Presence` or changes nothing
that the application sees. It needs `Tables` (who is announced or in a group is in the table, so that the
`Exit` of an entry takes everything of it along) and `DownBare`: a node that is down has no peer in a group,
so that nothing is left for its next start to present.

### Addresses

`DealerReachesPeer` is proved under `PortsIdentify` (addresses with one port belong to one node); without it
`dial_pinned` refutes it. `SteadyReach` is about what the host had when the targets were built: `Placed` says
that this was a lease, and `Aimed` which targets were made of it.

### Elections

With three contestants two leaders may be announced (`election_split`), but no leader is made up. `NoPhantom`
is not inductive, as LEADER is told by a message, an open election, or the loss of the last neighbour.
`Links` says of every message on its way that ELECT and LEADER go from a member to a member and name a
candidate, and that whoever says JOIN or lists the group in HELLO has joined; `Ballots` that an open election
is a member's, supports a candidate and has a member for its father; `Tables` that who is in `Group.peers`
has joined. The case that needs most of it is `_restart_election_if_needed` (`node.py:1287-1289`), which lets a
node win without asking whether it is in the group: it is, since it has an election open and elections
only reach members. "Has joined" stands for nobody having left (`Joined`): who leaves while an election is
open may still win it.

`Elected` is about a settled group, and holds since whoever should be told is awake at any moment before, or
will be woken (`Waking`). A node is `Awake` if it has an election open or was told a leader: the one ends
only in the other, which stays. `Wakes`: a contestant has asked its neighbour, or will when it hears of it, unless
that one contests too and will hear of the contestant; `Stirs`: in a calm group a contestant that hears of
anybody stands. `Met` carries both through the handshake: a HELLO that was not handled yet is the first thing
the other will hear, so what it says of the group is what the waves behind it find. In a settled group nothing
is on its way and no election is open, so that each was told. It holds for any number of contestants, those
that leave, come back or depart included.

Who leads is another matter: `election_split` refutes `Agreement` for three contestants that nothing disturbs.
With one contestant (`OneContestantLeads`, any number of members) there is nobody else to name. With two nodes
(`TwoAgree`) `Duo` says which of four ways things went, of the lower node a and the higher b: nobody stands
(`Idle`); b stands, and a will hear of b before it hears of that (`Waits`); a leads or will (`LowerLeads`); b
leads or will, as a joined late and had heard of b before (`HigherLeads`). From the first they go to one of
the others, from the second to the third, and stay. What makes `LowerLeads` hold is that b's votes for
itself always find a's election open: b counts no answer to them, and none is behind a LEADER of a (`Opposes`,
`Never`), so they cannot start an election anew that a closed. All of it rests on each node announcing itself
once and before its waves (`Heard`), which is over when somebody leaves: two contestants that both leave and
join again may be told different leaders, since waves of their first membership count in the second.

### Gossip

`TablesAgree` and `HubFresh` say something only when nothing is on its way, so they are far from inductive.
`Following` says it of any moment: what a client has for a key becomes the hub's value when it has handled
the frames in its queue (`Becomes`: the last of them that tells of the key has that value, or there is none
and it has it already), or the hub has nothing and the client is about to tell it. That is kept by a
broadcast, which is put behind the rest for all clients alike, and by the answer to HELLO, if nothing the
hub has is missing in it and nothing later is ahead of it. Hence `Joining`: a link that the hub has not seen
is led by a HELLO, has no tuple on its way to it, and announces all that its node has. A hub that comes back
behind a link finds one that neither joins nor follows; `Greeted` says that under `Seamless` there is none.
`Original` does the same for `HubFresh`: each node tells of nothing but itself, and what it tells is its
present endpoint or it is gone; no INVALID is on its way, which would make it tell all it knows; a node that
runs is in the table or about to tell; and no closed link still tells of a node that runs, as no restart was
hasty (`Haunted`). `TablesAgree` needs nothing of the kind: what the hub reads last, old or new, it tells
everybody. `Linked` has what these rest on: which links are empty, and who is a client of what hub.

The premise of `HubFresh` that concerns tuples deleted at the hub was found here: `gossip_unpublish` of the
hosting node deletes the tuple of a node that runs (`node.py:689-698`), and no node announces again.

### Link

`GapsExplained` is an action property: its step compares a number that arrives with one that is expected.
`InSequence` ties the two: `Numbered` says of each queue that, HELLOs apart, each message has the number
after that of the one before it, that the last one has the sender's own count, and that the first one is the
receiver's next or one of those that are explained (`Fits`). It says so while the sender is connected; a
connection that a full queue cut off leaves the beginning of such a queue. `Apart` keeps sessions from
mixing: nothing is left of a peer that was removed, and nobody writes to itself. `AppsRight` needs
`Unheard`: no program was told of a placeholder. What one `_reap` does to each peer is taken apart first: it
is removed, probed, cut off, or left as it is (`ReapDoes`). `Episodes` rests on `hush` = `emitted`: the
history variable and the code's throttle count the same ticks down.

`Patience` holds for time that the model counts. `Kept` says, while nobody departed, no queue was full and
no more than `Slack` ticks were slept through: an entry is never older than the evasive timeout, one tick,
and the ticks slept through (`Timed`); whoever is older than the evasive timeout and was not heard since has
a PING on its way, or the answer to it is (`Probing`); and whoever has an entry of the other has greeted it
(`Greeted`), so that the PING is not dropped as one of a stranger.

### Transfer

A file is whole because the line from the sender's `_api_queue` over the two ends of the connection is
numbered without a hole (`Seamless`), as a closed connection never opens again, and because what the
program read, what waits in its event queue and what comes next follow each other: `Progress` up to r,
`Waiting` from r to t, `Resumes` at t. `Greeting` says why nothing is ahead of the HELLO without which all else
is dropped.

### Examples

`NoRollback` and `Converged`: `Honest` says of every update that is scheduled, on its way or queued that its
source is as far itself and that it claims nothing a sole writer did not set; `Behind` follows. `AllCovered`
is what convergence rests on: whoever lacks a version is offered it, by a message on its way, a task that is
scheduled or a HELLO that will schedule one. `Served`: of the tasks shouted, a worker took those up to a, has
those up to b in its event queue and the rest on its way (`InOrder`, with `Carries` for each part), and a
result that is due is being made or on its way (`Reporting`).

### Only model-checked

- The liveness properties (`BothReady`, `DepartedForgotten`, `TwoFinish`, `Meet`, `Resolved`, `Delivered`,
  `Reported`), as they need fairness.
- `ZreElection`. `Agreement` where somebody of two left the group, or departed from three nodes of which two
  contest, and `LowestLeads` of two contestants among more nodes. For three contestants and for two that both
  left and came back there is nothing to prove: `Agreement` does not hold.
- The runs that expect a violation show a counterexample and need no proof.


## Not modelled

- Headers, names, the status byte and Curve keys (they decide whether a dial is made), ZAP, IPv6, the
  endpoint that HELLO names, setters, logging. The setters do not make sure that the evasive timeout is
  shorter than the expired one; the models assume it.
- A dial that fails at once (`Peer.connect` returns False): the address of a beacon or HELLO is well-formed.
- The codecs, and malformed frames: a message is what `decode` returns of what `encode` made.
- At the hub: tuples with a ttl and their reaping (no node publishes one), INVALID sent to it, routing ids
  of links that were replaced.
- `stop()` while the run loop goes on, as when a program does not await it; the programs of the repository
  all end the loop first.
- JOIN and LEAVE in `health_monitor.py`; the end of the coordinator; an `acquire` without peers after five
  seconds. The other examples keep no state that depends on the order of events, or repeat these.
- The test suite, the interoperability peer in C and the scripts for other machines.

## Plan

1. Elections of two contestants among more nodes: `TwoAgree` with members that only pass waves on.
2. `Exclusive` of two nodes whose requests do not cross, with the votes that are counted on the wrong side.
3. The codecs, as functions from frames to messages: total, and `decode` after `encode` the identity.
4. Tuples with a ttl, for hubs that other programs publish to.

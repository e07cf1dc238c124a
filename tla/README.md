# A TLA+ model of the SmartEdge swarm control plane

This directory holds TLA+ modules that model the control plane of the
SmartEdge swarm, TLC configurations that check them on small instances, and
theorems that TLAPS proves for every value of the constants. All
paths below are relative to `src/`.

- [The system](#the-system): its parts, their state, how they interact
- [The modules](#the-modules): which module models what
- [The runs](#the-runs): what each shows, its bounds, fairness
- [Disagreements found](#disagreements-found)
- [The proofs](#the-proofs)
- [What is not modelled](#what-is-not-modelled)
- [Plan](#plan)

## The system

A smart node joins the WiFi of an access point (AP). Each AP runs an *AP
manager* next to a bmv2 (or nikss) switch. A new station gets a vxlan tunnel to
its AP and is put in swarm 0, a holding network. An *adaptive coordinator*
(outside of this repository) asks the *coordinator* over TCP to make nodes join
the swarm or leave it. The programs share two Cassandra tables: the address
resolution table (ART: node -> AP, swarm, address, switch port) and the
Swarm_Table (node -> host id, AP). Members run a heartbeat client that proves
their liveness to a heartbeat server with a Winternitz hash chain.

| Component | Code | State | Operations |
|---|---|---|---|
| Coordinator | `coordinator/coordinator.py` | locals of the one connection it serves: tasks, batch of host ids, list for the answer | join (`njl`), leave (`nll`), on- and offboarding tasks |
| Database layer | `lib/database_comms.py`, `lib/db/` | ART, Swarm_Table | insert, update, delete, next host id, batch of host ids, reset at start |
| AP manager | `ap_manager/ap_manager.py` | `connected_stations`, vxlan interfaces, `previous_line` | new station, lost station, start |
| Node manager | `node_manager/node_manager.py` | interface configuration, heartbeat process | SET_CONFIG, UPDAET_CONFIG (so spelled), go_away |
| Heartbeat server | `coordinator/heartbeat_server.py` | `STATE` cache, tables `node_keys`, `heartbeat_state` | registration, datagram, timeout monitor, `preload_cache` |
| Heartbeat client | `node_manager/heartbeat/heartbeat_client.py` | hash chain, next index | register, send, stop |
| Heartbeat supervisor | `node_manager/heartbeat/heartbeat_monitor.py`, `start_winternitz.py` | state file, child process, key files | start, stop, watch |
| Switch control | `lib/bmv2_thrift_lib.py` | broadcast ports and forwarding entries in the switch; one captured output buffer | add/remove entries, add/remove broadcast port |
| Discovery | `lib/node_discovery.py` | `known_aps`, `known_coordinators` | announce, listen |
| GUI backend | `GUI/backend/*.py` | log clients, ring of log lines, heartbeat server process | stream logs, snapshots, join/leave, start/stop heartbeat server |
| GUI frontend | `GUI/frontend/` | rendering only | |
| Data plane | `p4app/` | tables the control plane fills | |
| Launcher, configuration | `run.py`, `lib/global_config.py`, ... | none that outlives a call | |

**Interaction.** The AP managers and the coordinator never talk to each other:
they meet in the two tables, in the switches (the coordinator programs the
switch of every AP over thrift, each AP manager that of every AP it has
discovered) and at the node's TCP port, which accepts one connection at a time.
Nothing locks the tables; the statements of two handlers interleave freely.
Between the heartbeat server's threads there is one lock, held for single cache
accesses and, by the timeout monitor, over a whole round.

**What is hard.** The list with source lines is in `PROJECT.json` under
"hazards"; in short:

- *Two handlers, one node.* A station that roams yields `del` on one AP and
  `new` on another, handled in either order while a join of the same node may be
  under way. What a handler decided from one read of the ART it writes several
  statements, a TCP round trip or a grace period of five seconds later.
- *Ids that are reused.* Host ids and vxlan ids (which are the switch ports) are
  allotted by "least one not in use", from a list read before the row is
  written; a row, a forwarding entry or a broadcast port of the previous holder
  may still exist.
- *Half-done work.* A join writes two tables and several switches; one task of a
  batch may fail and the others go on; an AP manager dies of an uncaught
  exception or is restarted between two steps.
- *Messages and timeouts.* The AP gives up on a configuration after ten seconds,
  while the message waits in the node's accept queue and is installed later.
- *Heartbeats.* A thread per datagram reads, checks and saves without
  a lock around the three; the monitor decides on a time stamp that is about to
  be replaced; database and cache are written one after the other.

**What makes it correct.** Host ids are unique; the two tables agree about a
node; the port in the ART is that of the node's own tunnel; registered nodes are
forwarded to by every switch; an answer lists only nodes that did join; a node
that has gone is forgotten; every request ends. For the heartbeat: an index is
accepted once, a fresh heartbeat is not overruled, silence is noticed.

## The modules

### SwarmMembership

Coordinator, AP managers, node managers and the two tables, composed in one
module because every interesting behaviour is an interleaving of theirs.

| Code | Module |
|---|---|
| ART, Swarm_Table | `art`, `swarmTable`: functions from nodes to a row or `None` |
| locals of `handle_new_connected_station`, `handle_disconnected_station` | `ap[a]`, a record whose `pc` is the place between two accesses to something shared |
| locals of `handle_ac_communication`, `onboard_node`, `offboard_node` | `co`: the tasks left (`todo`), those the answer will list (`avail`), whether one has raised (`failed`) |
| `connected_stations`, vxlan interfaces, `previous_line` | `connected`, `tunnel`, `lastLine` |
| lines of `iw event` | `events[a]`, in order |
| connections in the node's backlog | `inbox[n]`; `open` says that the sender still waits for `OK!` |
| forwarding table and broadcast group of each switch | `lpm`, `mcast` |
| what the node has installed | `node[n]`; `assoc[n]` is its radio |

A step ends at each access to a table, to a socket or to a switch that
another process programs too. Purely local work between two accesses is part of
the step that follows or precedes it. `mc_dump` and `mc_node_update` are two
steps; so are the deletions from the two tables. The gather of a request runs
its tasks one after the other, in the order in which the query returned the
rows: `onboard_node` suspends nowhere (its sockets and queries block, and the
lock it awaits is never taken), so the coroutines do not interleave. Uncaught exceptions are actions: `APManagerDies`
(no free vxlan or host id, AP not discovered), `TooFewHostIds` (IndexError: the
tasks created before it run all the same, and nobody is answered), `TaskFails` (KeyError or no connection), `StationMoved` (AttributeError or
TypeError, logged by the caller).

A restarted AP manager finds its old tunnels: `exit_handler`, which would delete
them, is registered only when `ap_manager.py` is the main program, and `run.py`
imports it.

Queries that fail (`MaxFailures` of them). `execute_query` turns every exception
into the answer -1, and what comes of it depends on who asked. The reads of
`handle_new_connected_station` raise on the number and end the AP manager
(`NewStationReadFails`); those of `handle_disconnected_station` are caught by the
handler, and the station stays (`LostStationReadFails`); the coordinator's are
logged and nobody is answered (`HostIdsReadFails`). Nobody looks at the answer
of a write: the handler goes on without its row (`RegisterInArtFails`,
`RegisterInSwarmFails`, `InsertSwarmRowFails`, `UpdateArtFails`) or with the row
it meant to delete (`DeleteFromArtFails`, `DeleteFromSwarmFails`). A write that
raises but took effect is the ordinary step.

Abstractions. A virtual address is the node itself (swarm 0) or the host id
(swarm 1), as the code derives the one from the other. The host ids are a range
`FirstHostId..MaxHostId` and the ports `1..MaxPort` (1..253 and 1..499 in the
code). A forwarding entry's value is a port, or an AP for "out to the
backbone, to that AP". MAC addresses, names and time stamps are left out: no
branch depends on them. `KnownAPs` stands for discovery having reached
its final result; a subset of `APs` makes the `KeyError` reachable.

The history variable `disturbed` collects the nodes that may be in a state the
code has no protection against: two handlers were at work on the node at the
same time; its handler stopped with one of its rows written (`CutShort`), or
went on without a row because a query failed (`Damage`); or the coordinator
restarted and dropped the node's Swarm_Table row. A node leaves the set (and
`healed` remembers that one did) when a handler that is alone with it takes it
out of both tables (`Cleared`), whatever was done to it before. For
disturbed nodes the consistency properties do fail. An example that TLC finds
when `UniqueHostIds` is stated for all nodes: a member roams from a1 to a2, a2
reads its ART row, a1's grace period ends and it deletes both rows, a2 finds no
Swarm_Table row and takes the least free host id, a batch of the coordinator
hands the same id to another node, and both rows are inserted. The properties
say what the code does guarantee: the nodes that are handled by one program at a
time, with queries that succeed, are kept consistent *whatever happens to the
others*, although the host ids, vxlan ids and switch tables are shared with the
disturbed ones; and a node that has been removed starts afresh.

### SwarmRoster

What the coordinator and the AP managers promise together: one list that says of
each node whether it is out, in the holding network of an AP, or a member with
a host id at an AP, changed by one step at a time (`Register`, `Join`, `Roam`,
`Remove`). `Join` takes an id that no member has. `Lose` gives up the promise
for some nodes, until they are removed. It is the abstract specification of
SwarmMembership, which keeps the list as follows (`Standing`):

| List | SwarmMembership |
|---|---|
| lost | the node is in `disturbed` |
| out | the ART has no row of it |
| member, with id and AP | the coordinator has sent it its address (`Told`: from `SendJoinConfig` on, before either row is written), or its ART row is of swarm 1; the AP is the ART's |
| holding, at an AP | any other ART row |

The Swarm_Table does not appear: that it says the same is `TablesAgree`. The
list forbids what no invariant of the tables does: two nodes told the same id
while neither has a row, a roaming member that comes out with another
id, a join whose row, built from an ART row read before the node moved, puts it
back at its old AP.

### HeartbeatServer

The server and one client (clients share nothing but the lock). `db` and `cache`
are the two copies of the client's state; `thread[t]`, `tcp` and `monitor` are
the threads with what they keep between two accesses. Time is the age of a
time stamp (`never`, `fresh`, `old`: older than HEARTBEAT_TIMEOUT). The network
is the highest index sent so far: any index up to it may arrive, again, late or
never. The hash chain is its index: the client is honest, keeps the chain it
finds on disk, and the check `H^i(w_i) = pk` then holds. The monitor holds the
lock over its round (`monitor.pc = "cache"` while it has written the database
and not yet the cache). A database write may raise, with or without effect
(`MaxFailures`); in the monitor that ends the thread. The history variable
`raced` records that a handler read the state while another was about to save;
a restart clears it, because the threads are gone and the cache is the database.

### HeartbeatRegistry

What the server promises to one client, as one copy of the client's state that
changes at once: `StoreKey`, `Accept`, `Reset`, `DeclareDead` (of a client that has
been silent, and of no other), `Age`. Only `Reload`, a restart of the server, does
more than one of these steps, and it alone changes `run`, the number of the run.
What it may find is listed by `Recovered`: the entry as it was, that and one more
save of the last run (a heartbeat, a reset, a verdict whose handler never got as
far as the cache), or the monitor's verdict written over the last heartbeats of an
alive client, at most two of them. After a race (`Race`; `clean` is false) an
index may be accepted or reset out of turn and a restart may find any entry; the
verdict still needs a silent client, and with the restart `clean` is true again.

The module is used twice: as the abstract specification that `HeartbeatServer`
implements (`ImplementsRegistry`, with the cache as the state and the restarts as
the run), and as the server of `NodeHeartbeat`, which neither races nor restarts.

### NodeHeartbeat

Who starts and stops heartbeats on a node, composed with HeartbeatRegistry. A
node runs one of two launchers, chosen in `Init`:

| Code | Module |
|---|---|
| `handle_communication` of the node manager, `start_heartbeat_service`, `stop_heartbeat_service` | `SetConfigOn`, `StopService`, `StopReturns`, `GoesDeaf`; `hb` is `hb_process` |
| `loop`, `handle_join`, `handle_leave` of `heartbeat_monitor.py` | `Prepare`, `StartChild`, `Leave`; `target` is the state file, `hb` and `runningFor` are `HB_PROC` and `RUNNING_FOR` |
| `heartbeat_client.py`, `send_heartbeat_loop` | `proc[x]`: `Load`, `WritePublicKey`, `SendKey`, `SendHeartbeat`, `EndOfLoop`, `SendFails` |
| key directory | `disk`: the chain and the public key are two files, written by two steps |
| registration over TCP | `HandleKey`, `CheckStatus`, `GiveUp`, `HandleLate`: the sender may give up before the server's handler is done, or before it begins |
| heartbeats over UDP | `sent`: the latest one, which may be lost or arrive late or twice |

`term` is the flag that SIGTERM leaves (`RUNNING = False`), which the client looks
at between heartbeats only; `stop_heartbeat_service` waits five seconds and
then forgets a process that is still registering. `orphan` marks the senders of
a launcher that was killed. The history variable `overtaken` records a
registration handled after its sender had given up, or the end of a launcher.

### SwitchControl

Discovery and the switch library, composed because they share three things
inside a program: the dictionary of known APs, the global tables of the P4
program (`reset_config` of `runtime_CLI.py`), and the captured output.

| Code | Module |
|---|---|
| `discover_nodes` (listener thread) | `Hear`, `Store`, `ConnectFails`, `OtherDatagram` on `order`, `conn`, `schema` |
| `add_bmv2_swarm_broadcast_port`, `delete_bmv2_swarm_broadcast_port` | `StartPortCall`, `MCDump`, `ParseDump`, `MCUpdate`: two remote calls with a textual answer in between |
| `add_entry_to_bmv2`, `delete_forwarding_entry_from_bmv2` | `StartEntryCall`, `Find`, `WriteEntry`: look up, then change by handle |
| loops over `get_aps_dict().items()` | `StartLoop`, `LoopStep`: each `next()` compares the size of the dictionary |
| `initialize_program` of the AP manager | `ResetState`, `CreateGroup` (group, then node) |
| restarts | `RestartManager`, `RestartCoordinator`, `RestartSwitch`; `boot` tells a stale connection from a good one |

Here the steps are single thrift commands, which SwarmMembership takes
as one. The history variables `ports` and `entries` say what the commands
that were carried out asked for, `mixed` and `mixedKeys` where two calls
overlapped, or a reset overtook one.

### GuiBackend

One asyncio loop; a step is what runs between two awaits that may suspend. A
lock is the queue of the tasks that asked for it.

| Code | Module |
|---|---|
| `handle_tcp_client`, `add_log_entry`, `send_log_to_websocket` | `Arrive`, `StoreEntry`, `SendEntry` |
| `websocket_log_stream` | `OpenLogPage`, `Activate`, `ReplayEntry`, `ReplayFails`, `ReplayEnds`, `NoticeLogPage`, `LeaveLogPage` |
| `trigger_db_update`, `fetch_and_broadcast_data`, `websocket_handler` | `Trigger`, `Broadcast`, `BroadcastEnds`, `OpenDbPage`, `Register`, `LeaveDbPage` |
| `heartbeat_api.py`: tail of the log, `websocket_endpoint` | `ReadLine`, `Dispatch`, `Prune`, `Subscribe`, ... |
| `start_heartbeat_server`, `stop_heartbeat_server` | `StartServer`, `StopServer`, `ServerEnds` |

A page is lost ("down") before its handler notices, so sends to it fail or are
swallowed. An entry is sent in two forms: live it is wrapped in a message of type
`log` (`Live`), in a replay it is sent as it is stored, with its own type (`Raw`).
The frontend discards whatever is not of type `log`
(`GUI/frontend/js/websocket.js:65`), so it shows only what is sent live (`ShownBy`).
`missed` is a history variable: the entries that had been sent before a page became
the active one. `heartbeat_api`'s routes are included before those of
`coordinator_log_server`, and its start and stop are the ones that answer. A start
that finds no server, or whose `pgrep` raises or returns an error
(`GUI/backend/heartbeat_api.py:186-199`), starts one, also beside one that is not
tracked: there may be several.

### MCSwarmMembership and the proof modules

MCSwarmMembership defines the symmetry set of the membership runs; the other
specifications have no need of one and their configurations name them directly.
The eight modules ending in `Proofs` are described below. Definitions
marked "Mistake:" are plausible bugs (used as mutants, see `PROJECT.json`); no
action refers to them.

## The runs

| Run | Instance | Distinct states | Question |
|---|---|---|---|
| MCOneAP | 2 nodes, 1 AP, host ids 1..3, 3 moves, 2 requests, 1 restart, 1 failed query, 4 of these together | 1.1 M | do tables, ids, ports and entries stay consistent, and behave as one list, when joins, leaves, losses of the station and a restart meet at one AP |
| MCRoaming | 2 nodes, 2 APs, host ids 1..3, 3 moves, 1 request, 1 failed query, 4 of these together | 1.1 M | the same while nodes roam between APs and a query fails |
| MCEventually | 1 node, 3 APs of which one undiscovered, 3 moves, 1 request, 1 failed query, 4 of these together | 0.2 M | does every request end; is a node that has gone forgotten |
| MCHeartbeat | 2 datagram threads, chain of 3, 2 sessions, 1 restart, 1 failed write | 1.0 M | indices, verdicts, silence |
| MCSwitch | 2 switches, one AP manager and the coordinator, 2 calls, 1 restart or failure | 1.3 M | are ports and entries what was asked for; are loops complete; is every AP discovered |
| MCNodeHeartbeat | 2 processes, 4 keys, chain of 3, 1 mishap | 0.9 M | who sends, of which chain, and is a joined node alive |
| MCGui | 2 log pages, 1 table page, 2 heartbeat pages, 2 connections, 2 triggers, 5 outside events | 1.1 M | is nothing lost, sent twice or out of order; does the active page show what is sent |
| MCSkipped, MCUpdaet, MCLeaveFullPool, MCKicked, MCMonotonic | the smallest instance that shows it | | a statement of the repository that the code does not keep |

*Properties of SwarmMembership.* `UniqueHostIds`; `TablesAgree` (between
handlers a node has a Swarm_Table row exactly if the ART has it in the swarm,
with the same address and AP); `ArtPortIsTheTunnels` (the ART's port is the id
of the node's own tunnel and of no other's); `RegisteredIsForwarded` (every known
AP's switch forwards a registered node's address, stale entries included, and never
to an AP the node has left; only as long as nothing was ever disturbed and no switch reset, since the entries a
disturbed node leaves behind are never cleaned up);
`AnsweredAreMembers` (an answer to a join lists nodes both tables hold, although
they are listed before either is written); `ImplementsRoster` (all programs
together implement SwarmRoster); `RequestsEnd`; `DepartedNodeIsForgotten`.

*Properties of HeartbeatServer.* `GoesForward` (the index goes back only by a
re-registration of a dead client; a restart forgets at most two heartbeats, of a
client it then holds dead, or completes such a registration),
`FreshHeartbeatStands`, `SilenceIsNoticed`, `ImplementsRegistry` (the server with
its threads, lock and two copies refines the registry).

*Properties of SwitchControl.* `PortsStand`, `EntriesStand` (unless two calls
overlap, group and entry are what the last command carried out made them,
whatever the listener does to the tables the commands are parsed with);
`LoopIsComplete` (a loop over the live dictionary visits every AP known at its
end, or raises); `AnnouncedIsDiscovered` (each AP that stays up is known with its
current run by every listener that has not ended).

*Properties of NodeHeartbeat.* `StoppedSendsNothing`, `SenderIsVerified` (what is
sent is of the chain whose key the server holds), `NeverLockedOut` (under a
supervisor a joined node is alive again and again, although each new chain
begins at an index the server may be far ahead of).

*Properties of GuiBackend.* Of the one active log page: `ActiveMissesNothing` (it is
sent every entry the buffer holds, live or in the replay, none falls between
the two), `ActiveShowsWhatIsSent` (it shows, from the moment it becomes active,
every Console and Metric entry sent, also during its replay),
`ReplacedOnlyByNewer`. `EntriesGetThrough` (no lock is held for ever),
`SnapshotsInOrder`, `EachLineOnce`.

*Bounds.* A move is an association, a loss or a spurious detection. Three moves
are the least for a node to be registered, lost and back, or to be on one AP and
then on the other with both handlers at work; the second node takes its
moves from the same bound, so each trace has either a full roam or two nodes.
Two requests allow a leave or a join that follows a join. With an empty table the
batch has the ids `FirstHostId..MaxHostId-1`, so three host ids are the least with
which a batch of two nodes is joined; a request that both leave again then finds one
id left, and its second task none. Two ports make both nodes compete for the least one and exhaust the range.
`MaxEvents` bounds moves, requests, restarts and failures together, so that
each of them can happen, but not all in one trace. Two nodes that register, are
joined in one batch and one of which roams or leaves are four. One failed query
is enough to damage a node and see the other kept consistent.

MCOneAP was also run with two moves, two requests, one restart and no `MaxEvents`
(4.3 M states, three and a half minutes); the membership invariants and
`ImplementsRoster` also with three APs of which one is undiscovered, two nodes,
two moves, one request, one restart, one failed query and `MaxEvents` 3 (0.8 M states, one
minute), where a task of a batch of two raises `KeyError`: the same results. In MCHeartbeat a chain of 3 is the least
in which one heartbeat can be skipped and another still be overtaken; two
threads, because a race is between two handlers; two sessions for the
re-registration of a dead client. MCSwitch: two calls, because the hazards are
between one call and another, a reset or the listener, and one mishap for each
of those to happen; two ports, as the node of a group needs one; a second AP so
that a loop has something to visit and something to miss. MCNodeHeartbeat: a
process and an orphan, or a client and its successor; among four keys a
new chain always finds an unused one; a chain of three lets it run out
after a heartbeat was skipped. MCGui: opening two pages, an
entry, its loss and a page closed are five events; buffer and history of two
overflow with three entries; the streams share the bound but neither locks nor
data, so they need not all go far in one trace.

*Symmetry.* MCOneAP and MCRoaming permute the nodes and the
APs: no definition distinguishes them. The runs
with liveness properties use none.

*Deadlock* is not checked: when the bounds are used up and the handlers are
done the system is at rest.

*Fairness.* Weak fairness on each AP manager's handler, on the coordinator's
handler and on each node manager: each is a thread that runs until it blocks,
and every blocking call has a timeout or an alternative in the model
(`ConfigTimeout`, `ArpMiss`, `TaskFails`), but for one: the coordinator reads the
request of the adaptive coordinator with no timeout, and a peer that connects and
sends nothing keeps it for ever. `RequestsEnd` begins when the request is read. Nothing is assumed of the radio, the
adaptive coordinator or restarts. For the heartbeat: the server's threads and
the clock; nothing of the client or the network. SwitchControl: the listener
goes on (weak), and one of the current announcements, sent every few seconds as
long as the AP runs, arrives at last (strong, `HearCurrent`: a listener that is
busy cannot hear). NodeHeartbeat: processes, launcher, server and clock (weak);
a registration and a heartbeat that are tried again and again succeed at last
(strong). GuiBackend: the loop runs the tasks of the log stream (weak).

## Disagreements found

- **MCSkipped** (`ap_manager/ap_manager.py:328`): `connected_stations` keeps the
  entry of a station that moved to another AP (line 537 returns, line 554 raises
  before the `del` of 557). When the station comes back it is skipped as "already
  connected and set up" and stays unregistered.
- **MCUpdaet** (`ap_manager/ap_manager.py:476`): a member's roam is announced with the
  type `UPDAET_CONFIG`, which no branch of the node manager matches; it answers
  `OK!` and its tunnel still leads to the old AP.
- **MCLeaveFullPool** (`coordinator/coordinator.py:486`): a leave indexes the
  list of free host ids, of which it needs none; in a nearly full swarm the
  connection closes without an answer, although the tasks created before the
  exception still run.
- **MCKicked** (`coordinator/coordinator.py:183`): a node that was "kicked out"
  reconnects by itself within the grace period and is still a member.
- **MCMonotonic** (`coordinator/heartbeat_server.py:298`): two datagram
  threads that read the same last index store theirs in the wrong order.

Three more were met without a run of their own. `handle_disconnected_station` logs
"deleting entries for" the station (`ap_manager/ap_manager.py:575`) and deletes
those of the address in `connected_stations` (line 566), which is the one the
station was registered with: a join, done by the coordinator, does not reach
that dictionary. When a node that joined where it was registered leaves, the
forwarding entries of its swarm address stay on every switch, also when its host
id is free and its port another node's. `RegisteredIsForwarded` shows that they are
overwritten when the id is given out again; no property says that an address
nobody has is forwarded nowhere.

`websocket_log_stream` sends a new page the buffered entries as they are stored
(`GUI/backend/coordinator_log_server.py:129`), with the types `Console` and
`Metric`, while the frontend handles messages of type `log` only
(`GUI/frontend/js/websocket.js:65`): what is replayed is discarded, and the page
shows nothing of what was sent before it became active.

`start_heartbeat_server` says "If already running, we keep it running (idempotent)"
(`GUI/backend/heartbeat_api.py:166`), but starts a second server beside one it
does not track when the `pgrep` check raises or returns an error (lines 186-199).

## The proofs

TLAPS proves, for every finite set of nodes, every set of APs, every range of ids
and ports and every bound (assumption `ConstantsOK` of each module):

- **SwarmMembershipProofs!TypeInvariance, TypeCorrect**: `Spec => []TypeOK`.
  `TypeOK` is not inductive, since a handler's locals are partly `None` and which
  of them it may use depends on its place. `TypeInv` adds three parts:
  `HandlerOK` (which locals are set at which program counter; a handler in its
  grace period still has the station in `connected_stations`), `MessageOK` (a
  message whose sender waits is the only one of that sender, and the sender is
  in `await` for this node, so an answer moves no other handler; a message with a
  VXLAN_ID comes from an AP), `TasksOK` (a task under way has a host id of the
  range). The proof has one step per action; a message is removed from the
  front of a queue or appended, and the frame lemmas (`APFrame`, `CoFrame`, ...)
  say what a step of one program leaves alone.
- **SwarmConsistencyProofs!ConsistentAlways**: the inductive invariant of which
  the membership properties are parts, `Consistent == TypeInv /\ Alone /\
  TunnelInv /\ RowsInv /\ PortInv`. `UniqueHostIds` and `TablesAgree` alone say
  nothing of a handler that has read and not yet written, and hold only between
  handlers. `Alone`: an undisturbed node has at most one handler at work,
  at an AP or in the coordinator's batch; no other can have changed its rows
  since they were read. `TunnelInv`: tunnels of an AP have different ids, and that
  of a connected station, or of a handler, is the one it remembers. `RowsInv`:
  the two rows agree unless one is written and the other about to follow (`Agree`),
  what the rows are at each place of a handler (`HandlerRows`), and of a
  coordinator's task (`TaskRow`): from the moment the batch is read it has a host
  id that no other undisturbed row and no other task has, because whoever takes a
  free id in between is a roaming member without a Swarm_Table row, and such a
  node is disturbed.
  `PortInv`: the row names the tunnel.
- **HostIdsStayUnique, TablesStayInAgreement, ArtPortsAreTunnels,
  AnswersListMembers** (same module): `UniqueHostIds`, `TablesAgree`,
  `ArtPortIsTheTunnels` and `AnsweredAreMembers` from it.
- **SwarmForwardingProofs!RegisteredAreForwarded**: `RegisteredIsForwarded`, from
  `Consistent` and `FwdInv`. An entry is named by its address, so what must be
  shown is that no step sets or deletes that of another node. Registered nodes
  have different addresses, because the tables agree and host ids are unique
  (`AddressesDiffer`); the address a handler deletes is one its node has had, in
  swarm 0 or 1 (`DeletesOwn`); and while a handler is on its way to the entries
  they are owed (`Pending`), its own AP's before the others' (`OwnEntry`).
- **SwarmRosterProofs!RosterImplemented**: `Spec => ImplementsRoster`. Four
  steps of the programs are steps of the list: the coordinator's sending of an
  address is `Join`, an AP manager's write of the ART row `Register` or
  `Roam`, its deletion of that row `Remove`, and so is the last step of a handler
  that heals a node. Every other one at most loses nodes (`LosesOnly`): whoever
  is not lost afterwards has its old entry. Most of that is to show that a
  row written now is the entry of before. `UpdateArt` writes an address and an AP
  that the coordinator copied from the ART at the beginning of the batch: by
  `Consistent` nobody has moved an undisturbed node since, so the entry
  stays the one the node was told. That a told id is no member's comes from
  `TaskRow`, which has it reserved from the batch on. A healed node goes from
  lost to out: `Cleared` means that it has no rows and no handler, and that is all
  `Consistent` asks of a node that comes back among the undisturbed.
- **SwarmRosterProofs!IdsStayApart, IdsAreKept**: what follows from the list
  alone, and so for the programs: `Roster!IdsApart` (no two members of the list,
  told or written, have one id; stronger than `UniqueHostIds`, which is about
  rows) and `Roster!IdsKept` (a member keeps its id until it is removed or lost).
- **HeartbeatServerProofs!TypeCorrect**: `Spec => []TypeOK`, any number of
  threads, any chain, any number of sessions, restarts and failures.
- **HeartbeatServerProofs!FreshHeartbeatIsNotOverruled**: `Spec =>
  FreshHeartbeatStands`, from `VerdictStands`: while the monitor is between
  its two writes, the cached time stamp is still the old one, because every
  other writer of the cache needs the lock.
- **HeartbeatServerProofs!IndexGoesForward**: `Spec => GoesForward`, from
  `Bounded`: without races one handler saves at a
  time, the index it saves is still the next or the one after, and the database
  is at most two heartbeats from the cache. The last part needs care: the
  monitor may overwrite in the database an index that a handler has already
  written there and is about to write to the cache (`VerdictAhead`, `Overruled`);
  and a write that fails may have been done. A heartbeat written so is within two
  of the cache, as the index was checked against it (`HeartbeatAhead`); the reset of
  a dead client written so leaves the database behind by more (`ResetAhead`), and a
  restart then completes the reset. Behind the cache by one or two, and not
  reset, is only a client whose database row says dead.
- **HeartbeatServerProofs!ServerImplementsRegistry**: `Spec =>
  ImplementsRegistry`, the initial state and then each step as a step of the
  registry or a stutter (`RegistryStep`). A save of the cache is the registry's
  step: that its index is the next or the one after, and that a reset is of a dead
  client, comes from `Bounded`; that the monitor's verdict is about a silent client
  from `VerdictStands`. Restart is the step that needs to know how far the
  database is from the cache, and gives one case of `Recovered` for each
  part of `Bounded`.
- **SwitchControlProofs!TypeCorrect** and **LoopsAreComplete**: `TypeInv` adds
  what each call may rely on at its place (`Shape`), that no connection is to a
  later boot than the switch's (`Boots`), and that a loop has visited exactly the
  APs before its position (`LoopShape`): as keys are only appended, an equal
  size means the same keys.
- **SwitchControlProofs!PortsAlwaysStand**: from `GroupInv`. Outside of `mixed` a
  switch has one call that has read and not yet written (`OneUpdater`), what it
  read is still the group (`GroupRead`), and a manager between its group and its
  node has no one else's ports to lose (`NoNodeYet`).
- **SwitchControlProofs!EntriesAlwaysStand**: from `EntryInv`, likewise for an entry:
  its handle still is the one looked up (`EntryRead`), or there is none if it is
  to be added.
- **NodeHeartbeatProofs!TypeCorrect**, **StopIsFinal**, **SendersAreVerified**:
  `TypeInv` says who waits when the server's handler answers; `LifeInv` that who
  is neither held nor orphaned has been told to stop (`Told`), also while the
  manager waits (`Stopping`) and before a child is started (`Vacant`);
  `VerifiedInv` that the manager's clients use one chain for good (`OneChain`)
  and the supervisor registers a chain before its only child exists
  (`NewChain`).
- **GuiBackendProofs!TypeCorrect**, **ActiveIsKept** (a page
  that leaves has been lost: `LeaverIsDown`), **SnapshotsNeverGoBack** (the queue
  for `client_lock` is in the order of the reads, `InOrder`),
  **LinesReachPagesOnce** (what a page has, what it is owed from its copy and the
  line under way are disjoint and cover the history, `LinesOf`),
  **NothingFallsBetween** (what of the buffer the active page has not been sent is
  still to be replayed, or in the hands of a connection that comes after it,
  `PageCovered`), **ActiveShows** (an entry is with its connection until it is
  sent, to the page that is active then, `ShowsInv`). `TypeInv` says which tasks are in which queue, each once.

Every invariant and every safety property of the passing runs is proved. Only
model-checked are the liveness properties `RequestsEnd`,
`DepartedNodeIsForgotten`, `SilenceIsNoticed`, `AnnouncedIsDiscovered`,
`NeverLockedOut` and `EntriesGetThrough`: liveness under fairness is out of the
prover's reach, as is `ENABLED`.

## What is not modelled

- Failing `ip`, `awk` and `iw` commands, several vxlan ids matched by one address prefix
  (`ap_manager.py:353`).
- `monitor_wifi_status` of the node manager, `notify_dead` (off by default),
  heartbeats lost to a `||` inside a hash (a lost datagram in the model),
  `start_winternitz.py` (prepares interfaces, no state of its own).
- GUI: the REST queries, which keep no state; `request_join` and `request_leave`,
  which run the scripts of the adaptive coordinator. `request_leave` counts
  the members with a `session` that is not defined in its module, takes the
  exception for a count of -1, and so never stops the heartbeat server, which its
  docstring (`GUI/backend/coordinator_log_server.py:473`) says it does for the
  last node. A start right after a stop finds the dying server with `pgrep` and
  starts none, so there may be no server, as there may be several; no property
  is about their number. The task that follows the heartbeat server's log is taken
  to run on once started: its end by an exception and a second start are not
  modelled.
- Switch calls that fail, in SwarmMembership: there every command to a switch that
  is known takes effect. SwitchControl has the failing ones (a stale connection, an
  unreadable answer, a table reloaded meanwhile), for the calls alone.
- What follows from a switch emptied by a restart of its AP manager: the restart and
  the loss are in the model (`RestartAPManager`), but `RegisteredIsForwarded` says nothing
  after it, and the code puts nothing back.
- The `recv` of the coordinator on the connection of the adaptive coordinator, which
  has no timeout: a request begins when it has been read.
- The P4 pipelines (match-action tables without state), the GUI frontend, launchers
  and scripts. The largest part of the repository's code, the thrift
  stubs under `lib/bmv2_pylibs/bm*` and `sswitch_runtime` (31 of its
  39 thousand lines), is generated: marshalling without state; of the command
  interpreter `runtime_CLI.py` the commands the programs issue are modelled.
- `Swarm_Node_Handler`, `swarm_coordinator`, `update_db_with_node_status` and other
  functions nobody calls have no behaviour to model.

## Plan

Done: `SwarmMembership` with its abstract `SwarmRoster`, `HeartbeatServer` with
its abstract `HeartbeatRegistry`, `SwitchControl`, `NodeHeartbeat`, `GuiBackend`,
their runs, and the proofs above. Left, in order of importance:

1. Properties of the nodes on which two handlers overlap, weaker than those of
   the undisturbed ones: what is left behind when all handlers are done.
2. The lookup of vxlan ids by address prefix, with none, one or several matches.

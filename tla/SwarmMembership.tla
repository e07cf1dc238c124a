---------------------------- MODULE SwarmMembership ----------------------------
(***************************************************************************)
(* Membership of smart nodes in the swarm: the coordinator's handler of    *)
(* the adaptive coordinator's requests, the AP managers' handlers of WiFi  *)
(* events, the node managers that install the configurations, and the two  *)
(* Cassandra tables (ART and Swarm_Table) through which they interact.     *)
(*                                                                         *)
(* Nothing locks the tables.  A step of this module therefore ends at each *)
(* access to a table, to another machine's socket or to a switch that      *)
(* another process also programs; what a handler keeps between two         *)
(* accesses is in its own record (ap[a], co).                              *)
(***************************************************************************)
EXTENDS Integers, Sequences, FiniteSets

CONSTANTS
    Nodes,         \* the smart nodes
    APs,           \* the access points
    KnownAPs,      \* the access points the backbone nodes have discovered
    FirstHostId,   \* cfg.this_swarm_dhcp_start
    MaxHostId,     \* cfg.this_swarm_dhcp_end
    MaxPort,       \* the largest vxlan id, which is also the switch port (499)
    Heartbeat,     \* the heartbeat flag of the join requests
    None,          \* no row, no access point, no address
    MaxMoves,      \* bound: WiFi associations, losses and spurious detections
    MaxRequests,   \* bound: requests of the adaptive coordinator
    MaxRestarts,   \* bound: restarts of AP managers and of the coordinator
    MaxFailures,   \* bound: queries that fail
    MaxEvents      \* bound: all of these together

HostIds == FirstHostId..MaxHostId
Ports == 1..MaxPort
PortOrNull == 0..MaxPort            \* 0: the ap_port column is null

\* A virtual address is the swarm-0 address of a node, named by the node, or
\* the swarm address of a host id, named by the host id.
Vips == Nodes \cup HostIds

ArtRow == [ap : APs, swarm : {0, 1}, vip : Vips, port : PortOrNull]
SwarmRow == [hid : HostIds, ap : APs]
Station == [vip : Vips, port : Ports]
Tunnel == [ap : APs, port : Ports]
Event == [kind : {"new", "del"}, node : Nodes]

\* A message in the socket of a node manager.  from is the AP that sent it
\* (None: the coordinator, which does not wait for the answer), open says
\* that the sender still waits, port is the VXLAN_ID field (0: absent).
Message == [type : {"SET_CONFIG", "UPDAET_CONFIG", "go_away"},
            from : APs \cup {None}, open : BOOLEAN,
            vip : Vips \cup {None}, port : PortOrNull, hb : BOOLEAN]

NewPC == {"arp", "hostid", "send", "await", "acked", "swarmrow"}
DelPC == {"del", "grace", "reread", "delentries", "deldump", "delports",
          "delart", "delswarm"}
SwitchPC == {"dump", "ports", "replicate"}
Handler == [pc : NewPC \cup DelPC \cup SwitchPC \cup {"idle", "dead"},
            node : Nodes \cup {None}, swarm : {0, 1},
            vip : Vips \cup {None}, port : PortOrNull, bcast : PortOrNull,
            dump : SUBSET PortOrNull]

\* One task of a request: the ART row it was created from and the host id.
Task == [node : Nodes, ap : APs, vip : Vips, port : PortOrNull,
         hid : HostIds \cup {0}]
Coordinator == [pc : {"idle", "ids", "task", "swarmrow", "artrow", "dump",
                      "ports", "replicate"},
                kind : {"njl", "nll"}, todo : Seq(Task),
                avail : SUBSET Nodes, failed : BOOLEAN,
                dump : SUBSET PortOrNull]

ASSUME ConstantsOK ==
    /\ IsFiniteSet(Nodes) /\ KnownAPs \subseteq APs
    /\ FirstHostId \in Nat \ {0} /\ MaxHostId \in Nat
    /\ MaxPort \in Nat
    /\ Heartbeat \in BOOLEAN
    /\ MaxMoves \in Nat /\ MaxRequests \in Nat
    /\ MaxRestarts \in Nat /\ MaxFailures \in Nat /\ MaxEvents \in Nat
    /\ \A n \in Nodes : n \notin HostIds
    /\ None \notin Nodes \cup APs \cup HostIds \cup ArtRow \cup SwarmRow
                   \cup Station \cup Tunnel \cup Event

VARIABLES
    art,         \* ART: the row of each node
    swarmTable,  \* Swarm_Table: the row of each node
    co,          \* the coordinator's AC handler and its locals
    ap,          \* each AP manager's event handler and its locals
    connected,   \* each AP manager's connected_stations
    tunnel,      \* each AP's vxlan interfaces: the id of the one to a node, or 0
    lastLine,    \* each AP manager's previous_line
    mcast,       \* each switch's broadcast ports
    lpm,         \* each switch's tb_ipv4_lpm: where an address is forwarded
    events,      \* each AP's pipe of `iw event` lines
    inbox,       \* each node manager's accepted connections, oldest first
    node,        \* each node: installed address and tunnel, heartbeat process
    assoc,       \* the AP each node's radio is associated with
    disturbed,   \* history: nodes whose handling overlapped, was cut short with
                 \* one of its rows written, or went on without a row it had
                 \* written; until a handler takes them out of both tables
    healed,      \* history: a disturbed node has been taken out of both tables
    moves, requests, restarts, failures   \* how much of each bound is used

tables == <<art, swarmTable>>
switches == <<mcast, lpm>>
radio == <<events, assoc>>
nodes == <<inbox, node>>
bounds == <<healed, moves, requests, restarts, failures>>
apLocals == <<connected, tunnel, lastLine>>
vars == <<tables, co, ap, apLocals, switches, radio, nodes, disturbed, bounds>>

IdleHandler == [pc |-> "idle", node |-> None, swarm |-> 0, vip |-> None,
                port |-> 0, bcast |-> 0, dump |-> {}]
IdleCoordinator == [pc |-> "idle", kind |-> "njl", todo |-> <<>>,
                    avail |-> {}, failed |-> FALSE, dump |-> {}]

Init ==
    /\ art = [n \in Nodes |-> None]
    /\ swarmTable = [n \in Nodes |-> None]
    /\ co = IdleCoordinator
    /\ ap = [a \in APs |-> IdleHandler]
    /\ connected = [a \in APs |-> [n \in Nodes |-> None]]
    /\ tunnel = [a \in APs |-> [n \in Nodes |-> 0]]
    /\ lastLine = [a \in APs |-> None]
    /\ mcast = [a \in APs |-> {}]
    /\ lpm = [a \in APs |-> [v \in Vips |-> None]]
    /\ events = [a \in APs |-> <<>>]
    /\ inbox = [n \in Nodes |-> <<>>]
    /\ node = [n \in Nodes |-> [vip |-> None, tun |-> None, hb |-> FALSE,
                                pc |-> "listen"]]
    /\ assoc = [n \in Nodes |-> None]
    /\ disturbed = {} /\ healed = FALSE
    /\ moves = 0 /\ requests = 0 /\ restarts = 0 /\ failures = 0

-------------------------------------------------------------------------------
(* Who is working on a node: an AP manager's handler on its station; a     *)
(* join request on the nodes of its tasks and, until it is answered, on    *)
(* those the answer will list.                                             *)

Works(a, n) == ap[a].node = n

Joining(n) == /\ co.kind = "njl"
              /\ n \in co.avail \/ \E i \in DOMAIN co.todo : co.todo[i].node = n

Member(n) == art[n] # None /\ art[n].swarm = 1

Contended(n) == Joining(n) \/ \E a \in APs : Works(a, n)

-------------------------------------------------------------------------------
(* The host ids.                                                           *)

TakenIds == {swarmTable[n].hid : n \in {m \in Nodes : swarmTable[m] # None}}

\* Mistake: the first id of the list is the one before the first host id.
IdsFromZero == ((FirstHostId - 1)..MaxHostId) \ TakenIds

\* batch_get_available_host_id_from_swarm_table: with no row in the table the
\* list stops one short of MaxHostId.
BatchIds == IF TakenIds = {} THEN FirstHostId..(MaxHostId - 1)
                             ELSE HostIds \ TakenIds

\* The k smallest members of S in increasing order, available_host_ids[0..k-1].
Smallest(S, k) == {f \in [1..k -> S] :
                     /\ \A i, j \in 1..k : i < j => f[i] < f[j]
                     /\ \A h \in S, i \in 1..k :
                           h < f[i] => \E j \in 1..k : f[j] = h}

\* Mistake: a node's own id counts as taken.
LeastFreeIds(n) ==
    {h \in HostIds \ TakenIds : \A g \in HostIds \ TakenIds : h <= g}

\* get_next_available_host_id_from_swarm_table for node n, as a set: its own
\* id if it has a row, else the least free one; empty when min() has none.
NextIds(n) ==
    IF swarmTable[n] # None THEN {swarmTable[n].hid}
    ELSE {h \in HostIds \ TakenIds : \A g \in HostIds \ TakenIds : h <= g}

-------------------------------------------------------------------------------
(* Messages to the node managers.                                          *)

Deliver(n, m) == inbox' = [inbox EXCEPT ![n] = Append(@, m)]

\* The sender's socket is closed: nobody waits for the answer any more.
Close(a, msgs) == [i \in DOMAIN msgs |->
    IF msgs[i].from = a THEN [msgs[i] EXCEPT !.open = FALSE] ELSE msgs[i]]

FromAP(a, h) == [type |-> IF h.swarm = 0 THEN "SET_CONFIG" ELSE "UPDAET_CONFIG",
                 from |-> a, open |-> TRUE, vip |-> h.vip, port |-> h.port,
                 hb |-> FALSE]
JoinConfig(t) == [type |-> "SET_CONFIG", from |-> None, open |-> FALSE,
                  vip |-> t.hid, port |-> 0, hb |-> Heartbeat]
GoAway == [type |-> "go_away", from |-> None, open |-> FALSE, vip |-> None,
           port |-> 0, hb |-> FALSE]

\* The nodes a connection to address v may reach.
ReachableAt(v) == {n \in Nodes : node[n].vip = v /\ assoc[n] # None}

-------------------------------------------------------------------------------
(* The radio.                                                              *)

\* Whether something more may happen to the programs.
MoreEvents == moves + requests + restarts + failures < MaxEvents

Emit(a, kind, n) == [events EXCEPT ![a] = Append(@, [kind |-> kind, node |-> n])]

Associate(n, a) ==
    /\ moves < MaxMoves /\ MoreEvents
    /\ assoc[n] = None /\ node[n].pc = "listen"
    /\ assoc' = [assoc EXCEPT ![n] = a]
    /\ events' = Emit(a, "new", n)
    /\ moves' = moves + 1
    /\ UNCHANGED <<tables, co, ap, apLocals, switches, nodes, disturbed,
                   healed, requests, restarts, failures>>

Disassociate(n) ==
    /\ moves < MaxMoves /\ MoreEvents /\ assoc[n] # None
    /\ assoc' = [assoc EXCEPT ![n] = None]
    /\ events' = Emit(assoc[n], "del", n)
    /\ moves' = moves + 1
    /\ UNCHANGED <<tables, co, ap, apLocals, switches, nodes, disturbed,
                   healed, requests, restarts, failures>>

\* "sometimes an already connected station is randomly detected as connecting
\* again" (the comment at ap_manager.py:326).
SpuriousDetection(n) ==
    /\ moves < MaxMoves /\ MoreEvents /\ assoc[n] # None
    /\ events' = Emit(assoc[n], "new", n)
    /\ moves' = moves + 1
    /\ UNCHANGED <<tables, co, ap, apLocals, switches, assoc, nodes, disturbed,
                   healed, requests, restarts, failures>>

-------------------------------------------------------------------------------
(* AP manager: the event loop.                                             *)

\* The next line of `iw event`; a repetition of the previous line is dropped.
NextLine(a, kind) ==
    /\ ap[a].pc = "idle" /\ events[a] # <<>>
    /\ Head(events[a]).kind = kind /\ Head(events[a]) # lastLine[a]
    /\ events' = [events EXCEPT ![a] = Tail(@)]
    /\ lastLine' = [lastLine EXCEPT ![a] = Head(events[a])]

DropRepeatedLine(a) ==
    /\ ap[a].pc = "idle" /\ events[a] # <<>> /\ Head(events[a]) = lastLine[a]
    /\ events' = [events EXCEPT ![a] = Tail(@)]
    /\ UNCHANGED <<tables, co, ap, connected, tunnel, lastLine, switches, assoc,
                   nodes, disturbed, bounds>>

StartHandler(a, pc, n) ==
    /\ ap' = [ap EXCEPT ![a] = [IdleHandler EXCEPT !.pc = pc, !.node = n]]
    /\ disturbed' = disturbed \cup {m \in {n} : Contended(m)}

\* A station already in connected_stations is not handled again.
SkipConnectedStation(a) ==
    /\ NextLine(a, "new")
    /\ connected[a][Head(events[a]).node] # None
    /\ UNCHANGED <<tables, co, ap, connected, tunnel, switches, assoc, nodes,
                   disturbed, bounds>>

NewStation(a) ==
    /\ NextLine(a, "new")
    /\ connected[a][Head(events[a]).node] = None
    /\ StartHandler(a, "arp", Head(events[a]).node)
    /\ UNCHANGED <<tables, co, connected, tunnel, switches, assoc, nodes, bounds>>

LostStation(a) ==
    /\ NextLine(a, "del")
    /\ StartHandler(a, "del", Head(events[a]).node)
    /\ UNCHANGED <<tables, co, connected, tunnel, switches, assoc, nodes, bounds>>

-------------------------------------------------------------------------------
(* AP manager: handle_new_connected_station.                               *)

Step(a, from, to) == ap[a].pc = from /\ ap' = [ap EXCEPT ![a].pc = to]
Finish(a) == ap' = [ap EXCEPT ![a] = IdleHandler]

ArpMiss(a) ==
    /\ ap[a].pc = "arp"
    /\ Finish(a)
    /\ UNCHANGED <<tables, co, apLocals, switches, radio, nodes, disturbed, bounds>>

\* Mistake: the ids of the other interfaces are not looked at.
LeastTunnelId(a, n) ==
    IF tunnel[a][n] # 0 THEN {tunnel[a][n]}
    ELSE {p \in Ports : \A q \in Ports : p <= q}

\* The id of the tunnel to node n: the one that exists for its address, else
\* the least id no interface has.
TunnelIds(a, n) ==
    LET free == Ports \ {tunnel[a][m] : m \in Nodes}
    IN IF tunnel[a][n] # 0 THEN {tunnel[a][n]}
       ELSE {p \in free : \A q \in free : p <= q}

\* The ART row decides between swarm 0 and the node's swarm; both branches
\* build the tunnel and attach it to the switch.
ReadArt(a) ==
    LET n == ap[a].node
        member == art[n] # None /\ art[n].swarm # 0
    IN /\ ap[a].pc = "arp"
       /\ \E p \in TunnelIds(a, n) :
             /\ tunnel' = [tunnel EXCEPT ![a][n] = p]
             /\ ap' = [ap EXCEPT
                        ![a].pc = IF member THEN "hostid" ELSE "send",
                        ![a].swarm = IF member THEN 1 ELSE 0,
                        ![a].vip = IF member THEN None ELSE n,
                        ![a].port = p]
       /\ UNCHANGED <<tables, co, connected, lastLine, switches, radio, nodes,
                      disturbed, bounds>>

GetHostId(a) ==
    /\ ap[a].pc = "hostid"
    /\ \E h \in NextIds(ap[a].node) :
          ap' = [ap EXCEPT ![a].pc = "send", ![a].vip = h]
    /\ UNCHANGED <<tables, co, apLocals, switches, radio, nodes, disturbed, bounds>>

\* Exceptions that handle_new_connected_station does not catch end the AP
\* manager: min() of no free id, and the lookup of an AP that has not yet
\* discovered itself.
Uncaught(a) ==
    \/ ap[a].pc = "arp" /\ TunnelIds(a, ap[a].node) = {}
    \/ ap[a].pc = "hostid" /\ NextIds(ap[a].node) = {}
    \/ ap[a].pc = "replicate" /\ ap[a].swarm = 1 /\ a \notin KnownAPs

\* The node of a handler that ends at one of these steps, with more to come.
CutShort(a, pcs) == {n \in Nodes : Works(a, n) /\ ap[a].pc \in pcs}

APManagerDies(a) ==
    /\ Uncaught(a)
    /\ ap' = [ap EXCEPT ![a] = [IdleHandler EXCEPT !.pc = "dead"]]
    /\ disturbed' = disturbed \cup CutShort(a, {"replicate"})
    /\ UNCHANGED <<tables, co, apLocals, switches, radio, nodes, bounds>>

\* send_swarmNode_config: the answer is awaited for at most ten seconds.
SendConfig(a) ==
    /\ Step(a, "send", "await")
    /\ assoc[ap[a].node] = a
    /\ Deliver(ap[a].node, FromAP(a, ap[a]))
    /\ UNCHANGED <<tables, co, apLocals, switches, radio, node, disturbed, bounds>>

SendConfigFails(a) ==
    /\ ap[a].pc = "send"
    /\ Finish(a)
    /\ UNCHANGED <<tables, co, apLocals, switches, radio, nodes, disturbed, bounds>>

ConfigTimeout(a) ==
    /\ ap[a].pc = "await"
    /\ Finish(a)
    /\ inbox' = [inbox EXCEPT ![ap[a].node] = Close(a, @)]
    /\ UNCHANGED <<tables, co, apLocals, switches, radio, node, disturbed, bounds>>

\* The station enters connected_stations.
EnterStation(a) ==
    LET h == ap[a]
    IN /\ Step(a, "acked", IF h.swarm = 0 THEN "replicate" ELSE "swarmrow")
       /\ connected' = [connected EXCEPT
                          ![a][h.node] = [vip |-> h.vip, port |-> h.port]]

\* The station enters connected_stations and the ART (an upsert).
RegisterInArt(a) ==
    LET h == ap[a]
    IN /\ EnterStation(a)
       /\ art' = [art EXCEPT ![h.node] = [ap |-> a, swarm |-> h.swarm,
                                          vip |-> h.vip, port |-> h.port]]
       /\ UNCHANGED <<swarmTable, co, tunnel, lastLine, switches, radio, nodes,
                      disturbed, bounds>>

RegisterInSwarm(a) ==
    /\ Step(a, "swarmrow", "dump")
    /\ swarmTable' = [swarmTable EXCEPT
                        ![ap[a].node] = [hid |-> ap[a].vip, ap |-> a]]
    /\ UNCHANGED <<art, co, apLocals, switches, radio, nodes, disturbed, bounds>>

\* add_bmv2_swarm_broadcast_port reads the whole port list with mc_dump and
\* writes it back, longer by one, with mc_node_update.
DumpPorts(a) ==
    /\ ap[a].pc = "dump"
    /\ ap' = [ap EXCEPT ![a].pc = "ports", ![a].dump = mcast[a]]
    /\ UNCHANGED <<tables, co, apLocals, switches, radio, nodes, disturbed, bounds>>

UpdatePorts(a) ==
    /\ Step(a, "ports", "replicate")
    /\ mcast' = [mcast EXCEPT ![a] = ap[a].dump \cup {ap[a].port}]
    /\ lpm' = [lpm EXCEPT ![a][ap[a].vip] = ap[a].port]
    /\ UNCHANGED <<tables, co, apLocals, radio, nodes, disturbed, bounds>>

\* Mistake: the AP of the node gets the entry of the other APs too.
ReplicatedEverywhere(a, v, hop) ==
    [b \in APs |-> IF b \in KnownAPs THEN [lpm[b] EXCEPT ![v] = hop[b]]
                                    ELSE lpm[b]]

\* Mistake: an entry that is there already is left as it is.
ReplicatedIfAbsent(a, v, hop) ==
    [b \in APs |-> IF b # a /\ b \in KnownAPs /\ lpm[b][v] = None
                   THEN [lpm[b] EXCEPT ![v] = hop[b]] ELSE lpm[b]]

\* The entries for address v on the switches of the other known APs: out to
\* the backbone, to the address of the AP hop[b].
Replicated(a, v, hop) ==
    [b \in APs |-> IF b # a /\ b \in KnownAPs
                   THEN [lpm[b] EXCEPT ![v] = hop[b]] ELSE lpm[b]]

\* In swarm 0 the frames for the node are sent to the other AP's own address;
\* in a swarm, to the address of the AP the node is on.
ReplicateEntries(a) ==
    LET h == ap[a]
        others == Replicated(a, h.vip, [b \in APs |-> IF h.swarm = 0 THEN b ELSE a])
    IN /\ h.pc = "replicate" /\ ~Uncaught(a)
       /\ lpm' = IF h.swarm = 0 THEN [others EXCEPT ![a][h.vip] = h.port]
                                ELSE others
       /\ Finish(a)
       /\ UNCHANGED <<tables, co, apLocals, mcast, radio, nodes, disturbed, bounds>>

-------------------------------------------------------------------------------
(* AP manager: handle_disconnected_station.                                *)

RegisteredAt(a, n) == art[n] # None /\ art[n].ap = a

\* A station of this AP's list that the ART does not place on another AP.
ConnectedHere(a, n) ==
    connected[a][n] # None /\ (art[n] # None => RegisteredAt(a, n))

\* The station is not one of this AP's: the handler returns, and an entry of
\* connected_stations stays.
IgnoreLostStation(a) ==
    LET n == ap[a].node
    IN /\ ap[a].pc = "del"
       /\ ~ConnectedHere(a, n)
       /\ Finish(a)
       /\ UNCHANGED <<tables, co, apLocals, switches, radio, nodes, disturbed, bounds>>

StartGrace(a) ==
    LET n == ap[a].node
    IN /\ Step(a, "del", "grace")
       /\ ConnectedHere(a, n)
       /\ UNCHANGED <<tables, co, apLocals, switches, radio, nodes, disturbed, bounds>>

\* `iw station dump` is polled for ap_wait_time_for_disconnected_station.
StationCameBack(a) ==
    /\ ap[a].pc = "grace" /\ assoc[ap[a].node] = a
    /\ Finish(a)
    /\ UNCHANGED <<tables, co, apLocals, switches, radio, nodes, disturbed, bounds>>

GraceOver(a) ==
    /\ Step(a, "grace", "reread") /\ assoc[ap[a].node] # a
    /\ UNCHANGED <<tables, co, apLocals, switches, radio, nodes, disturbed, bounds>>

\* The branch for a station that has no row or is on another AP by now raises
\* before it reaches the del of connected_stations (None.ap_port, or the
\* keyword ap_ip), and the exception is logged.
StationMoved(a) ==
    LET n == ap[a].node
    IN /\ ap[a].pc = "reread"
       /\ ~RegisteredAt(a, n)
       /\ Finish(a)
       /\ UNCHANGED <<tables, co, apLocals, switches, radio, nodes, disturbed, bounds>>

RemoveStation(a) ==
    LET n == ap[a].node
    IN /\ ap[a].pc = "reread" /\ RegisteredAt(a, n)
       /\ ap' = [ap EXCEPT ![a].pc = "delentries",
                           ![a].vip = connected[a][n].vip,
                           ![a].port = connected[a][n].port,
                           ![a].bcast = art[n].port]
       /\ connected' = [connected EXCEPT ![a][n] = None]
       /\ UNCHANGED <<tables, co, tunnel, lastLine, switches, radio, nodes,
                      disturbed, bounds>>

DeleteEntries(a) ==
    /\ Step(a, "delentries", "deldump")
    /\ lpm' = [b \in APs |-> IF b \in KnownAPs
                             THEN [lpm[b] EXCEPT ![ap[a].vip] = None] ELSE lpm[b]]
    /\ UNCHANGED <<tables, co, apLocals, mcast, radio, nodes, disturbed, bounds>>

DumpPortsToDelete(a) ==
    /\ ap[a].pc = "deldump"
    /\ ap' = [ap EXCEPT ![a].pc = "delports", ![a].dump = mcast[a]]
    /\ UNCHANGED <<tables, co, apLocals, switches, radio, nodes, disturbed, bounds>>

\* remove_bmv2_swarm_broadcast_port writes the list back only if it changed.
DeletePort(a) ==
    /\ Step(a, "delports", "delart")
    /\ mcast' = IF ap[a].bcast \in ap[a].dump
                THEN [mcast EXCEPT ![a] = ap[a].dump \ {ap[a].bcast}] ELSE mcast
    /\ UNCHANGED <<tables, co, apLocals, lpm, radio, nodes, disturbed, bounds>>

\* Mistake: only the row of a swarm member is deleted.
DeleteMemberFromArt(a) ==
    /\ Step(a, "delart", "delswarm")
    /\ art' = IF art[ap[a].node] # None /\ art[ap[a].node].swarm = 0 THEN art
              ELSE [art EXCEPT ![ap[a].node] = None]
    /\ UNCHANGED <<swarmTable, co, apLocals, switches, radio, nodes, disturbed, bounds>>

\* delete_node_from_art: the ART row first, then the Swarm_Table row.
DeleteFromArt(a) ==
    /\ Step(a, "delart", "delswarm")
    /\ art' = [art EXCEPT ![ap[a].node] = None]
    /\ UNCHANGED <<swarmTable, co, apLocals, switches, radio, nodes, disturbed, bounds>>

\* Mistake: the Swarm_Table row is left behind.
DeleteTunnelOnly(a) ==
    /\ ap[a].pc = "delswarm"
    /\ tunnel' = [tunnel EXCEPT ![a] =
                    [n \in Nodes |-> IF @[n] = ap[a].port THEN 0 ELSE @[n]]]
    /\ Finish(a)
    /\ UNCHANGED <<tables, co, connected, lastLine, switches, radio, nodes,
                   disturbed, bounds>>

\* delete_vxlan_by_host_id, with which the handler ends.
DeleteTunnel(a) ==
    /\ ap[a].pc = "delswarm"
    /\ tunnel' = [tunnel EXCEPT ![a] =
                    [n \in Nodes |-> IF @[n] = ap[a].port THEN 0 ELSE @[n]]]
    /\ Finish(a)

\* The node that the handler, the last at work on it, has taken out of both
\* tables: whatever disturbed it, the tables no longer show.
Cleared(a) ==
    {n \in Nodes : /\ Works(a, n) /\ art[n] = None
                   /\ ~Joining(n) /\ \A b \in APs \ {a} : ~Works(b, n)}

DeleteFromSwarm(a) ==
    /\ DeleteTunnel(a)
    /\ swarmTable' = [swarmTable EXCEPT ![ap[a].node] = None]
    /\ disturbed' = disturbed \ Cleared(a)
    /\ healed' = (healed \/ disturbed' # disturbed)
    /\ UNCHANGED <<art, co, connected, lastLine, switches, radio, nodes,
                   moves, requests, restarts, failures>>

\* A new run of the program: initialize_program resets the switch; the lines
\* of `iw event` since are lost, the tables and the tunnels stay.
RestartAPManager(a) ==
    /\ restarts < MaxRestarts /\ MoreEvents
    /\ restarts' = restarts + 1
    /\ Finish(a)
    /\ disturbed' = disturbed \cup CutShort(a, {"swarmrow", "delswarm"})
    /\ connected' = [connected EXCEPT ![a] = [n \in Nodes |-> None]]
    /\ lastLine' = [lastLine EXCEPT ![a] = None]
    /\ events' = [events EXCEPT ![a] = <<>>]
    /\ mcast' = [mcast EXCEPT ![a] = {}]
    /\ lpm' = [lpm EXCEPT ![a] = [v \in Vips |-> None]]
    /\ inbox' = [n \in Nodes |-> Close(a, inbox[n])]
    /\ UNCHANGED <<tables, co, tunnel, assoc, node, healed, moves, requests, failures>>

-------------------------------------------------------------------------------
(* Coordinator: handle_ac_communication, one connection at a time.         *)

CoStep(from, to) == co.pc = from /\ co' = [co EXCEPT !.pc = to]
CoFinish == co' = IdleCoordinator

\* The nodes of the request S that get a task: for a join those the ART lists
\* in swarm 0, for a leave all it lists.
Candidates(kind, S) ==
    {n \in S : art[n] # None /\ (kind = "njl" => art[n].swarm = 0)}

\* The orders in which the database may return the rows of C.
Orders(C) == {s \in [1..Cardinality(C) -> C] :
                \A i, j \in DOMAIN s : s[i] = s[j] => i = j}

NewTask(n) == [node |-> n, ap |-> art[n].ap, vip |-> art[n].vip,
               port |-> art[n].port, hid |-> 0]

\* (A request with no candidate is done with at once and not counted.)
AcceptRequest(kind, S) ==
    /\ requests < MaxRequests /\ MoreEvents /\ co.pc = "idle"
    /\ requests' = IF Candidates(kind, S) = {} THEN requests ELSE requests + 1
    /\ \E order \in Orders(Candidates(kind, S)) :
          co' = IF order = <<>> THEN IdleCoordinator
                ELSE [IdleCoordinator EXCEPT
                        !.pc = "ids", !.kind = kind,
                        !.todo = [i \in DOMAIN order |-> NewTask(order[i])]]
    /\ disturbed' = IF kind = "nll" THEN disturbed
                    ELSE disturbed \cup {n \in Candidates(kind, S) : Contended(n)}
    /\ UNCHANGED <<tables, ap, apLocals, switches, radio, nodes, healed, moves,
                   restarts, failures>>

\* Mistake: every task of the batch gets the first id.
AssignFirstHostId ==
    /\ \E ids \in Smallest(BatchIds, 1) :
          co' = [co EXCEPT !.pc = "task",
                           !.todo = [i \in DOMAIN co.todo |->
                                       [co.todo[i] EXCEPT !.hid = ids[1]]]]
    /\ co.pc = "ids"
    /\ UNCHANGED <<tables, ap, apLocals, switches, radio, nodes, disturbed, bounds>>

\* The first tasks of the request, as many as there are ids.
Assigned(ids) == [i \in DOMAIN ids |-> [co.todo[i] EXCEPT !.hid = ids[i]]]

\* available_host_ids[i] for each task, a leave's tasks included.
AssignHostIds ==
    /\ \E ids \in Smallest(BatchIds, Len(co.todo)) :
          co' = [co EXCEPT !.pc = "task", !.todo = Assigned(ids)]
    /\ co.pc = "ids"
    /\ UNCHANGED <<tables, ap, apLocals, switches, radio, nodes, disturbed, bounds>>

\* The list of ids ends before that of the tasks: IndexError, and no answer.
\* The tasks created until then are ready to run, and they do.
TooFewHostIds ==
    /\ co.pc = "ids" /\ Cardinality(BatchIds) < Len(co.todo)
    /\ \E ids \in Smallest(BatchIds, Cardinality(BatchIds)) :
          co' = [co EXCEPT !.pc = "task", !.todo = Assigned(ids), !.failed = TRUE]
    /\ UNCHANGED <<tables, ap, apLocals, switches, radio, nodes, disturbed, bounds>>

\* Mistake: a task that ends is tried again.
RetryTask(failed) ==
    co' = [co EXCEPT !.pc = "task", !.dump = {}, !.failed = @ \/ failed]

\* The task ends; the next one of the gather runs.
NextTask(failed) ==
    co' = [co EXCEPT !.pc = "task", !.todo = Tail(@), !.dump = {},
                     !.failed = @ \/ failed]

\* onboard_node looks its AP up first (KeyError), then sends the configuration
\* to the address of the row; the node is listed in the answer from here on.
SendJoinConfig ==
    LET t == Head(co.todo)
    IN /\ co.pc = "task" /\ co.kind = "njl" /\ co.todo # <<>> /\ t.ap \in KnownAPs
       /\ \E m \in ReachableAt(t.vip) : Deliver(m, JoinConfig(t))
       /\ co' = [co EXCEPT !.pc = "swarmrow", !.avail = @ \cup {t.node}]
       /\ UNCHANGED <<tables, ap, apLocals, switches, radio, node, disturbed, bounds>>

SendGoAway ==
    LET t == Head(co.todo)
    IN /\ co.pc = "task" /\ co.kind = "nll" /\ co.todo # <<>>
       /\ \E m \in ReachableAt(t.vip) : Deliver(m, GoAway)
       /\ co' = [co EXCEPT !.todo = Tail(@), !.avail = @ \cup {t.node}]
       /\ UNCHANGED <<tables, ap, apLocals, switches, radio, node, disturbed, bounds>>

\* Mistake: the node is listed before the connection is tried.
TaskFailsListed ==
    /\ co.pc = "task" /\ co.todo # <<>>
    /\ co' = [co EXCEPT !.todo = Tail(@), !.avail = @ \cup {Head(co.todo).node}]
    /\ UNCHANGED <<tables, ap, apLocals, switches, radio, nodes, disturbed, bounds>>

\* The connection fails (the task returns), or the AP is not known (the task
\* raises, and the gather with it once the other tasks are done).
TaskFails ==
    /\ co.pc = "task" /\ co.todo # <<>>
    /\ NextTask(co.kind = "njl" /\ Head(co.todo).ap \notin KnownAPs)
    /\ UNCHANGED <<tables, ap, apLocals, switches, radio, nodes, disturbed, bounds>>

InsertSwarmRow ==
    LET t == Head(co.todo)
    IN /\ CoStep("swarmrow", "artrow")
       /\ swarmTable' = [swarmTable EXCEPT ![t.node] = [hid |-> t.hid, ap |-> t.ap]]
       /\ UNCHANGED <<art, ap, apLocals, switches, radio, nodes, disturbed, bounds>>

\* A CQL UPDATE: a row that has gone since it was read comes back, without port.
UpdateArt ==
    LET t == Head(co.todo)
        port == IF art[t.node] = None THEN 0 ELSE art[t.node].port
    IN /\ CoStep("artrow", "dump")
       /\ art' = [art EXCEPT ![t.node] = [ap |-> t.ap, swarm |-> 1,
                                          vip |-> t.hid, port |-> port]]
       /\ UNCHANGED <<swarmTable, ap, apLocals, switches, radio, nodes, disturbed,
                      bounds>>

CoDumpPorts ==
    /\ co.pc = "dump"
    /\ co' = [co EXCEPT !.pc = "ports", !.dump = mcast[Head(co.todo).ap]]
    /\ UNCHANGED <<tables, ap, apLocals, switches, radio, nodes, disturbed, bounds>>

CoUpdatePorts ==
    LET t == Head(co.todo)
    IN /\ CoStep("ports", "replicate")
       /\ mcast' = [mcast EXCEPT ![t.ap] = co.dump \cup {t.port}]
       /\ lpm' = [lpm EXCEPT ![t.ap][t.hid] = t.port]
       /\ UNCHANGED <<tables, ap, apLocals, radio, nodes, disturbed, bounds>>

CoReplicateEntries ==
    LET t == Head(co.todo)
    IN /\ co.pc = "replicate"
       /\ lpm' = Replicated(t.ap, t.hid, [b \in APs |-> b])
       /\ NextTask(FALSE)
       /\ UNCHANGED <<tables, ap, apLocals, mcast, radio, nodes, disturbed, bounds>>

Answer ==
    /\ co.pc = "task" /\ co.todo = <<>> /\ ~co.failed
    /\ CoFinish
    /\ UNCHANGED <<tables, ap, apLocals, switches, radio, nodes, disturbed, bounds>>

\* A task's exception, re-raised by gather, or the IndexError is logged and the
\* connection closed.
CloseUnanswered ==
    /\ co.pc = "task" /\ co.todo = <<>> /\ co.failed
    /\ CoFinish
    /\ UNCHANGED <<tables, ap, apLocals, switches, radio, nodes, disturbed, bounds>>

\* The node that has been sent its swarm address, which its row does not show.
Told(n) == co.pc \in {"swarmrow", "artrow"} /\ Head(co.todo).node = n

\* init_database of a new run drops Swarm_Table and keeps the ART: members keep
\* their addresses, whose host ids are now free.
RestartCoordinator ==
    /\ restarts < MaxRestarts /\ MoreEvents
    /\ restarts' = restarts + 1
    /\ CoFinish
    /\ swarmTable' = [n \in Nodes |-> None]
    /\ disturbed' = disturbed \cup {n \in Nodes : Member(n) \/ Told(n)}
    /\ UNCHANGED <<art, ap, apLocals, switches, radio, nodes, healed, moves,
                   requests, failures>>

-------------------------------------------------------------------------------
(* Node manager: handle_communication, one connection at a time.           *)

\* What a message makes of the node: a SET_CONFIG installs the address, and
\* the tunnel too if it carries a VXLAN_ID; UPDAET_CONFIG matches no branch.
Installed(s, m) ==
    IF m.type # "SET_CONFIG" THEN s
    ELSE [s EXCEPT !.vip = m.vip, !.hb = m.hb,
                   !.tun = IF m.port = 0 THEN @ ELSE [ap |-> m.from, port |-> m.port]]

\* Whatever the type was, the answer is "OK!"; it reaches a sender that waits
\* and is still on the other side of the radio link.
HandleMessage(n) ==
    LET m == Head(inbox[n])
    IN /\ inbox[n] # <<>> /\ m.type # "go_away" /\ node[n].pc = "listen"
       /\ inbox' = [inbox EXCEPT ![n] = Tail(@)]
       /\ node' = [node EXCEPT ![n] = Installed(@, m)]
       /\ ap' = IF m.open /\ assoc[n] = m.from
                THEN [ap EXCEPT ![m.from].pc = "acked"] ELSE ap
       /\ UNCHANGED <<tables, co, apLocals, switches, radio, disturbed, bounds>>

\* nmcli connection down, a second later up, then the heartbeat is stopped.
LeaveNetwork(n) ==
    /\ inbox[n] # <<>> /\ Head(inbox[n]).type = "go_away" /\ node[n].pc = "listen"
    /\ inbox' = [inbox EXCEPT ![n] = Tail(@)]
    /\ node' = [node EXCEPT ![n].pc = "away"]
    /\ assoc' = [assoc EXCEPT ![n] = None]
    /\ events' = IF assoc[n] = None THEN events ELSE Emit(assoc[n], "del", n)
    /\ UNCHANGED <<tables, co, ap, apLocals, switches, disturbed, bounds>>

ReturnToNetwork(n) ==
    /\ node[n].pc = "away"
    /\ node' = [node EXCEPT ![n].pc = "listen", ![n].hb = FALSE]
    /\ \/ UNCHANGED radio
       \/ \E a \in APs : /\ assoc' = [assoc EXCEPT ![n] = a]
                         /\ events' = Emit(a, "new", n)
    /\ UNCHANGED <<tables, co, ap, apLocals, switches, inbox, disturbed, bounds>>

-------------------------------------------------------------------------------
(* Queries that fail.  execute_query catches the exception and answers -1: *)
(* the table is as it was, a handler that wanted rows raises an exception  *)
(* on the number, and one that wrote a row does not look at the answer.    *)
(* (A request whose first query fails ends before it has changed anything.) *)

QueryFails == failures < MaxFailures /\ MoreEvents /\ failures' = failures + 1

Damage(n) == disturbed' = disturbed \cup {n}

\* handle_new_connected_station catches nothing: the AP manager ends.
NewStationReadFails(a) ==
    /\ ap[a].pc \in {"arp", "hostid"}
    /\ ap' = [ap EXCEPT ![a] = [IdleHandler EXCEPT !.pc = "dead"]]
    /\ UNCHANGED <<tables, connected, tunnel, disturbed>>

\* handle_disconnected_station catches and logs: the station stays.
LostStationReadFails(a) ==
    /\ ap[a].pc \in {"del", "reread"}
    /\ Finish(a)
    /\ UNCHANGED <<tables, connected, tunnel, disturbed>>

\* The station is connected, but not in the ART.
RegisterInArtFails(a) ==
    /\ EnterStation(a)
    /\ Damage(ap[a].node)
    /\ UNCHANGED <<tables, tunnel>>

RegisterInSwarmFails(a) ==
    /\ Step(a, "swarmrow", "dump")
    /\ Damage(ap[a].node)
    /\ UNCHANGED <<tables, connected, tunnel>>

DeleteFromArtFails(a) ==
    /\ Step(a, "delart", "delswarm")
    /\ Damage(ap[a].node)
    /\ UNCHANGED <<tables, connected, tunnel>>

DeleteFromSwarmFails(a) ==
    /\ DeleteTunnel(a)
    /\ disturbed' = disturbed \cup {n \in Nodes : Works(a, n) /\ swarmTable[n] # None}
    /\ UNCHANGED <<tables, connected>>

APQueryFails(a) ==
    /\ QueryFails
    /\ \/ NewStationReadFails(a) \/ LostStationReadFails(a)
       \/ RegisterInArtFails(a) \/ RegisterInSwarmFails(a)
       \/ DeleteFromArtFails(a) \/ DeleteFromSwarmFails(a)
    /\ UNCHANGED <<co, lastLine, switches, radio, nodes, healed, moves, requests,
                   restarts>>

\* The query for the host ids: the exception is logged, nobody is answered.
HostIdsReadFails ==
    /\ co.pc = "ids"
    /\ CoFinish
    /\ UNCHANGED disturbed

\* onboard_node goes on without the row it wrote.
InsertSwarmRowFails == CoStep("swarmrow", "artrow") /\ Damage(Head(co.todo).node)
UpdateArtFails == CoStep("artrow", "dump") /\ Damage(Head(co.todo).node)

CoQueryFails ==
    /\ QueryFails
    /\ HostIdsReadFails \/ InsertSwarmRowFails \/ UpdateArtFails
    /\ UNCHANGED <<tables, ap, apLocals, switches, radio, nodes, healed, moves,
                   requests, restarts>>

-------------------------------------------------------------------------------
APStep(a) ==
    \/ DropRepeatedLine(a) \/ SkipConnectedStation(a) \/ NewStation(a)
    \/ LostStation(a) \/ ArpMiss(a) \/ ReadArt(a) \/ GetHostId(a)
    \/ APManagerDies(a) \/ SendConfig(a) \/ SendConfigFails(a)
    \/ ConfigTimeout(a) \/ RegisterInArt(a) \/ RegisterInSwarm(a)
    \/ DumpPorts(a) \/ UpdatePorts(a) \/ ReplicateEntries(a)
    \/ IgnoreLostStation(a) \/ StartGrace(a) \/ StationCameBack(a)
    \/ GraceOver(a) \/ StationMoved(a) \/ RemoveStation(a)
    \/ DeleteEntries(a) \/ DumpPortsToDelete(a) \/ DeletePort(a)
    \/ DeleteFromArt(a) \/ DeleteFromSwarm(a)

CoordinatorStep ==
    \/ AssignHostIds \/ TooFewHostIds \/ SendJoinConfig \/ SendGoAway
    \/ TaskFails \/ InsertSwarmRow \/ UpdateArt \/ CoDumpPorts
    \/ CoUpdatePorts \/ CoReplicateEntries \/ Answer \/ CloseUnanswered

NodeStep(n) == HandleMessage(n) \/ LeaveNetwork(n) \/ ReturnToNetwork(n)

Environment ==
    \/ \E n \in Nodes : \E a \in APs : Associate(n, a)
    \/ \E n \in Nodes : Disassociate(n) \/ SpuriousDetection(n)
    \/ \E S \in SUBSET Nodes : AcceptRequest("njl", S) \/ AcceptRequest("nll", S)
    \/ \E a \in APs : RestartAPManager(a) \/ APQueryFails(a)
    \/ RestartCoordinator
    \/ CoQueryFails

Next ==
    \/ \E a \in APs : APStep(a)
    \/ CoordinatorStep
    \/ \E n \in Nodes : NodeStep(n)
    \/ Environment

\* The programs' loops go on: each handler's next step is taken.  Nothing
\* obliges the radio, the adaptive coordinator or a restart.
Fairness ==
    /\ \A a \in APs : WF_vars(APStep(a))
    /\ WF_vars(CoordinatorStep)
    /\ \A n \in Nodes : WF_vars(NodeStep(n))

Spec == Init /\ [][Next]_vars /\ Fairness

-------------------------------------------------------------------------------
(* The roster that the programs keep: the row of the ART, but a node has   *)
(* its swarm address from the moment the coordinator has sent it, and a    *)
(* disturbed node's entry is lost.                                         *)
Standing(n) ==
    IF n \in disturbed THEN [is |-> "lost"]
    ELSE IF art[n] = None THEN [is |-> "out"]
    ELSE IF Told(n) THEN [is |-> "member", id |-> Head(co.todo).hid, at |-> art[n].ap]
    ELSE IF Member(n) THEN [is |-> "member", id |-> art[n].vip, at |-> art[n].ap]
    ELSE [is |-> "holding", at |-> art[n].ap]

Roster == INSTANCE SwarmRoster WITH
    Ids <- HostIds, roster <- [n \in Nodes |-> Standing(n)]

-------------------------------------------------------------------------------
(* Properties.                                                             *)

\* The type of every variable.
TypeOK ==
    /\ art \in [Nodes -> ArtRow \cup {None}]
    /\ swarmTable \in [Nodes -> SwarmRow \cup {None}]
    /\ co \in Coordinator
    /\ ap \in [APs -> Handler]
    /\ connected \in [APs -> [Nodes -> Station \cup {None}]]
    /\ tunnel \in [APs -> [Nodes -> PortOrNull]]
    /\ lastLine \in [APs -> Event \cup {None}]
    /\ mcast \in [APs -> SUBSET PortOrNull]
    /\ lpm \in [APs -> [Vips -> PortOrNull \cup APs \cup {None}]]
    /\ events \in [APs -> Seq(Event)]
    /\ inbox \in [Nodes -> Seq(Message)]
    /\ node \in [Nodes -> [vip : Vips \cup {None}, tun : Tunnel \cup {None},
                           hb : BOOLEAN, pc : {"listen", "away"}]]
    /\ assoc \in [Nodes -> APs \cup {None}]
    /\ disturbed \subseteq Nodes /\ healed \in BOOLEAN
    /\ moves \in Nat /\ requests \in Nat /\ restarts \in Nat /\ failures \in Nat

\* Two nodes never hold the same host id (hence the same swarm address),
\* whatever the interleaving of the coordinator's batches and the AP managers'
\* reuse of ids, from the time a handler last took it out of both tables, if
\* since then no two handlers worked on it at once and no handler stopped, or
\* went on, with half of its rows written.  A write that fails for one node
\* does not take another node's id away.
UniqueHostIds ==
    \A n, m \in Nodes \ disturbed :
        /\ n # m
        /\ swarmTable[n] # None
        /\ swarmTable[m] # None
        => swarmTable[n].hid # swarmTable[m].hid

\* Between handlers the two tables tell the same story of an undisturbed node:
\* it has a Swarm_Table row exactly if the ART lists it in the swarm, with the
\* same address and the same AP.
TablesAgree ==
    \A n \in Nodes \ disturbed : ~Contended(n) =>
        /\ Member(n) <=> swarmTable[n] # None
        /\ Member(n) => /\ swarmTable[n].hid = art[n].vip
                        /\ swarmTable[n].ap = art[n].ap

\* The port the ART gives for an undisturbed node is that of the node's own
\* tunnel on its AP, and no other node's: the least free vxlan id is reused
\* only after the row that names it has gone.
ArtPortIsTheTunnels ==
    \A n \in Nodes \ disturbed : art[n] # None =>
        /\ tunnel[art[n].ap][n] = art[n].port
        /\ \A m \in Nodes \ {n} : tunnel[art[n].ap][m] # art[n].port

\* Once no handler is at work and none ever overlapped, every registered node
\* is forwarded to: by its own AP's switch to its port, by the other known APs'
\* switches to the backbone, with that AP's own address (as the code has it for
\* a node that has not roamed) or with that of the AP the node is on, never of
\* one it has left.  Host ids that were freed and given to another node leave
\* no entry that misleads.
RegisteredIsForwarded ==
    disturbed = {} /\ ~healed /\ restarts = 0 =>
        \A n \in Nodes : art[n] # None /\ ~Contended(n) =>
            /\ lpm[art[n].ap][art[n].vip] = art[n].port
            /\ \A b \in KnownAPs \ {art[n].ap} :
                  lpm[b][art[n].vip] \in {b, art[n].ap}

\* The answer to a join lists members only: both tables hold each (undisturbed)
\* listed node, although it was listed before either was written.
AnsweredAreMembers ==
    [][\A n \in co.avail \ disturbed :
          Answer /\ co.kind = "njl" => /\ Member(n)
                                       /\ swarmTable[n] # None
                                       /\ swarmTable[n].hid = art[n].vip]_vars

\* Tables, handlers, messages, restarts and failed queries together behave as
\* one list of the nodes, in which a node joins at the moment it is told its
\* address, with a host id nobody has (not even one told it a moment ago and
\* not yet in a table), keeps that id wherever it roams, and is not moved back
\* by a join that read its AP long before.
ImplementsRoster == Roster!Spec

\* When an AP manager registers an (undisturbed) station because it answered
\* OK!, the station's tunnel does lead to this AP with this id ("Node faild to
\* configure itself" is what any other answer means, ap_manager.py:488).
AckedConfigIsInstalled ==
    [][\A a \in APs : RegisterInArt(a) /\ ap[a].node \notin disturbed =>
          node[ap[a].node].tun = [ap |-> a, port |-> ap[a].port]]_vars

\* "this check skips the execution of the rest of the code, as the station is
\* already connected and set up" (ap_manager.py:327): a skipped station is
\* registered with this AP.
SkippedStationIsSetUp ==
    [][\A a \in APs : SkipConnectedStation(a) =>
          LET n == Head(events[a]).node
          IN art[n] # None /\ art[n].ap = a]_vars

\* A request for a node to leave is answered ("Leave request accepted.
\* Response:", tests/ac_request_nodes_to_leave.py:34): it needs no free host id.
LeaveNeedsNoHostId == [][TooFewHostIds => co.kind # "nll"]_vars

\* A member listed in the answer to a request for nodes "to be kicked out"
\* (README.md:131) is eventually out of the swarm.
KickedNodeIsOut ==
    \A n \in Nodes : (co.kind = "nll" /\ n \in co.avail) ~> ~Member(n)

\* Every request is eventually done with, answered or not.
RequestsEnd == (co.pc # "idle") ~> (co.pc = "idle")

\* A node that has gone for good is eventually in neither table, unless its
\* handling overlapped and nobody has cleared it since, an AP manager died, or
\* a restart or a failed query cost it its removal: none is tried again.
DepartedNodeIsForgotten ==
    \A n \in Nodes :
        <>[](assoc[n] = None /\ node[n].pc = "listen") =>
            <>[](\/ art[n] = None /\ swarmTable[n] = None
                 \/ n \in disturbed
                 \/ restarts > 0 \/ failures > 0
                 \/ \E a \in APs : ap[a].pc = "dead")
===============================================================================

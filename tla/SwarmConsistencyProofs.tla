------------------------ MODULE SwarmConsistencyProofs -------------------------
(***************************************************************************)
(* The two tables, the tunnels and the host ids of SwarmMembership agree,  *)
(* for every set of nodes and APs, every range and every bound.            *)
(*                                                                         *)
(* Nothing locks the tables: what makes the agreement inductive is that at *)
(* most one handler is at work on an undisturbed node (Alone), and what    *)
(* the rows of its node are at each of its steps (HandlerRows, TaskRow).   *)
(* A node that is healed has no rows and nobody at work on it, which is    *)
(* all these ask of it.                                                    *)
(***************************************************************************)
EXTENDS SwarmMembershipProofs

Calm == Nodes \ disturbed

-------------------------------------------------------------------------------
(* What the steps of an AP manager's handler do to it.                     *)

SameStation(a) ==
    /\ ap'[a].node = ap[a].node /\ ap'[a].swarm = ap[a].swarm
    /\ ap'[a].vip = ap[a].vip /\ ap'[a].port = ap[a].port
OthersKept(a) == \A b \in APs \ {a} : ap'[b] = ap[b]
NoRowChanges == UNCHANGED <<tables, connected, tunnel, co, disturbed, restarts>>

\* The steps that only move a handler on, and those that only end it.
Advances(a) ==
    \/ SendConfig(a) \/ DumpPorts(a) \/ UpdatePorts(a) \/ StartGrace(a)
    \/ GraceOver(a) \/ DeleteEntries(a) \/ DumpPortsToDelete(a) \/ DeletePort(a)
Ends(a) ==
    \/ ArpMiss(a) \/ SendConfigFails(a) \/ ConfigTimeout(a) \/ ReplicateEntries(a)
    \/ IgnoreLostStation(a) \/ StationCameBack(a) \/ StationMoved(a)

Successors == {<<"send", "await">>, <<"dump", "ports">>, <<"ports", "replicate">>,
               <<"del", "grace">>, <<"grace", "reread">>, <<"delentries", "deldump">>,
               <<"deldump", "delports">>, <<"delports", "delart">>}

\* A handler moves on with the ports it has read.
LEMMA DumpUpdate ==
    ASSUME TypeOK, NEW a \in APs, NEW pc \in PCs, NEW ports \in SUBSET PortOrNull,
           ap' = [ap EXCEPT ![a].pc = pc, ![a].dump = ports]
    PROVE  ap'[a].pc = pc /\ SameStation(a) /\ OthersKept(a)
<1>1. ap[a] \in Handler
  BY DEF TypeOK
<1>2. ap'[a] = [ap[a] EXCEPT !.pc = pc, !.dump = ports]
  BY DEF TypeOK
<1>3. QED
  BY <1>1, <1>2 DEF TypeOK, Handler, SameStation, OthersKept

\* A handler that moves on works on the same station, with the same address
\* and port.
LEMMA AdvancesMove ==
    ASSUME TypeOK, NEW a \in APs, Advances(a)
    PROVE  /\ <<ap[a].pc, ap'[a].pc>> \in Successors
           /\ SameStation(a) /\ OthersKept(a) /\ NoRowChanges
<1>1. CASE SendConfig(a) \/ UpdatePorts(a) \/ StartGrace(a) \/ GraceOver(a)
           \/ DeleteEntries(a) \/ DeletePort(a)
  <2>1. PICK to \in PCs : <<ap[a].pc, to>> \in Successors /\ ap' = [ap EXCEPT ![a].pc = to]
    BY <1>1 DEF SendConfig, UpdatePorts, StartGrace, GraceOver, DeleteEntries,
                DeletePort, Step, PCs, NewPC, DelPC, SwitchPC, Successors
  <2>2. ap'[a].pc = to /\ SameStation(a) /\ OthersKept(a)
    BY <2>1, PCUpdate DEF SameStation, OthersKept
  <2>3. NoRowChanges
    BY <1>1 DEF SendConfig, UpdatePorts, StartGrace, GraceOver, DeleteEntries,
                DeletePort, NoRowChanges, apLocals, bounds
  <2>4. QED
    BY <2>1, <2>2, <2>3
<1>2. CASE DumpPorts(a) \/ DumpPortsToDelete(a)
  <2>1. PICK to \in PCs : /\ <<ap[a].pc, to>> \in Successors
                          /\ ap' = [ap EXCEPT ![a].pc = to, ![a].dump = mcast[a]]
    BY <1>2 DEF DumpPorts, DumpPortsToDelete, PCs, DelPC, SwitchPC, Successors
  <2>2. mcast[a] \in SUBSET PortOrNull
    BY DEF TypeOK
  <2>3. ap'[a].pc = to /\ SameStation(a) /\ OthersKept(a)
    BY <2>1, <2>2, DumpUpdate
  <2>4. NoRowChanges
    BY <1>2 DEF DumpPorts, DumpPortsToDelete, NoRowChanges, apLocals, bounds
  <2>5. QED
    BY <2>1, <2>3, <2>4
<1>3. QED
  BY <1>1, <1>2 DEF Advances

\* A handler that ends like this had not begun to change a row, or is done
\* with the switches.
LEMMA EndsFinish ==
    ASSUME TypeOK, NEW a \in APs, Ends(a)
    PROVE  /\ ap[a].pc \in {"arp", "send", "await", "replicate", "del", "grace", "reread"}
           /\ ap'[a] = IdleHandler /\ ap'[a].node = None /\ ap'[a].pc = "idle"
           /\ OthersKept(a) /\ NoRowChanges
<1>1. ap' = [ap EXCEPT ![a] = IdleHandler]
  BY DEF Ends, ArpMiss, SendConfigFails, ConfigTimeout, ReplicateEntries,
         IgnoreLostStation, StationCameBack, StationMoved, Finish
<1>2. /\ ap'[a] = IdleHandler /\ ap'[a].node = None /\ ap'[a].pc = "idle"
      /\ OthersKept(a)
  BY <1>1 DEF TypeOK, OthersKept, IdleHandler
<1>3. NoRowChanges
  BY DEF Ends, ArpMiss, SendConfigFails, ConfigTimeout, ReplicateEntries,
         IgnoreLostStation, StationCameBack, StationMoved, NoRowChanges, apLocals, bounds
<1>4. ap[a].pc \in {"arp", "send", "await", "replicate", "del", "grace", "reread"}
  BY DEF Ends, ArpMiss, SendConfigFails, ConfigTimeout, ReplicateEntries,
         IgnoreLostStation, StationCameBack, StationMoved
<1>5. QED
  BY <1>2, <1>3, <1>4

\* A message changes no handler but that of a sender that awaits its answer.
LEMMA MessageAcks ==
    ASSUME TypeInv, NEW n \in Nodes, NodeStep(n), NEW a \in APs
    PROVE  /\ SameStation(a)
           /\ ap'[a].pc = ap[a].pc \/ (ap[a].pc = "await" /\ ap'[a].pc = "acked")
           /\ NoRowChanges /\ lpm' = lpm
<1>0. TypeOK
  BY DEF TypeInv
<1>1. CASE LeaveNetwork(n) \/ ReturnToNetwork(n)
  BY <1>1 DEF LeaveNetwork, ReturnToNetwork, SameStation, NoRowChanges, apLocals,
              bounds, switches
<1>2. CASE HandleMessage(n)
  <2> DEFINE m == Head(inbox[n])
  <2>1. /\ inbox[n] # <<>>
        /\ ap' = IF m.open /\ assoc[n] = m.from
                 THEN [ap EXCEPT ![m.from].pc = "acked"] ELSE ap
        /\ NoRowChanges /\ lpm' = lpm
    BY <1>2 DEF HandleMessage, NoRowChanges, apLocals, bounds, switches
  <2>2. CASE ap' = ap
    BY <2>1, <2>2 DEF SameStation
  <2>3. CASE m.open /\ ap' = [ap EXCEPT ![m.from].pc = "acked"]
    <3>1. inbox[n] \in Seq(Message)
      BY <1>0 DEF TypeOK
    <3>2. m = inbox[n][1] /\ 1 \in DOMAIN inbox[n]
      BY <2>1, <3>1
    <3>3. m.from \in APs /\ ap[m.from].pc = "await"
      BY <2>3, <3>2 DEF TypeInv, MessageOK, Awaited
    <3> HIDE DEF m
    <3>4. "acked" \in PCs
      BY DEF PCs, NewPC
    <3>5. CASE a = m.from
      BY <1>0, <2>1, <2>3, <3>3, <3>4, <3>5, PCUpdate DEF SameStation
    <3>6. CASE a # m.from
      BY <1>0, <2>1, <2>3, <3>3, <3>4, <3>6, PCUpdate DEF SameStation
    <3>7. QED
      BY <3>5, <3>6
  <2>4. QED
    BY <2>1, <2>2, <2>3
<1>3. QED
  BY <1>1, <1>2 DEF NodeStep

\* The start of a handler: its node is not calm if another one works on it.
LEMMA StartsAlone ==
    ASSUME TypeOK, NEW a \in APs, NewStation(a) \/ LostStation(a)
    PROVE  \E n \in Nodes :
              /\ ap[a].pc = "idle" /\ ap'[a].node = n /\ ap'[a].pc \in {"arp", "del"}
              /\ OthersKept(a)
              /\ disturbed' = disturbed \cup {m \in {n} : Contended(m)}
              /\ UNCHANGED <<tables, connected, tunnel, co, restarts, lpm>>
<1> DEFINE n == Head(events[a]).node
<1>1. n \in Nodes
  <2>1. events[a] \in Seq(Event) /\ events[a] # <<>>
    BY DEF NewStation, LostStation, NextLine, TypeOK
  <2>2. Head(events[a]) \in Event
    BY <2>1
  <2>3. QED
    BY <2>2 DEF Event
<1>2. PICK pc \in {"arp", "del"} : StartHandler(a, pc, n)
  BY DEF NewStation, LostStation
<1> HIDE DEF n
<1>3. ap'[a].node = n /\ ap'[a].pc = pc /\ OthersKept(a)
  BY <1>1, <1>2, StartUpdate DEF StartHandler, OthersKept
<1>4. /\ ap[a].pc = "idle"
      /\ UNCHANGED <<tables, connected, tunnel, co, restarts, lpm>>
  BY DEF NewStation, LostStation, NextLine, switches, bounds
<1>5. QED
  BY <1>1, <1>2, <1>3, <1>4 DEF StartHandler

\* A handler ended by an exception was not between the writes of two rows.
LEMMA DiesMoves ==
    ASSUME TypeInv, NEW a \in APs, APManagerDies(a)
    PROVE  /\ ap[a].pc \in {"arp", "hostid", "replicate"} /\ ap[a].node \in Nodes
           /\ ap'[a].node = None /\ ap'[a].pc = "dead" /\ OthersKept(a)
           /\ disturbed' = IF ap[a].pc = "replicate" THEN disturbed \cup {ap[a].node}
                           ELSE disturbed
           /\ UNCHANGED <<tables, connected, tunnel, co, restarts, lpm>>
<1>0. TypeOK /\ HandlerOK(a)
  BY DEF TypeInv
<1>1. ap[a].pc \in {"arp", "hostid", "replicate"} /\ ap[a].node \in Nodes
  BY <1>0 DEF APManagerDies, Uncaught, HandlerOK
<1>2. ap'[a].node = None /\ ap'[a].pc = "dead" /\ OthersKept(a)
  BY <1>0 DEF APManagerDies, TypeOK, OthersKept, IdleHandler
<1>3. CutShort(a, {"replicate"}) = IF ap[a].pc = "replicate" THEN {ap[a].node} ELSE {}
  BY <1>1 DEF CutShort, Works
<1>4. QED
  BY <1>1, <1>2, <1>3 DEF APManagerDies, apLocals, switches, bounds

-------------------------------------------------------------------------------
(* What the coordinator's steps do to the request it handles.              *)

SameRequest ==
    co'.todo = co.todo /\ co'.kind = co.kind /\ co'.avail = co.avail
NoHandlerChanges == UNCHANGED <<ap, connected, tunnel, disturbed, restarts>>

CoEnds == Answer \/ CloseUnanswered
CoDrops == TaskFails \/ CoReplicateEntries

\* The coordinator's program counter moves on.
LEMMA CoSteps ==
    ASSUME TypeInv, NEW from \in CoPCs \ {"idle", "ids", "task"},
           NEW to \in CoPCs \ {"idle", "ids", "task"}, CoStep(from, to)
    PROVE  /\ co.pc = from /\ co'.pc = to /\ SameRequest
           /\ co.todo # <<>> /\ Head(co.todo) = co.todo[1] /\ 1 \in DOMAIN co.todo
           /\ Head(co.todo).node \in Nodes /\ Head(co.todo).ap \in APs
<1>1. co \in Coordinator /\ TasksOK
  BY DEF TypeInv, TypeOK
<1>2. co.pc = from /\ co'.pc = to /\ SameRequest
  BY <1>1 DEF CoStep, Coordinator, SameRequest
<1>3. co.todo # <<>> /\ co.todo \in Seq(Task)
  BY <1>1, <1>2 DEF TasksOK, CoPCs, Coordinator
<1>4. Head(co.todo) = co.todo[1] /\ 1 \in DOMAIN co.todo /\ Head(co.todo) \in Task
  BY <1>3, TailTasks
<1>5. QED
  BY <1>2, <1>3, <1>4 DEF Task

\* The coordinator reads the ports of the switch of the first task's AP, then
\* writes them back.
LEMMA CoSwitchSteps ==
    ASSUME TypeInv, CoDumpPorts \/ CoUpdatePorts
    PROVE  /\ <<co.pc, co'.pc>> \in {<<"dump", "ports">>, <<"ports", "replicate">>}
           /\ SameRequest /\ co.todo # <<>>
           /\ Head(co.todo) = co.todo[1] /\ 1 \in DOMAIN co.todo
           /\ Head(co.todo).node \in Nodes
           /\ NoHandlerChanges /\ UNCHANGED tables
<1>1. co \in Coordinator /\ TasksOK
  BY DEF TypeInv, TypeOK
<1>2. /\ <<co.pc, co'.pc>> \in {<<"dump", "ports">>, <<"ports", "replicate">>}
      /\ SameRequest
  BY <1>1 DEF CoDumpPorts, CoUpdatePorts, CoStep, Coordinator, SameRequest
<1>3. co.todo # <<>> /\ co.todo \in Seq(Task)
  BY <1>1, <1>2 DEF TasksOK, Coordinator
<1>4. Head(co.todo) = co.todo[1] /\ 1 \in DOMAIN co.todo /\ Head(co.todo) \in Task
  BY <1>3, TailTasks
<1>5. NoHandlerChanges /\ UNCHANGED tables
  BY DEF CoDumpPorts, CoUpdatePorts, NoHandlerChanges, apLocals, bounds
<1>6. QED
  BY <1>2, <1>3, <1>4, <1>5 DEF Task

\* The coordinator is done with the first task.
LEMMA CoDropsFirst ==
    ASSUME TypeInv, CoDrops
    PROVE  /\ co.pc \in {"task", "replicate"} /\ co.todo # <<>> /\ co.todo \in Seq(Task)
           /\ co'.pc = "task" /\ co'.todo = Tail(co.todo)
           /\ co'.kind = co.kind /\ co'.avail = co.avail
           /\ NoHandlerChanges /\ UNCHANGED tables
<1>1. co \in Coordinator /\ TasksOK
  BY DEF TypeInv, TypeOK
<1>2. co.pc \in {"task", "replicate"} /\ co.todo # <<>>
  BY <1>1 DEF CoDrops, TaskFails, CoReplicateEntries, TasksOK
<1>3. /\ co'.pc = "task" /\ co'.todo = Tail(co.todo)
      /\ co'.kind = co.kind /\ co'.avail = co.avail
  BY <1>1 DEF CoDrops, TaskFails, CoReplicateEntries, NextTask, Coordinator
<1>4. NoHandlerChanges /\ UNCHANGED tables
  BY DEF CoDrops, TaskFails, CoReplicateEntries, NoHandlerChanges, apLocals, bounds
<1>5. QED
  BY <1>1, <1>2, <1>3, <1>4 DEF Coordinator

\* The connection of a request is closed.
LEMMA CoEndsIdle ==
    ASSUME CoEnds
    PROVE  /\ co.pc = "task" /\ co' = IdleCoordinator
           /\ NoHandlerChanges /\ UNCHANGED tables
  BY DEF CoEnds, Answer, CloseUnanswered, CoFinish, NoHandlerChanges,
         apLocals, bounds

\* The first task's configuration is sent; the node is listed.
LEMMA CoSends ==
    ASSUME TypeInv, SendJoinConfig \/ SendGoAway
    PROVE  /\ co.pc = "task" /\ co.todo # <<>> /\ co.todo \in Seq(Task)
           /\ co'.kind = co.kind /\ co'.avail = co.avail \cup {Head(co.todo).node}
           /\ \/ co.kind = "njl" /\ co'.pc = "swarmrow" /\ co'.todo = co.todo
              \/ co.kind = "nll" /\ co'.pc = "task" /\ co'.todo = Tail(co.todo)
           /\ NoHandlerChanges /\ UNCHANGED <<tables, lpm>>
<1>1. co \in Coordinator
  BY DEF TypeInv, TypeOK
<1>2. CASE SendJoinConfig
  BY <1>1, <1>2 DEF SendJoinConfig, Coordinator, NoHandlerChanges, apLocals, bounds,
                    switches
<1>3. CASE SendGoAway
  BY <1>1, <1>3 DEF SendGoAway, Coordinator, NoHandlerChanges, apLocals, bounds,
                    switches
<1>4. QED
  BY <1>2, <1>3

\* Every task that remains gets a host id of its own that no row holds.
LEMMA CoAssigns ==
    ASSUME TypeInv, AssignHostIds \/ TooFewHostIds
    PROVE  /\ co.pc = "ids" /\ co'.pc = "task"
           /\ co'.kind = co.kind /\ co'.avail = co.avail
           /\ DOMAIN co'.todo \subseteq DOMAIN co.todo
           /\ \A i \in DOMAIN co'.todo :
                 /\ co'.todo[i].node = co.todo[i].node /\ co'.todo[i].ap = co.todo[i].ap
                 /\ co'.todo[i].port = co.todo[i].port
                 /\ co'.todo[i].hid \in BatchIds
                 /\ \A j \in DOMAIN co'.todo :
                       i # j => co'.todo[i].hid # co'.todo[j].hid
           /\ NoHandlerChanges /\ UNCHANGED <<tables, lpm>>
<1>1. /\ co.pc = "ids" /\ co.todo \in Seq(Task)
      /\ NoHandlerChanges /\ UNCHANGED <<tables, lpm>>
  BY Numbering DEF NoHandlerChanges, apLocals, bounds, switches
<1>2. PICK k \in Nat : k <= Len(co.todo) /\ \E ids \in Smallest(BatchIds, k) : Numbers(ids)
  BY Numbering
<1>3. PICK ids \in Smallest(BatchIds, k) : Numbers(ids)
  BY <1>2
<1>4. ids \in [1..k -> BatchIds]
  BY SmallestType
<1>5. \A i, j \in 1..k : i < j => ids[i] < ids[j]
  BY DEF Smallest
<1>6. BatchIds \subseteq Int
  BY BatchIdsType, ConstantsOK DEF HostIds
<1>7. \A i, j \in 1..k : i # j => ids[i] # ids[j]
  <2> SUFFICES ASSUME NEW i \in 1..k, NEW j \in 1..k, i # j
               PROVE  ids[i] # ids[j]
    OBVIOUS
  <2>1. i < j \/ j < i
    OBVIOUS
  <2>2. ids[i] \in Int /\ ids[j] \in Int
    BY <1>4, <1>6
  <2>3. QED
    BY <1>5, <2>1, <2>2
<1>8. /\ 1..k \subseteq DOMAIN co.todo
      /\ \A i \in 1..k : co.todo[i] \in Task
  BY <1>1, <1>2
<1>9. /\ DOMAIN Assigned(ids) = 1..k
      /\ \A i \in 1..k : Assigned(ids)[i] = [co.todo[i] EXCEPT !.hid = ids[i]]
  BY <1>4 DEF Assigned
<1>10. \A i \in 1..k :
          /\ Assigned(ids)[i].node = co.todo[i].node
          /\ Assigned(ids)[i].ap = co.todo[i].ap
          /\ Assigned(ids)[i].port = co.todo[i].port /\ Assigned(ids)[i].hid = ids[i]
  BY <1>8, <1>9 DEF Task
<1>11. /\ co'.pc = "task" /\ co'.todo = Assigned(ids)
       /\ co'.kind = co.kind /\ co'.avail = co.avail
  BY <1>3 DEF Numbers
<1>12. QED
  BY <1>1, <1>4, <1>7, <1>8, <1>9, <1>10, <1>11

-------------------------------------------------------------------------------
(* At most one handler is at work on a calm node.                          *)

Alone ==
    \A n \in Calm :
        /\ \A a, b \in APs : Works(a, n) /\ Works(b, n) => a = b
        /\ Joining(n) => \A a \in APs : ~Works(a, n)

\* What history records is forgotten only of a node that a handler takes out of
\* both tables.
LEMMA DisturbedGrows ==
    ASSUME TypeOK, [Next]_vars
    PROVE  \/ disturbed \subseteq disturbed'
           \/ \E a \in APs : DeleteFromSwarm(a)
<1>1. CASE \E a \in APs : APStep(a)
  BY <1>1 DEF APStep, DropRepeatedLine, SkipConnectedStation, NewStation, LostStation,
              StartHandler, ArpMiss, ReadArt, GetHostId, APManagerDies, SendConfig,
              SendConfigFails, ConfigTimeout, RegisterInArt, RegisterInSwarm, DumpPorts,
              UpdatePorts, ReplicateEntries, IgnoreLostStation, StartGrace,
              StationCameBack, GraceOver, StationMoved, RemoveStation, DeleteEntries,
              DumpPortsToDelete, DeletePort, DeleteFromArt
<1>2. CASE CoordinatorStep
  BY <1>2 DEF CoordinatorStep, AssignHostIds, TooFewHostIds, SendJoinConfig, SendGoAway,
              TaskFails, InsertSwarmRow, UpdateArt, CoDumpPorts, CoUpdatePorts,
              CoReplicateEntries, Answer, CloseUnanswered
<1>3. CASE \E n \in Nodes : NodeStep(n)
  BY <1>3 DEF NodeStep, HandleMessage, LeaveNetwork, ReturnToNetwork
<1>4. CASE Environment
  <2>1. CASE RestartCoordinator \/ \E a \in APs : RestartAPManager(a)
    BY <2>1 DEF RestartCoordinator, RestartAPManager
  <2>2. CASE CoQueryFails \/ \E a \in APs : APQueryFails(a)
    BY <2>2 DEF CoQueryFails, APQueryFails, Damage, HostIdsReadFails,
                InsertSwarmRowFails, UpdateArtFails, NewStationReadFails,
                LostStationReadFails, RegisterInArtFails, RegisterInSwarmFails,
                DeleteFromArtFails, DeleteFromSwarmFails
  <2>3. CASE \E n \in Nodes : (\E a \in APs : Associate(n, a)) \/ Disassociate(n)
                              \/ SpuriousDetection(n)
    BY <2>3 DEF Associate, Disassociate, SpuriousDetection
  <2>4. CASE \E S \in SUBSET Nodes : AcceptRequest("njl", S) \/ AcceptRequest("nll", S)
    BY <2>4 DEF AcceptRequest
  <2>5. QED
    BY <1>4, <2>1, <2>2, <2>3, <2>4 DEF Environment
<1>5. CASE UNCHANGED vars
  BY <1>5 DEF vars
<1>6. QED
  BY <1>1, <1>2, <1>3, <1>4, <1>5 DEF Next

\* No work begins in a step after which every handler and the request are on
\* nodes they were on before.
LEMMA NoNewWork ==
    ASSUME Alone, Calm' \subseteq Calm,
           \A n \in Calm' :
              /\ \A a \in APs : Works(a, n)' => Works(a, n)
              /\ Joining(n)' => Joining(n)
    PROVE  Alone'
  BY DEF Alone, Calm

\* A request that is dropped, or loses its first task, lists no new node.
LEMMA JoiningShrinks ==
    ASSUME TypeInv, co'.kind = co.kind \/ co' = IdleCoordinator,
           \/ co' = IdleCoordinator
           \/ co'.avail = co.avail /\ (co'.todo = co.todo
                 \/ (co.todo # <<>> /\ co'.todo = Tail(co.todo)))
    PROVE  \A n \in Nodes : Joining(n)' => Joining(n)
<1>1. co.todo \in Seq(Task)
  BY DEF TypeInv, TypeOK, Coordinator
<1>2. CASE co' = IdleCoordinator
  BY <1>2 DEF IdleCoordinator, Joining
<1>3. CASE co'.kind = co.kind /\ co'.avail = co.avail /\ co'.todo = co.todo
  BY <1>3 DEF Joining
<1>4. CASE /\ co'.kind = co.kind /\ co'.avail = co.avail
           /\ co.todo # <<>> /\ co'.todo = Tail(co.todo)
  BY <1>1, <1>4, TailTasks DEF Joining
<1>5. QED
  BY <1>2, <1>3, <1>4

\* A request puts no new node into anybody's hands after it was accepted.
LEMMA CoordinatorAlone ==
    ASSUME TypeInv, CoordinatorStep, NEW n \in Nodes, Joining(n)'
    PROVE  Joining(n)
<1>0. co.todo \in Seq(Task)
  BY DEF TypeInv, TypeOK, Coordinator
<1>1. CASE CoEnds
  BY <1>1, CoEndsIdle, JoiningShrinks
<1>2. CASE CoDrops
  BY <1>2, CoDropsFirst, JoiningShrinks
<1>3. CASE InsertSwarmRow
  <2>1. SameRequest
    BY <1>3, CoSteps DEF InsertSwarmRow, CoPCs
  <2>2. QED
    BY <2>1, JoiningShrinks DEF SameRequest
<1>4. CASE UpdateArt
  <2>1. SameRequest
    BY <1>4, CoSteps DEF UpdateArt, CoPCs
  <2>2. QED
    BY <2>1, JoiningShrinks DEF SameRequest
<1>5. CASE CoDumpPorts \/ CoUpdatePorts
  BY <1>5, CoSwitchSteps, JoiningShrinks DEF SameRequest
<1>6. CASE SendJoinConfig \/ SendGoAway
  <2>1. Head(co.todo) = co.todo[1] /\ 1 \in DOMAIN co.todo
    BY <1>0, <1>6, CoSends, TailTasks
  <2>2. CASE co.kind = "njl" /\ co'.todo = co.todo
    BY <1>6, <2>1, <2>2, CoSends DEF Joining
  <2>3. QED
    BY <1>6, <2>2, CoSends DEF Joining
<1>7. CASE AssignHostIds \/ TooFewHostIds
  BY <1>7, CoAssigns DEF Joining
<1>8. QED
  BY <1>1, <1>2, <1>3, <1>4, <1>5, <1>6, <1>7
     DEF CoordinatorStep, CoEnds, CoDrops

\* A new request's nodes: one that is in somebody's hands is not calm.
LEMMA AcceptAlone ==
    ASSUME TypeInv, Alone, NEW kind \in {"njl", "nll"}, NEW S \in SUBSET Nodes,
           AcceptRequest(kind, S)
    PROVE  Alone'
<1> DEFINE C == Candidates(kind, S)
<1>1. PICK order \in Orders(C) :
         co' = IF order = <<>> THEN IdleCoordinator
               ELSE [IdleCoordinator EXCEPT
                       !.pc = "ids", !.kind = kind,
                       !.todo = [i \in DOMAIN order |-> NewTask(order[i])]]
  BY DEF AcceptRequest
<1>2. C \in SUBSET Nodes
  BY DEF Candidates
<1>3. order \in Seq(C)
  BY <1>1, <1>2, OrdersType
<1>4. ap' = ap /\ disturbed \subseteq disturbed'
      /\ (kind = "njl" => disturbed' = disturbed \cup {n \in C : Contended(n)})
  BY DEF AcceptRequest
<1> HIDE DEF C
<1>5. ASSUME NEW n \in Nodes, Joining(n)'
      PROVE  kind = "njl" /\ n \in C
  <2>1. co' = [IdleCoordinator EXCEPT
                 !.pc = "ids", !.kind = kind,
                 !.todo = [i \in DOMAIN order |-> NewTask(order[i])]]
    <3>1. co' # IdleCoordinator
      BY <1>5 DEF IdleCoordinator, Joining
    <3>2. QED
      BY <1>1, <3>1
  <2>2. /\ co'.kind = kind /\ co'.avail = {}
        /\ co'.todo = [i \in DOMAIN order |-> NewTask(order[i])]
    BY <2>1 DEF IdleCoordinator
  <2>3. PICK i \in DOMAIN order : NewTask(order[i]).node = n
    BY <1>5, <2>2 DEF Joining
  <2>4. order[i] = n /\ order[i] \in C
    BY <1>3, <2>3 DEF NewTask
  <2>5. QED
    BY <1>5, <2>2, <2>4 DEF Joining
<1>6. QED
  BY <1>4, <1>5 DEF Alone, Calm, Works, Contended

\* A failed query of an AP manager begins no work.  Its node stays calm only
\* after a failed read, or if there was no row to delete.
LEMMA APQueryFailsMoves ==
    ASSUME TypeInv, NEW a \in APs, APQueryFails(a)
    PROVE  /\ ap'[a].node \in {ap[a].node, None} /\ OthersKept(a)
           /\ ap[a].node \in Nodes
           /\ UNCHANGED <<tables, co, restarts, lpm>>
           /\ \/ disturbed' = disturbed \cup {ap[a].node}
              \/ /\ disturbed' = disturbed /\ ap'[a].node = None
                 /\ ap'[a].pc \in {"idle", "dead"} /\ connected' = connected
                 /\ \/ ap[a].pc \in {"arp", "hostid", "del", "reread"} /\ tunnel' = tunnel
                    \/ /\ ap[a].pc = "delswarm" /\ swarmTable[ap[a].node] = None
                       /\ DeleteTunnel(a)
<1>0. TypeOK /\ HandlerOK(a)
  BY DEF TypeInv
<1>1. UNCHANGED <<co, restarts, lpm>>
  BY DEF APQueryFails, switches
<1>2. CASE NewStationReadFails(a)
  <2>1. ap[a].node \in Nodes
    BY <1>0, <1>2 DEF NewStationReadFails, HandlerOK
  <2>2. ap'[a].node = None /\ ap'[a].pc = "dead" /\ OthersKept(a)
    BY <1>0, <1>2 DEF NewStationReadFails, TypeOK, OthersKept, IdleHandler
  <2>3. QED
    BY <1>1, <1>2, <2>1, <2>2 DEF NewStationReadFails
<1>3. CASE LostStationReadFails(a)
  <2>1. ap'[a].node = None /\ ap'[a].pc = "idle" /\ OthersKept(a)
    BY <1>0, <1>3 DEF LostStationReadFails, Finish, TypeOK, OthersKept, IdleHandler
  <2>2. ap[a].node \in Nodes
    BY <1>0, <1>3 DEF LostStationReadFails, HandlerOK
  <2>3. QED
    BY <1>1, <1>3, <2>1, <2>2 DEF LostStationReadFails
<1>4. CASE RegisterInArtFails(a)
  <2>1. PICK to \in PCs : ap' = [ap EXCEPT ![a].pc = to]
    BY <1>4 DEF RegisterInArtFails, EnterStation, Step, PCs, NewPC, SwitchPC
  <2>2. ap'[a].node = ap[a].node /\ OthersKept(a)
    BY <1>0, <2>1, PCUpdate DEF OthersKept
  <2>3. ap[a].node \in Nodes
    BY <1>4, EnterStationType DEF RegisterInArtFails
  <2>4. QED
    BY <1>1, <1>4, <2>2, <2>3 DEF RegisterInArtFails, Damage
<1>5. CASE RegisterInSwarmFails(a) \/ DeleteFromArtFails(a)
  <2>1. PICK to \in PCs : ap' = [ap EXCEPT ![a].pc = to]
    BY <1>5 DEF RegisterInSwarmFails, DeleteFromArtFails, Step, PCs, DelPC, SwitchPC
  <2>2. ap'[a].node = ap[a].node /\ OthersKept(a)
    BY <1>0, <2>1, PCUpdate DEF OthersKept
  <2>3. ap[a].node \in Nodes
    BY <1>0, <1>5 DEF RegisterInSwarmFails, DeleteFromArtFails, Step, HandlerOK
  <2>4. QED
    BY <1>1, <1>5, <2>2, <2>3 DEF RegisterInSwarmFails, DeleteFromArtFails, Damage
<1>6. CASE DeleteFromSwarmFails(a)
  <2>1. ap'[a].node = None /\ ap'[a].pc = "idle" /\ OthersKept(a)
    BY <1>0, <1>6 DEF DeleteFromSwarmFails, DeleteTunnel, Finish, TypeOK, OthersKept,
                      IdleHandler
  <2>2. ap[a].node \in Nodes /\ DeleteTunnel(a) /\ ap[a].pc = "delswarm"
    BY <1>6, DeleteTunnelType DEF DeleteFromSwarmFails, DeleteTunnel
  <2>3. UNCHANGED <<tables, connected>>
    BY <1>6 DEF DeleteFromSwarmFails
  <2>4. disturbed' = IF swarmTable[ap[a].node] # None
                     THEN disturbed \cup {ap[a].node} ELSE disturbed
    BY <1>6, <2>2 DEF DeleteFromSwarmFails, Works
  <2>5. QED
    BY <1>1, <2>1, <2>2, <2>3, <2>4
<1>7. QED
  BY <1>2, <1>3, <1>4, <1>5, <1>6 DEF APQueryFails

\* So does a failed query of the coordinator, which leaves its node disturbed.
LEMMA CoQueryFailsMoves ==
    ASSUME TypeInv, CoQueryFails
    PROVE  /\ UNCHANGED <<tables, ap, connected, tunnel, lpm, restarts>>
           /\ \/ co.pc = "ids" /\ co' = IdleCoordinator /\ disturbed' = disturbed
              \/ /\ <<co.pc, co'.pc>> \in {<<"swarmrow", "artrow">>, <<"artrow", "dump">>}
                 /\ SameRequest
                 /\ co.todo # <<>> /\ Head(co.todo) = co.todo[1] /\ 1 \in DOMAIN co.todo
                 /\ Head(co.todo).node \in Nodes
                 /\ disturbed' = disturbed \cup {Head(co.todo).node}
<1>1. UNCHANGED <<tables, ap, connected, tunnel, lpm, restarts>>
  BY DEF CoQueryFails, apLocals, switches
<1>2. CASE HostIdsReadFails
  BY <1>1, <1>2 DEF HostIdsReadFails, CoFinish
<1>3. CASE InsertSwarmRowFails
  <2>1. CoStep("swarmrow", "artrow")
    BY <1>3 DEF InsertSwarmRowFails
  <2>2. QED
    BY <1>1, <1>3, <2>1, CoSteps DEF InsertSwarmRowFails, Damage, CoPCs
<1>4. CASE UpdateArtFails
  <2>1. CoStep("artrow", "dump")
    BY <1>4 DEF UpdateArtFails
  <2>2. QED
    BY <1>1, <1>4, <2>1, CoSteps DEF UpdateArtFails, Damage, CoPCs
<1>5. QED
  BY <1>2, <1>3, <1>4 DEF CoQueryFails

\* What the ART makes of a new station.
LEMMA ReadArtMoves ==
    ASSUME TypeInv, NEW a \in APs, ReadArt(a)
    PROVE  LET n == ap[a].node
           IN /\ ap[a].pc = "arp" /\ n \in Nodes /\ ap'[a].node = n /\ OthersKept(a)
              /\ ap'[a].port \in TunnelIds(a, n)
              /\ tunnel' = [tunnel EXCEPT ![a][n] = ap'[a].port]
              /\ IF Member(n) THEN ap'[a].pc = "hostid" /\ ap'[a].swarm = 1
                 ELSE ap'[a].pc = "send" /\ ap'[a].swarm = 0 /\ ap'[a].vip = n
              /\ UNCHANGED <<tables, connected, co, disturbed, restarts, lpm>>
<1> DEFINE n == ap[a].node
           member == art[n] # None /\ art[n].swarm # 0
<1>0. TypeOK /\ HandlerOK(a) /\ ap[a] \in Handler
  BY DEF TypeInv, TypeOK
<1>1. ap[a].pc = "arp" /\ n \in Nodes
      /\ UNCHANGED <<tables, connected, co, disturbed, restarts, lpm>>
  BY <1>0 DEF ReadArt, HandlerOK, switches, bounds
<1>2. Member(n) <=> member
  <2>1. art[n] # None => art[n].swarm \in {0, 1}
    BY <1>0, <1>1 DEF TypeOK, ArtRow
  <2>2. QED
    BY <2>1 DEF Member
<1>3. PICK p \in TunnelIds(a, n) :
         /\ tunnel' = [tunnel EXCEPT ![a][n] = p]
         /\ ap' = [ap EXCEPT ![a].pc = IF member THEN "hostid" ELSE "send",
                             ![a].swarm = IF member THEN 1 ELSE 0,
                             ![a].vip = IF member THEN None ELSE n,
                             ![a].port = p]
  BY DEF ReadArt
<1> HIDE DEF member, n
<1> DEFINE h == [ap[a] EXCEPT !.pc = IF member THEN "hostid" ELSE "send",
                              !.swarm = IF member THEN 1 ELSE 0,
                              !.vip = IF member THEN None ELSE n, !.port = p]
<1>4. ap'[a] = h /\ OthersKept(a)
  BY <1>0, <1>3 DEF TypeOK, OthersKept
<1>5. /\ h.node = ap[a].node /\ h.port = p
      /\ h.pc = IF member THEN "hostid" ELSE "send"
      /\ h.swarm = IF member THEN 1 ELSE 0
      /\ h.vip = IF member THEN None ELSE n
  BY <1>0 DEF Handler
<1> HIDE DEF h
<1>6. QED
  BY <1>1, <1>2, <1>3, <1>4, <1>5 DEF n

\* The steps of an AP manager's handler that read or write a row and go on.
RowSteps(a) ==
    \/ ReadArt(a) \/ GetHostId(a) \/ RegisterInArt(a) \/ RegisterInSwarm(a)
    \/ RemoveStation(a) \/ DeleteFromArt(a)

\* They too stay on their node.
LEMMA RowStepsMove ==
    ASSUME TypeInv, NEW a \in APs, RowSteps(a)
    PROVE  /\ ap'[a].node = ap[a].node /\ OthersKept(a)
           /\ ap[a].node \in Nodes
           /\ UNCHANGED <<co, disturbed, restarts, lpm>>
<1>0. TypeOK /\ HandlerOK(a) /\ ap[a] \in Handler
  BY DEF TypeInv, TypeOK
<1>1. ap[a].node \in Nodes
  BY <1>0 DEF RowSteps, ReadArt, GetHostId, RegisterInArt, EnterStation, RegisterInSwarm,
              RemoveStation, DeleteFromArt, Step, HandlerOK
<1>2. UNCHANGED <<co, disturbed, restarts, lpm>>
  BY DEF RowSteps, ReadArt, GetHostId, RegisterInArt, RegisterInSwarm,
         RemoveStation, DeleteFromArt, apLocals, switches, bounds
<1>3. CASE RegisterInArt(a) \/ RegisterInSwarm(a) \/ DeleteFromArt(a)
  <2>1. PICK to \in PCs : ap' = [ap EXCEPT ![a].pc = to]
    BY <1>3 DEF RegisterInArt, EnterStation, RegisterInSwarm, DeleteFromArt, Step,
                PCs, NewPC, DelPC, SwitchPC
  <2>2. QED
    BY <1>0, <1>1, <1>2, <2>1, PCUpdate DEF OthersKept
<1>4. CASE ReadArt(a)
  BY <1>1, <1>2, <1>4, ReadArtMoves
<1>5. CASE GetHostId(a)
  <2>1. PICK h : ap' = [ap EXCEPT ![a].pc = "send", ![a].vip = h]
    BY <1>5 DEF GetHostId
  <2>2. ap'[a] = [ap[a] EXCEPT !.pc = "send", !.vip = h] /\ OthersKept(a)
    BY <1>0, <2>1 DEF TypeOK, OthersKept
  <2>3. ap'[a].node = ap[a].node
    BY <1>0, <2>2 DEF Handler
  <2>4. QED
    BY <1>1, <1>2, <2>2, <2>3
<1>6. CASE RemoveStation(a)
  <2>1. PICK v, p, q : ap' = [ap EXCEPT ![a].pc = "delentries", ![a].vip = v,
                                        ![a].port = p, ![a].bcast = q]
    BY <1>6 DEF RemoveStation
  <2>2. ap'[a] = [ap[a] EXCEPT !.pc = "delentries", !.vip = v, !.port = p, !.bcast = q]
        /\ OthersKept(a)
    BY <1>0, <2>1 DEF TypeOK, OthersKept
  <2>3. ap'[a].node = ap[a].node
    BY <1>0, <2>2 DEF Handler
  <2>4. QED
    BY <1>1, <1>2, <2>2, <2>3
<1>7. QED
  BY <1>3, <1>4, <1>5, <1>6 DEF RowSteps

\* The last step of a lost station's handler.  A node that it finds disturbed
\* is calm again if it is in neither table and in nobody's hands.
LEMMA DeleteFromSwarmMoves ==
    ASSUME TypeInv, NEW a \in APs, DeleteFromSwarm(a)
    PROVE  LET n == ap[a].node
           IN /\ ap[a].pc = "delswarm" /\ n \in Nodes
              /\ ap'[a].node = None /\ ap'[a].pc = "idle" /\ OthersKept(a)
              /\ swarmTable'[n] = None
              /\ \A m \in Nodes \ {n} : swarmTable'[m] = swarmTable[m]
              /\ Calm \subseteq Calm'
              /\ \A m \in Calm' \ Calm : /\ m = n /\ art[m] = None /\ ~Joining(m)
                                         /\ \A b \in APs \ {a} : ~Works(b, m)
              /\ UNCHANGED <<art, connected, co, restarts, lpm>>
<1>0. TypeOK
  BY DEF TypeInv
<1>1. ap[a].pc = "delswarm" /\ ap[a].node \in Nodes
  BY DeleteTunnelType, <1>0 DEF DeleteFromSwarm, DeleteTunnel, TypeInv
<1>2. ap'[a].node = None /\ ap'[a].pc = "idle" /\ OthersKept(a)
  BY <1>0 DEF DeleteFromSwarm, DeleteTunnel, Finish, TypeOK, OthersKept, IdleHandler
<1>3. /\ swarmTable'[ap[a].node] = None
      /\ \A m \in Nodes \ {ap[a].node} : swarmTable'[m] = swarmTable[m]
  BY <1>0, <1>1 DEF DeleteFromSwarm, TypeOK
<1>4. /\ Calm \subseteq Calm'
      /\ \A m \in Calm' \ Calm : m \in Cleared(a)
  BY DEF DeleteFromSwarm, Calm
<1>5. \A m \in Cleared(a) : /\ m = ap[a].node /\ art[m] = None /\ ~Joining(m)
                            /\ \A b \in APs \ {a} : ~Works(b, m)
  BY DEF Cleared, Works
<1>6. UNCHANGED <<art, connected, co, restarts, lpm>>
  BY DEF DeleteFromSwarm, switches
<1>7. QED
  BY <1>1, <1>2, <1>3, <1>4, <1>5, <1>6

\* The steps of an AP manager, by what they do to its handler.
LEMMA APStepKinds ==
    ASSUME NEW a \in APs, APStep(a)
    PROVE  \/ UNCHANGED <<ap, tables, connected, tunnel, co, disturbed, restarts, lpm>>
           \/ NewStation(a) \/ LostStation(a)
           \/ Advances(a) \/ Ends(a) \/ APManagerDies(a) \/ RowSteps(a)
           \/ DeleteFromSwarm(a)
<1>1. CASE DropRepeatedLine(a) \/ SkipConnectedStation(a)
  BY <1>1 DEF DropRepeatedLine, SkipConnectedStation, switches, bounds
<1>2. QED
  BY <1>1 DEF APStep, Advances, Ends, RowSteps

\* The steps of the environment that concern no handler, no row, no tunnel.
LEMMA RadioKeeps ==
    ASSUME NEW n \in Nodes,
           (\E a \in APs : Associate(n, a)) \/ Disassociate(n) \/ SpuriousDetection(n)
    PROVE  UNCHANGED <<ap, tables, connected, tunnel, co, disturbed, restarts, lpm>>
  BY DEF Associate, Disassociate, SpuriousDetection, apLocals, switches

\* Alone is inductive.
LEMMA AloneStep == TypeInv /\ Alone /\ [Next]_vars => Alone'
<1> SUFFICES ASSUME TypeInv, Alone, [Next]_vars
             PROVE  Alone'
  OBVIOUS
<1>0. TypeOK
  BY DEF TypeInv
<1>a. CASE \E a \in APs : DeleteFromSwarm(a)
  <2>1. PICK a \in APs : DeleteFromSwarm(a)
    BY <1>a
  <2>2. /\ ap'[a].node = None /\ OthersKept(a) /\ co' = co
        /\ \A m \in Calm' \ Calm : ~Joining(m) /\ \A b \in APs \ {a} : ~Works(b, m)
    BY <2>1, DeleteFromSwarmMoves
  <2>3. \A n \in Calm', b \in APs : Works(b, n)' => b # a /\ Works(b, n)
    BY <2>2, ConstantsOK DEF Works, OthersKept, Calm
  <2>4. \A n \in Calm' : Joining(n)' => Joining(n)
    BY <2>2 DEF Joining
  <2>5. QED
    BY <2>2, <2>3, <2>4 DEF Alone
<1>b. SUFFICES ASSUME ~ \E a \in APs : DeleteFromSwarm(a)
               PROVE  Alone'
  BY <1>a
<1>c. Calm' \subseteq Calm
  BY <1>0, <1>b, DisturbedGrows DEF Calm
<1> USE <1>0, <1>c
<1>1. ASSUME NEW a \in APs, APStep(a)
      PROVE  Alone'
  <2>1. CASE UNCHANGED <<ap, tables, connected, tunnel, co, disturbed, restarts, lpm>>
    BY <2>1, NoNewWork DEF Works, Joining
  <2>2. CASE NewStation(a) \/ LostStation(a)
    BY <2>2, StartsAlone DEF Alone, Calm, Works, OthersKept, Contended, Joining
  <2>3. CASE Advances(a)
    BY <2>3, AdvancesMove, NoNewWork
       DEF Works, OthersKept, SameStation, NoRowChanges, Joining
  <2>4. CASE Ends(a)
    BY <2>4, EndsFinish, NoNewWork, ConstantsOK
       DEF Works, OthersKept, NoRowChanges, Joining, Calm
  <2>5. CASE APManagerDies(a)
    BY <2>5, DiesMoves, NoNewWork, ConstantsOK DEF Works, OthersKept, Joining, Calm
  <2>6. CASE RowSteps(a)
    BY <2>6, RowStepsMove, NoNewWork, ConstantsOK DEF Works, OthersKept, Joining, Calm
  <2>7. QED
    BY <1>1, <1>b, <2>1, <2>2, <2>3, <2>4, <2>5, <2>6, APStepKinds
<1>2. CASE CoordinatorStep
  <2>1. ap' = ap
    BY <1>2 DEF CoordinatorStep, AssignHostIds, TooFewHostIds, SendJoinConfig, SendGoAway,
                TaskFails, InsertSwarmRow, UpdateArt, CoDumpPorts, CoUpdatePorts,
                CoReplicateEntries, Answer, CloseUnanswered
  <2>2. QED
    BY <1>2, <2>1, CoordinatorAlone, NoNewWork DEF Works, Calm
<1>3. ASSUME NEW n \in Nodes, NodeStep(n)
      PROVE  Alone'
  <2>1. \A a \in APs : ap'[a].node = ap[a].node
    BY <1>3, MessageAcks DEF SameStation
  <2>2. co' = co
    BY <1>3 DEF NodeStep, HandleMessage, LeaveNetwork, ReturnToNetwork
  <2>3. QED
    BY <2>1, <2>2, NoNewWork DEF Works, Joining
<1>4. CASE Environment
  <2>1. ASSUME NEW S \in SUBSET Nodes, AcceptRequest("njl", S) \/ AcceptRequest("nll", S)
        PROVE  Alone'
    BY <2>1, AcceptAlone
  <2>2. ASSUME NEW a \in APs, RestartAPManager(a)
        PROVE  Alone'
    <3>1. ap'[a].node = None /\ OthersKept(a) /\ co' = co
      BY <2>2 DEF RestartAPManager, Finish, IdleHandler, TypeOK, OthersKept
    <3>2. QED
      BY <3>1, NoNewWork, ConstantsOK DEF Works, OthersKept, Joining, Calm
  <2>3. CASE RestartCoordinator
    <3>1. ap' = ap /\ co' = IdleCoordinator
      BY <2>3 DEF RestartCoordinator, CoFinish
    <3>2. \A n \in Nodes : ~Joining(n)'
      BY <3>1 DEF IdleCoordinator, Joining
    <3>3. QED
      BY <3>1, <3>2, NoNewWork DEF Works, Calm
  <2>4. ASSUME NEW a \in APs, APQueryFails(a)
        PROVE  Alone'
    BY <2>4, APQueryFailsMoves, NoNewWork, ConstantsOK
       DEF Works, OthersKept, Joining, Calm
  <2>5. CASE CoQueryFails
    <3>1. ap' = ap /\ \A n \in Nodes : Joining(n)' => Joining(n)
      BY <2>5, CoQueryFailsMoves, JoiningShrinks DEF SameRequest
    <3>2. QED
      BY <3>1, NoNewWork DEF Works, Calm
  <2>6. CASE \E n \in Nodes : (\E a \in APs : Associate(n, a)) \/ Disassociate(n)
                              \/ SpuriousDetection(n)
    BY <2>6, RadioKeeps, NoNewWork DEF Works, Joining
  <2>7. QED
    BY <1>4, <2>1, <2>2, <2>3, <2>4, <2>5, <2>6 DEF Environment
<1>5. CASE UNCHANGED vars
  BY <1>5, NoNewWork DEF vars, Works, Joining
<1>6. QED
  BY <1>1, <1>2, <1>3, <1>4, <1>5 DEF Next

-------------------------------------------------------------------------------
(* The row steps in detail.                                                *)

\* The id of a returning member is looked up.
LEMMA GetHostIdMoves ==
    ASSUME TypeInv, NEW a \in APs, GetHostId(a)
    PROVE  /\ ap[a].pc = "hostid" /\ ap'[a].pc = "send"
           /\ ap'[a].node = ap[a].node /\ ap'[a].swarm = ap[a].swarm /\ ap[a].swarm = 1
           /\ ap'[a].port = ap[a].port /\ ap'[a].vip \in NextIds(ap[a].node)
           /\ OthersKept(a)
           /\ UNCHANGED <<tables, connected, tunnel, co, disturbed, restarts, lpm>>
<1>0. TypeOK /\ HandlerOK(a) /\ ap[a] \in Handler
  BY DEF TypeInv, TypeOK
<1>1. PICK v \in NextIds(ap[a].node) : ap' = [ap EXCEPT ![a].pc = "send", ![a].vip = v]
  BY DEF GetHostId
<1> DEFINE h == [ap[a] EXCEPT !.pc = "send", !.vip = v]
<1>2. ap'[a] = h /\ OthersKept(a)
  BY <1>0, <1>1 DEF TypeOK, OthersKept
<1>3. /\ h.node = ap[a].node /\ h.swarm = ap[a].swarm /\ h.port = ap[a].port
      /\ h.pc = "send" /\ h.vip = v
  BY <1>0 DEF Handler
<1> HIDE DEF h
<1>4. /\ ap[a].pc = "hostid" /\ ap[a].swarm = 1
      /\ UNCHANGED <<tables, connected, tunnel, co, disturbed, restarts, lpm>>
  BY <1>0 DEF GetHostId, HandlerOK, apLocals, switches, bounds
<1>5. QED
  BY <1>1, <1>2, <1>3, <1>4

\* The station enters connected_stations.
LEMMA EnterStationMoves ==
    ASSUME TypeInv, NEW a \in APs, EnterStation(a)
    PROVE  /\ ap[a].pc = "acked" /\ ap[a].node \in Nodes /\ ap[a].swarm \in {0, 1}
           /\ ap'[a].pc = IF ap[a].swarm = 0 THEN "replicate" ELSE "swarmrow"
           /\ SameStation(a) /\ OthersKept(a)
           /\ connected' = [connected EXCEPT
                 ![a][ap[a].node] = [vip |-> ap[a].vip, port |-> ap[a].port]]
<1>0. TypeOK /\ HandlerOK(a) /\ ap[a] \in Handler
  BY DEF TypeInv, TypeOK
<1> DEFINE to == IF ap[a].swarm = 0 THEN "replicate" ELSE "swarmrow"
<1>1. /\ ap[a].pc = "acked" /\ ap' = [ap EXCEPT ![a].pc = to] /\ to \in PCs
      /\ connected' = [connected EXCEPT
                 ![a][ap[a].node] = [vip |-> ap[a].vip, port |-> ap[a].port]]
  BY DEF EnterStation, Step, PCs, NewPC, SwitchPC
<1> HIDE DEF to
<1>2. ap'[a].pc = to /\ SameStation(a) /\ OthersKept(a)
  BY <1>0, <1>1, PCUpdate DEF SameStation, OthersKept
<1>3. ap[a].node \in Nodes /\ ap[a].swarm \in {0, 1}
  BY <1>0, <1>1 DEF HandlerOK, Handler
<1>4. QED
  BY <1>1, <1>2, <1>3 DEF to

\* The writes that only move the handler on.
LEMMA RowWritesMove ==
    ASSUME TypeInv, NEW a \in APs, RegisterInSwarm(a) \/ DeleteFromArt(a)
    PROVE  /\ ap[a].node \in Nodes
           /\ <<ap[a].pc, ap'[a].pc>> = IF RegisterInSwarm(a) THEN <<"swarmrow", "dump">>
                                        ELSE <<"delart", "delswarm">>
           /\ SameStation(a) /\ OthersKept(a)
           /\ UNCHANGED <<connected, tunnel, co, disturbed, restarts, lpm>>
<1>0. TypeOK /\ HandlerOK(a)
  BY DEF TypeInv
<1> DEFINE to == IF RegisterInSwarm(a) THEN "dump" ELSE "delswarm"
<1>1. /\ ap[a].pc = IF RegisterInSwarm(a) THEN "swarmrow" ELSE "delart"
      /\ ap' = [ap EXCEPT ![a].pc = to]
      /\ UNCHANGED <<connected, tunnel, co, disturbed, restarts, lpm>>
  BY DEF RegisterInSwarm, DeleteFromArt, Step, apLocals, switches, bounds
<1>2. to \in PCs
  BY DEF PCs, DelPC, SwitchPC
<1> HIDE DEF to
<1>3. ap'[a].pc = to /\ SameStation(a) /\ OthersKept(a)
  BY <1>0, <1>1, <1>2, PCUpdate DEF SameStation, OthersKept
<1>4. ap[a].node \in Nodes
  BY <1>0, <1>1 DEF HandlerOK
<1>5. QED
  BY <1>1, <1>3, <1>4 DEF to

\* A lost station leaves connected_stations.
LEMMA RemoveStationMoves ==
    ASSUME TypeInv, NEW a \in APs, RemoveStation(a)
    PROVE  LET n == ap[a].node
           IN /\ ap[a].pc = "reread" /\ ap'[a].pc = "delentries"
              /\ n \in Nodes /\ ap'[a].node = n /\ OthersKept(a)
              /\ RegisteredAt(a, n) /\ connected[a][n] # None
              /\ ap'[a].vip = connected[a][n].vip /\ ap'[a].port = connected[a][n].port
              /\ connected' = [connected EXCEPT ![a][n] = None]
              /\ UNCHANGED <<tables, tunnel, co, disturbed, restarts, lpm>>
<1> DEFINE n == ap[a].node
<1>0. TypeOK /\ HandlerOK(a) /\ ap[a] \in Handler
  BY DEF TypeInv, TypeOK
<1>1. /\ ap[a].pc = "reread" /\ RegisteredAt(a, n)
      /\ ap' = [ap EXCEPT ![a].pc = "delentries", ![a].vip = connected[a][n].vip,
                          ![a].port = connected[a][n].port, ![a].bcast = art[n].port]
      /\ connected' = [connected EXCEPT ![a][n] = None]
      /\ UNCHANGED <<tables, tunnel, co, disturbed, restarts, lpm>>
  BY DEF RemoveStation, switches, bounds
<1>2. n \in Nodes /\ connected[a][n] # None
  BY <1>0, <1>1 DEF HandlerOK
<1> DEFINE h == [ap[a] EXCEPT !.pc = "delentries", !.vip = connected[a][n].vip,
                              !.port = connected[a][n].port, !.bcast = art[n].port]
<1>3. ap'[a] = h /\ OthersKept(a)
  BY <1>0, <1>1 DEF TypeOK, OthersKept
<1>4. /\ h.pc = "delentries" /\ h.node = n
      /\ h.vip = connected[a][n].vip /\ h.port = connected[a][n].port
  BY <1>0 DEF Handler
<1> HIDE DEF h
<1>5. QED
  BY <1>1, <1>2, <1>3, <1>4

\* The tunnel of a lost station is deleted, and the handler ends.
LEMMA DeleteTunnelMoves ==
    ASSUME TypeInv, NEW a \in APs, DeleteTunnel(a)
    PROVE  /\ ap[a].pc = "delswarm" /\ ap[a].node \in Nodes
           /\ ap'[a] = IdleHandler /\ ap'[a].node = None /\ ap'[a].pc = "idle"
           /\ OthersKept(a)
           /\ \A n \in Nodes : tunnel'[a][n] = IF tunnel[a][n] = ap[a].port THEN 0
                                               ELSE tunnel[a][n]
           /\ \A b \in APs \ {a} : tunnel'[b] = tunnel[b]
<1>0. TypeOK
  BY DEF TypeInv
<1>1. ap[a].pc = "delswarm" /\ ap' = [ap EXCEPT ![a] = IdleHandler]
  BY DEF DeleteTunnel, Finish
<1>2. tunnel' = [tunnel EXCEPT ![a] =
                   [n \in Nodes |-> IF @[n] = ap[a].port THEN 0 ELSE @[n]]]
  BY DEF DeleteTunnel
<1>3. ap'[a] = IdleHandler /\ OthersKept(a) /\ ap'[a].node = None /\ ap'[a].pc = "idle"
  BY <1>0, <1>1 DEF TypeOK, OthersKept, IdleHandler
<1>4. QED
  BY <1>0, <1>1, <1>2, <1>3, DeleteTunnelType DEF TypeOK

-------------------------------------------------------------------------------
(* The tunnels of an AP.                                                   *)

DelPhase == {"delentries", "deldump", "delports", "delart", "delswarm"}
TunnelPhase == {"hostid", "send", "await", "acked"} \cup DelPhase

\* No two nodes have a tunnel with the same id; a connected station's is the
\* one in connected_stations, and the one a handler sets up or takes down is
\* its own node's.
TunnelOK(a) ==
    /\ \A n, m \in Nodes : n # m /\ tunnel[a][n] = tunnel[a][m] => tunnel[a][n] = 0
    /\ \A n \in Nodes :
          connected[a][n] # None => tunnel[a][n] = connected[a][n].port
    /\ ap[a].pc \in TunnelPhase =>
          ap[a].port \in Ports /\ tunnel[a][ap[a].node] = ap[a].port
    /\ ap[a].pc \in DelPhase => connected[a][ap[a].node] = None

TunnelInv == \A a \in APs : TunnelOK(a)

\* Nothing that concerns the tunnels of the AP has changed.
LEMMA TunnelKept ==
    ASSUME NEW a, TunnelOK(a),
           tunnel'[a] = tunnel[a], connected'[a] = connected[a],
           ap'[a].pc \in TunnelPhase =>
              /\ ap[a].pc \in TunnelPhase /\ (ap'[a].pc \in DelPhase => ap[a].pc \in DelPhase)
              /\ ap'[a].node = ap[a].node /\ ap'[a].port = ap[a].port
    PROVE  TunnelOK(a)'
  BY DEF TunnelOK, TunnelPhase, DelPhase

\* A step of one AP manager concerns the tunnels of no other AP.
LEMMA TunnelsOfOthers ==
    ASSUME TunnelInv, NEW a \in APs, OthersKept(a), TunnelOK(a)',
           \A b \in APs \ {a} : tunnel'[b] = tunnel[b] /\ connected'[b] = connected[b]
    PROVE  TunnelInv'
<1>1. ASSUME NEW b \in APs \ {a}
      PROVE  TunnelOK(b)'
  BY TunnelKept DEF TunnelInv, OthersKept
<1>2. QED
  BY <1>1 DEF TunnelInv

\* The least free id is no other tunnel's.
LEMMA TunnelIdsFree ==
    ASSUME TypeOK, NEW a \in APs, NEW n \in Nodes, TunnelOK(a), NEW p \in TunnelIds(a, n)
    PROVE  /\ p \in Ports /\ (tunnel[a][n] # 0 => p = tunnel[a][n])
           /\ \A m \in Nodes \ {n} : tunnel[a][m] # p
<1>1. CASE tunnel[a][n] # 0
  <2>1. p = tunnel[a][n] /\ tunnel[a][n] \in PortOrNull
    BY <1>1 DEF TunnelIds, TypeOK
  <2>2. p \in Ports
    BY <1>1, <2>1, ConstantsOK DEF Ports, PortOrNull
  <2>3. \A m \in Nodes \ {n} : tunnel[a][m] # p
    BY <1>1, <2>1 DEF TunnelOK
  <2>4. QED
    BY <2>1, <2>2, <2>3
<1>2. CASE tunnel[a][n] = 0
  BY <1>2 DEF TunnelIds
<1>3. QED
  BY <1>1, <1>2

\* A station enters connected_stations with the id of its tunnel.
LEMMA EnterStationTunnels ==
    ASSUME TypeInv, TunnelInv, NEW a \in APs, EnterStation(a), tunnel' = tunnel
    PROVE  TunnelInv'
<1> DEFINE n == ap[a].node
<1>0. TypeOK /\ TunnelOK(a)
  BY DEF TypeInv, TunnelInv
<1>1. /\ ap[a].pc = "acked" /\ n \in Nodes
      /\ ap'[a].pc \in {"replicate", "swarmrow"} /\ OthersKept(a)
      /\ connected' = [connected EXCEPT ![a][n] = [vip |-> ap[a].vip, port |-> ap[a].port]]
  BY EnterStationMoves
<1> HIDE DEF n
<1>2. /\ connected'[a][n] = [vip |-> ap[a].vip, port |-> ap[a].port]
      /\ \A m \in Nodes \ {n} : connected'[a][m] = connected[a][m]
      /\ \A b \in APs \ {a} : connected'[b] = connected[b]
  BY <1>0, <1>1 DEF TypeOK
<1>3. tunnel[a][n] = ap[a].port
  BY <1>0, <1>1 DEF TunnelOK, TunnelPhase, n
<1>4. ap'[a].pc \notin TunnelPhase /\ ap'[a].pc \notin DelPhase
  BY <1>1 DEF TunnelPhase, DelPhase
<1>5. TunnelOK(a)'
  BY <1>0, <1>2, <1>3, <1>4 DEF TunnelOK
<1>6. QED
  BY <1>1, <1>2, <1>5, TunnelsOfOthers

\* A tunnel taken down was the node's own.
LEMMA DeleteTunnelTunnels ==
    ASSUME TypeInv, TunnelInv, NEW a \in APs, DeleteTunnel(a), connected' = connected
    PROVE  /\ TunnelInv'
           /\ \A m \in Nodes \ {ap[a].node} : tunnel'[a][m] = tunnel[a][m]
<1> DEFINE n == ap[a].node
<1>0. TypeOK /\ TunnelOK(a)
  BY DEF TypeInv, TunnelInv
<1>1. /\ ap[a].pc = "delswarm" /\ n \in Nodes
      /\ ap'[a].pc = "idle" /\ OthersKept(a)
      /\ \A m \in Nodes : tunnel'[a][m] = IF tunnel[a][m] = ap[a].port THEN 0
                                          ELSE tunnel[a][m]
      /\ \A b \in APs \ {a} : tunnel'[b] = tunnel[b]
  BY DeleteTunnelMoves
<1>2. ap[a].port \in Ports /\ tunnel[a][n] = ap[a].port /\ connected[a][n] = None
  BY <1>0, <1>1 DEF TunnelOK, TunnelPhase, DelPhase
<1>3. ap[a].port # 0
  BY <1>2, ConstantsOK DEF Ports
<1> HIDE DEF n
<1>4. \A m \in Nodes \ {n} : tunnel[a][m] # ap[a].port
  BY <1>0, <1>1, <1>2, <1>3 DEF TunnelOK
<1>5. tunnel'[a][n] = 0 /\ \A m \in Nodes \ {n} : tunnel'[a][m] = tunnel[a][m]
  BY <1>1, <1>2, <1>4
<1>6. TunnelOK(a)'
  <2>1. \A k, m \in Nodes : k # m /\ tunnel'[a][k] = tunnel'[a][m] => tunnel'[a][k] = 0
    BY <1>0, <1>5 DEF TunnelOK
  <2>2. \A m \in Nodes : connected'[a][m] # None => tunnel'[a][m] = connected'[a][m].port
    BY <1>0, <1>2, <1>5 DEF TunnelOK
  <2>3. ap'[a].pc \notin TunnelPhase /\ ap'[a].pc \notin DelPhase
    BY <1>1 DEF TunnelPhase, DelPhase
  <2>4. QED
    BY <2>1, <2>2, <2>3 DEF TunnelOK
<1>7. QED
  BY <1>1, <1>5, <1>6, TunnelsOfOthers DEF n

\* Of the row steps, these concern the tunnels.
LEMMA RowStepTunnels ==
    ASSUME TypeInv, TunnelInv, NEW a \in APs, RowSteps(a)
    PROVE  TunnelInv'
<1>0. TypeOK /\ TunnelOK(a) /\ HandlerOK(a)
  BY DEF TypeInv, TunnelInv
<1> DEFINE n == ap[a].node
<1>1. CASE ReadArt(a)
  <2>1. /\ ap[a].pc = "arp" /\ n \in Nodes /\ ap'[a].node = n /\ OthersKept(a)
        /\ ap'[a].port \in TunnelIds(a, n)
        /\ tunnel' = [tunnel EXCEPT ![a][n] = ap'[a].port]
        /\ ap'[a].pc \in {"hostid", "send"}
        /\ UNCHANGED <<tables, connected, co, disturbed, restarts, lpm>>
    BY <1>1, ReadArtMoves
  <2> DEFINE p == ap'[a].port
  <2> HIDE DEF n, p
  <2>2. /\ p \in Ports /\ (tunnel[a][n] # 0 => p = tunnel[a][n])
        /\ \A m \in Nodes \ {n} : tunnel[a][m] # p
    BY <1>0, <2>1, TunnelIdsFree DEF p
  <2>3. /\ tunnel'[a] = [tunnel[a] EXCEPT ![n] = p]
        /\ tunnel'[a][n] = p /\ \A m \in Nodes \ {n} : tunnel'[a][m] = tunnel[a][m]
        /\ \A b \in APs \ {a} : tunnel'[b] = tunnel[b]
    BY <1>0, <2>1 DEF TypeOK, p
  <2>4. connected[a][n] # None => tunnel[a][n] # 0 /\ tunnel[a][n] = connected[a][n].port
    <3>1. connected[a][n] # None => connected[a][n] \in Station
      BY <1>0, <2>1 DEF TypeOK
    <3>2. QED
      BY <1>0, <2>1, <3>1, ConstantsOK DEF TunnelOK, Station, Ports
  <2>5. TunnelOK(a)'
    <3>1. \A k, m \in Nodes : k # m /\ tunnel'[a][k] = tunnel'[a][m] => tunnel'[a][k] = 0
      BY <1>0, <2>2, <2>3 DEF TunnelOK
    <3>2. \A m \in Nodes : connected'[a][m] # None => tunnel'[a][m] = connected'[a][m].port
      BY <1>0, <2>1, <2>2, <2>3, <2>4 DEF TunnelOK
    <3>3. ap'[a].port \in Ports /\ tunnel'[a][ap'[a].node] = ap'[a].port
      BY <2>1, <2>2, <2>3 DEF p
    <3>4. ap'[a].pc \notin DelPhase
      BY <2>1 DEF DelPhase
    <3>5. QED
      BY <3>1, <3>2, <3>3, <3>4 DEF TunnelOK
  <2>6. QED
    BY <2>1, <2>3, <2>5, TunnelsOfOthers
<1>2. CASE GetHostId(a)
  <2>1. TunnelOK(a)'
    BY <1>0, <1>2, GetHostIdMoves, TunnelKept DEF TunnelPhase, DelPhase
  <2>2. QED
    BY <1>2, <2>1, GetHostIdMoves, TunnelsOfOthers
<1>3. CASE RegisterInArt(a)
  BY <1>3, EnterStationTunnels DEF RegisterInArt
<1>4. CASE RegisterInSwarm(a) \/ DeleteFromArt(a)
  <2>1. TunnelOK(a)'
    BY <1>0, <1>4, RowWritesMove, TunnelKept DEF SameStation, TunnelPhase, DelPhase
  <2>2. QED
    BY <1>4, <2>1, RowWritesMove, TunnelsOfOthers
<1>5. CASE RemoveStation(a)
  <2>1. /\ ap'[a].pc = "delentries" /\ n \in Nodes /\ ap'[a].node = n /\ OthersKept(a)
        /\ connected[a][n] # None /\ ap'[a].port = connected[a][n].port
        /\ connected' = [connected EXCEPT ![a][n] = None] /\ tunnel' = tunnel
    BY <1>5, RemoveStationMoves
  <2> HIDE DEF n
  <2>2. /\ connected'[a][n] = None
        /\ \A m \in Nodes \ {n} : connected'[a][m] = connected[a][m]
        /\ \A b \in APs \ {a} : connected'[b] = connected[b]
    BY <1>0, <2>1 DEF TypeOK
  <2>3. ap'[a].port \in Ports /\ tunnel[a][n] = ap'[a].port
    <3>1. connected[a][n] \in Station
      BY <1>0, <2>1 DEF TypeOK
    <3>2. QED
      BY <1>0, <2>1, <3>1 DEF TunnelOK, Station
  <2>4. TunnelOK(a)'
    BY <1>0, <2>1, <2>2, <2>3 DEF TunnelOK
  <2>5. QED
    BY <2>1, <2>2, <2>4, TunnelsOfOthers
<1>6. QED
  BY <1>1, <1>2, <1>3, <1>4, <1>5 DEF RowSteps

\* A failed query leaves the tunnels as they should be.
LEMMA APQueryFailsTunnels ==
    ASSUME TypeInv, TunnelInv, NEW a \in APs, APQueryFails(a)
    PROVE  TunnelInv'
<1>0. TypeOK /\ TunnelOK(a)
  BY DEF TypeInv, TunnelInv
<1>1. OthersKept(a)
  BY APQueryFailsMoves
<1>2. CASE NewStationReadFails(a) \/ LostStationReadFails(a)
  <2>1. ap'[a].pc \in {"idle", "dead"} /\ connected' = connected /\ tunnel' = tunnel
    BY <1>0, <1>2 DEF NewStationReadFails, LostStationReadFails, Finish, TypeOK, IdleHandler
  <2>2. TunnelOK(a)'
    BY <1>0, <2>1, TunnelKept DEF TunnelPhase, DelPhase
  <2>3. QED
    BY <1>1, <2>1, <2>2, TunnelsOfOthers
<1>3. CASE RegisterInArtFails(a)
  BY <1>3, EnterStationTunnels DEF RegisterInArtFails
<1>4. CASE RegisterInSwarmFails(a) \/ DeleteFromArtFails(a)
  <2>1. PICK to \in {"dump", "delswarm"} : /\ ap' = [ap EXCEPT ![a].pc = to]
                                           /\ ap[a].pc = IF to = "dump" THEN "swarmrow"
                                                         ELSE "delart"
    BY <1>4 DEF RegisterInSwarmFails, DeleteFromArtFails, Step
  <2>2. to \in PCs
    BY DEF PCs, SwitchPC, DelPC
  <2>3. ap'[a].pc = to /\ ap'[a].node = ap[a].node /\ ap'[a].port = ap[a].port
    BY <1>0, <2>1, <2>2, PCUpdate
  <2>4. connected' = connected /\ tunnel' = tunnel
    BY <1>4 DEF RegisterInSwarmFails, DeleteFromArtFails
  <2>5. TunnelOK(a)'
    BY <1>0, <2>1, <2>3, <2>4, TunnelKept DEF TunnelPhase, DelPhase
  <2>6. QED
    BY <1>1, <2>4, <2>5, TunnelsOfOthers
<1>5. CASE DeleteFromSwarmFails(a)
  BY <1>5, DeleteTunnelTunnels DEF DeleteFromSwarmFails
<1>6. QED
  BY <1>2, <1>3, <1>4, <1>5 DEF APQueryFails

\* TunnelInv is inductive.
LEMMA TunnelInvStep == TypeInv /\ TunnelInv /\ [Next]_vars => TunnelInv'
<1> SUFFICES ASSUME TypeInv, TunnelInv, [Next]_vars
             PROVE  TunnelInv'
  OBVIOUS
<1>0. TypeOK
  BY DEF TypeInv
<1>1. ASSUME ap' = ap, connected' = connected, tunnel' = tunnel
      PROVE  TunnelInv'
  BY <1>1 DEF TunnelInv, TunnelOK
<1>2. ASSUME NEW a \in APs, APStep(a)
      PROVE  TunnelInv'
  <2>0. TunnelOK(a)
    BY DEF TunnelInv
  <2>1. CASE UNCHANGED <<ap, tables, connected, tunnel, co, disturbed, restarts, lpm>>
    BY <1>1, <2>1
  <2>2. CASE NewStation(a) \/ LostStation(a)
    <3>1. /\ ap'[a].pc \in {"arp", "del"} /\ OthersKept(a)
          /\ UNCHANGED <<connected, tunnel>>
      BY <1>0, <2>2, StartsAlone
    <3>2. TunnelOK(a)'
      BY <2>0, <3>1, TunnelKept DEF TunnelPhase, DelPhase
    <3>3. QED
      BY <3>1, <3>2, TunnelsOfOthers
  <2>3. CASE Advances(a)
    <3>1. /\ <<ap[a].pc, ap'[a].pc>> \in Successors
          /\ SameStation(a) /\ OthersKept(a) /\ UNCHANGED <<connected, tunnel>>
      BY <1>0, <2>3, AdvancesMove DEF NoRowChanges
    <3>2. TunnelOK(a)'
      BY <2>0, <3>1, TunnelKept DEF TunnelPhase, DelPhase, Successors, SameStation
    <3>3. QED
      BY <3>1, <3>2, TunnelsOfOthers
  <2>4. CASE Ends(a) \/ APManagerDies(a)
    <3>1. ap'[a].pc \in {"idle", "dead"} /\ OthersKept(a) /\ UNCHANGED <<connected, tunnel>>
      BY <1>0, <2>4, EndsFinish, DiesMoves DEF NoRowChanges
    <3>2. TunnelOK(a)'
      BY <2>0, <3>1, TunnelKept DEF TunnelPhase, DelPhase
    <3>3. QED
      BY <3>1, <3>2, TunnelsOfOthers
  <2>5. CASE RowSteps(a)
    BY <2>5, RowStepTunnels
  <2>6. CASE DeleteFromSwarm(a)
    BY <2>6, DeleteTunnelTunnels DEF DeleteFromSwarm
  <2>7. QED
    BY <1>2, <2>1, <2>2, <2>3, <2>4, <2>5, <2>6, APStepKinds
<1>3. CASE CoordinatorStep
  BY <1>1, <1>3
     DEF CoordinatorStep, AssignHostIds, TooFewHostIds, SendJoinConfig, SendGoAway,
         TaskFails, InsertSwarmRow, UpdateArt, CoDumpPorts, CoUpdatePorts,
         CoReplicateEntries, Answer, CloseUnanswered, apLocals
<1>4. ASSUME NEW n \in Nodes, NodeStep(n)
      PROVE  TunnelInv'
  <2>1. ASSUME NEW a \in APs
        PROVE  TunnelOK(a)'
    <3>1. /\ SameStation(a) /\ UNCHANGED <<connected, tunnel>>
          /\ ap'[a].pc = ap[a].pc \/ (ap[a].pc = "await" /\ ap'[a].pc = "acked")
      BY <1>4, MessageAcks DEF NoRowChanges
    <3>2. TunnelOK(a)
      BY DEF TunnelInv
    <3>3. QED
      BY <3>1, <3>2, TunnelKept DEF TunnelPhase, DelPhase, SameStation
  <2>2. QED
    BY <2>1 DEF TunnelInv
<1>5. CASE Environment
  <2>1. ASSUME NEW S \in SUBSET Nodes, AcceptRequest("njl", S) \/ AcceptRequest("nll", S)
        PROVE  TunnelInv'
    BY <1>1, <2>1 DEF AcceptRequest, apLocals
  <2>2. ASSUME NEW a \in APs, RestartAPManager(a)
        PROVE  TunnelInv'
    <3>1. /\ ap'[a].pc = "idle" /\ OthersKept(a) /\ tunnel' = tunnel
          /\ \A n \in Nodes : connected'[a][n] = None
          /\ \A b \in APs \ {a} : connected'[b] = connected[b]
      BY <1>0, <2>2 DEF RestartAPManager, Finish, IdleHandler, TypeOK, OthersKept
    <3>2. TunnelOK(a)'
      BY <3>1 DEF TunnelInv, TunnelOK, TunnelPhase, DelPhase
    <3>3. QED
      BY <3>1, <3>2, TunnelsOfOthers
  <2>3. CASE RestartCoordinator
    BY <1>1, <2>3 DEF RestartCoordinator, apLocals
  <2>4. ASSUME NEW a \in APs, APQueryFails(a)
        PROVE  TunnelInv'
    BY <2>4, APQueryFailsTunnels
  <2>5. CASE CoQueryFails
    BY <1>1, <2>5, CoQueryFailsMoves
  <2>6. CASE \E n \in Nodes : (\E a \in APs : Associate(n, a)) \/ Disassociate(n)
                              \/ SpuriousDetection(n)
    BY <1>1, <2>6, RadioKeeps
  <2>7. QED
    BY <1>5, <2>1, <2>2, <2>3, <2>4, <2>5, <2>6 DEF Environment
<1>6. CASE UNCHANGED vars
  BY <1>1, <1>6 DEF vars, apLocals
<1>7. QED
  BY <1>2, <1>3, <1>4, <1>5, <1>6 DEF Next

-------------------------------------------------------------------------------
(* The rows of a calm node.                                                *)

RowsAgree(n) ==
    /\ Member(n) <=> swarmTable[n] # None
    /\ Member(n) => swarmTable[n].hid = art[n].vip /\ swarmTable[n].ap = art[n].ap

\* One of the two rows is written, the other is to follow.
HalfWritten(n) ==
    \/ \E a \in APs : Works(a, n) /\ ap[a].pc \in {"swarmrow", "delswarm"}
    \/ co.pc = "artrow" /\ Head(co.todo).node = n

Agree == \A n \in Calm : HalfWritten(n) \/ RowsAgree(n)

\* What the rows of its calm node are at each step of an AP manager's handler.
HandlerRows(a) ==
    LET h == ap[a]
        n == h.node
    IN n \in Calm =>
        /\ h.pc \in {"hostid", "send", "await", "acked"} => (h.swarm = 1 <=> Member(n))
        /\ h.pc \in {"send", "await", "acked"} =>
              h.vip = IF h.swarm = 1 THEN art[n].vip ELSE n
        /\ h.pc \in {"swarmrow"} \cup SwitchPC =>
              /\ art[n] = [ap |-> a, swarm |-> h.swarm, vip |-> h.vip, port |-> h.port]
              /\ h.swarm = 0 => h.vip = n
        /\ h.pc = "swarmrow" => swarmTable[n] # None /\ swarmTable[n].hid = h.vip
        /\ h.pc \in {"delentries", "deldump", "delports", "delart"} => RegisteredAt(a, n)
        /\ h.pc = "delswarm" => art[n] = None

\* What the rows of its calm node are while a task of a join is under way, and
\* that its host id is no other calm node's.
TaskRow(i) ==
    LET t == co.todo[i]
        n == t.node
        installed == i = 1 /\ co.pc \in SwitchPC
    IN /\ n \in Calm =>
             /\ art[n] # None /\ art[n].ap = t.ap /\ art[n].port = t.port
             /\ art[n].swarm = IF installed THEN 1 ELSE 0
             /\ installed => art[n].vip = t.hid
             /\ i = 1 /\ co.pc = "artrow" => swarmTable[n] = [hid |-> t.hid, ap |-> t.ap]
       /\ co.pc # "ids" => \A m \in Calm \ {n} :
             swarmTable[m] # None => swarmTable[m].hid # t.hid

TasksInv ==
    /\ co.pc \in {"swarmrow", "artrow"} \cup SwitchPC => co.kind = "njl"
    /\ \A i, j \in DOMAIN co.todo : i # j =>
          /\ co.todo[i].node # co.todo[j].node
          /\ co.pc # "ids" => co.todo[i].hid # co.todo[j].hid
    /\ co.kind = "njl" =>
          /\ \A i \in DOMAIN co.todo : TaskRow(i)
          /\ \A n \in co.avail \cap Calm :
                Member(n) \/ (co.pc \in {"swarmrow", "artrow"} /\ Head(co.todo).node = n)

RowsInv == Agree /\ (\A a \in APs : HandlerRows(a)) /\ TasksInv /\ UniqueHostIds

\* Before the first step there are no rows, handlers or tasks.
LEMMA InitRowsInv == Init => RowsInv /\ Alone /\ TunnelInv
<1> SUFFICES ASSUME Init
             PROVE  RowsInv /\ Alone /\ TunnelInv
  OBVIOUS
<1> USE DEF Init
<1>1. \A a \in APs : ap[a].node = None /\ ap[a].pc = "idle"
  BY DEF IdleHandler
<1>2. co.pc = "idle" /\ co.todo = <<>> /\ co.avail = {} /\ DOMAIN co.todo = {}
  BY DEF IdleCoordinator
<1>3. None \notin Nodes
  BY ConstantsOK
<1>4. Agree /\ UniqueHostIds
  BY DEF Agree, Calm, RowsAgree, Member, UniqueHostIds
<1>5. \A a \in APs : HandlerRows(a)
  BY <1>1, <1>3 DEF HandlerRows, Calm
<1>6. TasksInv
  BY <1>2 DEF TasksInv, SwitchPC
<1>7. Alone
  BY <1>1, <1>2, <1>3 DEF Alone, Calm, Works, Joining
<1>8. TunnelInv
  BY <1>1 DEF TunnelInv, TunnelOK, TunnelPhase, DelPhase
<1>9. QED
  BY <1>4, <1>5, <1>6, <1>7, <1>8 DEF RowsInv

\* The row of a registered node is a row.
LEMMA RegisteredRow ==
    ASSUME TypeInv, NEW a \in APs, HandlerRows(a), ap[a].node \in Calm,
           ap[a].pc \in {"swarmrow"} \cup SwitchPC
    PROVE  /\ art[ap[a].node] # None /\ art[ap[a].node].ap = a
           /\ art[ap[a].node].swarm = ap[a].swarm /\ art[ap[a].node].vip = ap[a].vip
<1> DEFINE row == [ap |-> a, swarm |-> ap[a].swarm, vip |-> ap[a].vip, port |-> ap[a].port]
<1>1. ap[a] \in Handler /\ HandlerOK(a)
  BY DEF TypeInv, TypeOK
<1>2. ap[a].vip \in Vips /\ ap[a].port \in PortOrNull /\ ap[a].swarm \in {0, 1}
  BY <1>1, ConstantsOK DEF HandlerOK, Handler, Vips, Ports, PortOrNull
<1>3. row \in ArtRow
  BY <1>2 DEF ArtRow
<1>4. art[ap[a].node] = row
  BY DEF HandlerRows
<1>5. QED
  BY <1>3, <1>4, ConstantsOK

\* A step of one AP manager that changes rows only of the node it works on, and
\* gives it no host id it did not have.  The node may be calm again, if it is
\* in neither table and in nobody's hands.
LEMMA APRowsFrame ==
    ASSUME Alone, RowsInv, NEW a \in APs, OthersKept(a), co' = co, HandlerRows(a)',
           \A n \in Calm' \ Calm :
              /\ n = ap[a].node /\ swarmTable'[n] = None
              /\ ~Joining(n) /\ \A b \in APs \ {a} : ~Works(b, n),
           \A n \in Calm' \ {ap[a].node} : art'[n] = art[n] /\ swarmTable'[n] = swarmTable[n],
           \A n \in Calm' \cap {ap[a].node} :
              /\ HalfWritten(n)' \/ RowsAgree(n)'
              /\ swarmTable'[n] # None =>
                    swarmTable[n] # None /\ swarmTable'[n].hid = swarmTable[n].hid
    PROVE  RowsInv'
<1>1. Agree'
  <2> SUFFICES ASSUME NEW n \in Calm'
               PROVE  HalfWritten(n)' \/ RowsAgree(n)'
    BY DEF Agree
  <2>1. CASE n = ap[a].node
    BY <2>1
  <2>2. CASE n # ap[a].node
    <3>1. HalfWritten(n) \/ RowsAgree(n)
      BY <2>2 DEF RowsInv, Agree
    <3>2. HalfWritten(n) => HalfWritten(n)'
      BY <2>2 DEF HalfWritten, Works, OthersKept
    <3>3. RowsAgree(n) => RowsAgree(n)'
      BY <2>2 DEF RowsAgree, Member
    <3>4. QED
      BY <3>1, <3>2, <3>3
  <2>3. QED
    BY <2>1, <2>2
<1>2. ASSUME NEW b \in APs
      PROVE  HandlerRows(b)'
  <2>1. CASE b # a /\ ap[b].node \in Calm'
    <3>1. ap[b].node \in Calm
      BY <2>1 DEF Works
    <3>2. ap'[b] = ap[b] /\ ap[b].node # ap[a].node
      BY <2>1, <3>1 DEF Alone, Works, OthersKept
    <3>3. HandlerRows(b)
      BY DEF RowsInv
    <3>4. QED
      BY <2>1, <3>1, <3>2, <3>3 DEF HandlerRows, Member, RegisteredAt
  <2>2. CASE b # a /\ ap[b].node \notin Calm'
    BY <2>2 DEF HandlerRows, OthersKept
  <2>3. QED
    BY <2>1, <2>2
<1>3. TasksInv'
  <2>1. \A n \in Calm' : Joining(n) =>
           n \in Calm /\ art'[n] = art[n] /\ swarmTable'[n] = swarmTable[n]
    BY DEF Alone, Works
  <2>2. \A n \in Calm' : swarmTable'[n] # None =>
           n \in Calm /\ swarmTable[n] # None /\ swarmTable'[n].hid = swarmTable[n].hid
    OBVIOUS
  <2>3. ASSUME co.kind = "njl", NEW i \in DOMAIN co.todo
        PROVE  TaskRow(i)'
    <3>1. TaskRow(i)
      BY <2>3 DEF RowsInv, TasksInv
    <3>2. co.todo[i].node \in Calm' => Joining(co.todo[i].node)
      BY <2>3 DEF Joining
    <3>3. QED
      BY <2>1, <2>2, <3>1, <3>2 DEF TaskRow
  <2>4. ASSUME co.kind = "njl", NEW n \in co.avail \cap Calm'
        PROVE  Member(n)' \/ (co.pc \in {"swarmrow", "artrow"} /\ Head(co.todo).node = n)
    <3>1. Joining(n)
      BY <2>4 DEF Joining
    <3>2. QED
      BY <2>1, <2>4, <3>1 DEF RowsInv, TasksInv, Member
  <2>5. QED
    BY <2>3, <2>4 DEF RowsInv, TasksInv
<1>4. UniqueHostIds'
  <2>1. \A n \in Calm' : swarmTable'[n] # None =>
           n \in Calm /\ swarmTable[n] # None /\ swarmTable'[n].hid = swarmTable[n].hid
    OBVIOUS
  <2>2. UniqueHostIds
    BY DEF RowsInv
  <2>3. QED
    BY <2>1, <2>2 DEF UniqueHostIds, Calm
<1>5. QED
  BY <1>1, <1>2, <1>3, <1>4 DEF RowsInv

\* A step of one AP manager that changes no row.
LEMMA APKeepsRows ==
    ASSUME Alone, RowsInv, NEW a \in APs, OthersKept(a), co' = co, UNCHANGED tables,
           disturbed \subseteq disturbed', HandlerRows(a)',
           ap[a].pc \notin {"swarmrow", "delswarm"} \/ ap[a].node \notin Calm'
    PROVE  RowsInv'
<1>1. art' = art /\ swarmTable' = swarmTable /\ Calm' \subseteq Calm
  BY DEF tables, Calm
<1>2. ASSUME NEW n \in Calm' \cap {ap[a].node}
      PROVE  HalfWritten(n)' \/ RowsAgree(n)'
  <2>1. HalfWritten(n) \/ RowsAgree(n)
    BY <1>2 DEF RowsInv, Agree, Calm
  <2>2. HalfWritten(n) => HalfWritten(n)'
    BY <1>2 DEF HalfWritten, Works, OthersKept
  <2>3. QED
    BY <1>1, <2>1, <2>2 DEF RowsAgree, Member
<1>3. QED
  BY <1>1, <1>2, APRowsFrame

\* While a handler is at work on a calm node and both rows are written or
\* neither is, they agree.
LEMMA WorkedOnAgrees ==
    ASSUME TypeInv, Alone, RowsInv, NEW a \in APs, ap[a].node \in Calm,
           ap[a].pc \notin {"swarmrow", "delswarm"}
    PROVE  RowsAgree(ap[a].node)
<1> DEFINE n == ap[a].node
<1>1. ~ \E b \in APs : Works(b, n) /\ ap[b].pc \in {"swarmrow", "delswarm"}
  BY DEF Alone, Works
<1>2. ~(co.pc = "artrow" /\ Head(co.todo).node = n)
  <2> SUFFICES ASSUME co.pc = "artrow", Head(co.todo).node = n
               PROVE  FALSE
    OBVIOUS
  <2>1. co.todo # <<>> /\ co.todo \in Seq(Task)
    BY DEF TypeInv, TypeOK, TasksOK, Coordinator
  <2>2. Head(co.todo) = co.todo[1] /\ 1 \in DOMAIN co.todo
    BY <2>1, TailTasks
  <2>3. Joining(n)
    BY <2>2 DEF Joining, RowsInv, TasksInv
  <2>4. QED
    BY <2>3 DEF Alone, Works
<1>3. QED
  BY <1>1, <1>2 DEF RowsInv, Agree, HalfWritten

\* A handler that reads or writes rows leaves them as the next step wants them.
LEMMA RowStepRows ==
    ASSUME TypeInv, Alone, RowsInv, NEW a \in APs, RowSteps(a)
    PROVE  RowsInv'
<1>0. TypeOK /\ HandlerOK(a) /\ HandlerRows(a)
  BY DEF TypeInv, RowsInv
<1>n. PICK n \in Nodes : n = ap[a].node
  BY RowStepsMove
<1>1. /\ OthersKept(a) /\ n \in Nodes /\ UNCHANGED <<co, disturbed, restarts, lpm>>
  BY RowStepsMove
<1> USE <1>n
<1>a. Calm' = Calm
  BY <1>1 DEF Calm
<1>2. CASE ReadArt(a)
  <2>1. /\ ap[a].pc = "arp" /\ ap'[a].node = n
        /\ IF Member(n) THEN ap'[a].pc = "hostid" /\ ap'[a].swarm = 1
           ELSE ap'[a].pc = "send" /\ ap'[a].swarm = 0 /\ ap'[a].vip = n
        /\ UNCHANGED tables
    BY <1>2, ReadArtMoves
  <2>2. HandlerRows(a)'
    BY <1>1, <2>1 DEF HandlerRows, SwitchPC, Member, tables, Calm
  <2>3. QED
    BY <1>1, <2>1, <2>2, APKeepsRows
<1>3. CASE GetHostId(a)
  <2>1. /\ ap[a].pc = "hostid" /\ ap'[a].pc = "send" /\ ap'[a].node = n
        /\ ap'[a].swarm = 1 /\ ap[a].swarm = 1
        /\ ap'[a].vip \in NextIds(n) /\ UNCHANGED tables
    BY <1>3, GetHostIdMoves
  <2>2. n \in Calm => Member(n) /\ ap'[a].vip = art[n].vip
    <3> SUFFICES ASSUME n \in Calm
                 PROVE  Member(n) /\ ap'[a].vip = art[n].vip
      OBVIOUS
    <3>1. RowsAgree(n)
      BY <2>1, WorkedOnAgrees
    <3>2. Member(n)
      BY <1>0, <2>1 DEF HandlerRows
    <3>3. swarmTable[n] # None /\ swarmTable[n].hid = art[n].vip
      BY <3>1, <3>2 DEF RowsAgree
    <3>4. QED
      BY <2>1, <3>2, <3>3 DEF NextIds
  <2>3. HandlerRows(a)'
    BY <1>1, <2>1, <2>2 DEF HandlerRows, SwitchPC, Member, tables, Calm
  <2>4. QED
    BY <1>1, <2>1, <2>3, APKeepsRows
<1>4. CASE RegisterInArt(a)
  <2>1. /\ ap[a].pc = "acked" /\ ap[a].swarm \in {0, 1}
        /\ ap'[a].pc = IF ap[a].swarm = 0 THEN "replicate" ELSE "swarmrow"
        /\ ap'[a].node = n /\ ap'[a].swarm = ap[a].swarm
        /\ ap'[a].vip = ap[a].vip /\ ap'[a].port = ap[a].port
    BY <1>4, EnterStationMoves DEF RegisterInArt, SameStation
  <2> DEFINE row == [ap |-> a, swarm |-> ap[a].swarm, vip |-> ap[a].vip, port |-> ap[a].port]
  <2>2. art'[n] = row /\ row # None /\ \A m \in Nodes \ {n} : art'[m] = art[m]
    <3>1. row \in ArtRow
      BY <1>4, EnterStationType DEF RegisterInArt
    <3>2. art' = [art EXCEPT ![n] = row] /\ row # None
      BY <1>4, <3>1, ConstantsOK DEF RegisterInArt
    <3>3. QED
      BY <1>0, <1>1, <3>2 DEF TypeOK
  <2>3. swarmTable' = swarmTable
    BY <1>4 DEF RegisterInArt
  <2>4. row.swarm = ap[a].swarm /\ row.vip = ap[a].vip /\ row.ap = a
    OBVIOUS
  <2>5. ASSUME n \in Calm
        PROVE  /\ ap[a].swarm = 1 => swarmTable[n] # None /\ swarmTable[n].hid = ap[a].vip
               /\ ap[a].swarm = 0 => swarmTable[n] = None /\ ap[a].vip = n
    <3>1. RowsAgree(n)
      BY <2>1, <2>5, WorkedOnAgrees
    <3>2. /\ ap[a].swarm = 1 <=> Member(n)
          /\ ap[a].vip = IF ap[a].swarm = 1 THEN art[n].vip ELSE n
      BY <1>0, <2>1, <2>5 DEF HandlerRows
    <3>3. QED
      BY <3>1, <3>2 DEF RowsAgree
  <2> HIDE DEF row
  <2>6. HandlerRows(a)'
    <3>1. /\ ap'[a].pc \in {"replicate", "swarmrow"}
          /\ ap'[a].pc = "swarmrow" => ap[a].swarm = 1
          /\ ap'[a].node = ap[a].node
          /\ art'[n] = [ap |-> a, swarm |-> ap'[a].swarm, vip |-> ap'[a].vip,
                        port |-> ap'[a].port]
      BY <2>1, <2>2 DEF row
    <3>2. QED
      BY <1>a, <2>1, <2>3, <2>5, <3>1 DEF HandlerRows, SwitchPC
  <2>7. n \in Calm => HalfWritten(n)' \/ RowsAgree(n)'
    <3>1. CASE ap[a].swarm = 1
      BY <2>1, <3>1 DEF HalfWritten, Works
    <3>2. CASE ap[a].swarm = 0
      BY <2>2, <2>3, <2>4, <2>5, <3>2 DEF RowsAgree, Member
    <3>3. QED
      BY <2>1, <3>1, <3>2
  <2>8. /\ \A m \in Calm' \ {n} : art'[m] = art[m] /\ swarmTable'[m] = swarmTable[m]
        /\ \A m \in Calm' \cap {n} : /\ HalfWritten(m)' \/ RowsAgree(m)'
                                    /\ swarmTable'[m] = swarmTable[m]
    BY <1>a, <2>2, <2>3, <2>7 DEF Calm
  <2>9. QED
    BY <1>1, <1>a, <2>6, <2>8, APRowsFrame
<1>5. CASE RegisterInSwarm(a)
  <2>1. /\ ap[a].pc = "swarmrow" /\ ap'[a].pc = "dump" /\ ap[a].swarm = 1
        /\ ap'[a].node = n /\ ap'[a].swarm = ap[a].swarm
        /\ ap'[a].vip = ap[a].vip /\ ap'[a].port = ap[a].port
    BY <1>0, <1>5, RowWritesMove DEF SameStation, HandlerOK
  <2> DEFINE row == [hid |-> ap[a].vip, ap |-> a]
  <2>2. art' = art /\ swarmTable' = [swarmTable EXCEPT ![n] = row]
    BY <1>5 DEF RegisterInSwarm
  <2>3. row # None
    <3>1. ap[a].vip \in HostIds
      BY <1>0, <2>1, ConstantsOK DEF HandlerOK
    <3>2. row \in SwarmRow
      BY <3>1 DEF SwarmRow
    <3>3. QED
      BY <3>2, ConstantsOK
  <2>4. swarmTable'[n] = row /\ \A m \in Nodes \ {n} : swarmTable'[m] = swarmTable[m]
    BY <1>0, <1>1, <2>2 DEF TypeOK
  <2>5. row.hid = ap[a].vip /\ row.ap = a
    OBVIOUS
  <2> HIDE DEF row
  <2>6. n \in Calm =>
          /\ art[n] = [ap |-> a, swarm |-> 1, vip |-> ap[a].vip, port |-> ap[a].port]
          /\ swarmTable[n] # None /\ swarmTable[n].hid = ap[a].vip
    BY <1>0, <2>1 DEF HandlerRows
  <2>7. HandlerRows(a)'
    <3>1. /\ ap'[a].pc = "dump" /\ ap'[a].node = ap[a].node /\ ap'[a].swarm = 1
          /\ ap[a].node \in Calm =>
               art'[n] = [ap |-> a, swarm |-> ap'[a].swarm, vip |-> ap'[a].vip,
                          port |-> ap'[a].port]
      BY <2>1, <2>2, <2>6
    <3>2. QED
      BY <1>a, <3>1 DEF HandlerRows, SwitchPC
  <2>8. n \in Calm => RowsAgree(n)'
    <3>1. n \in Calm => Member(n) /\ art[n].ap = a /\ art[n].vip = ap[a].vip
      <4>1. n \in Calm => art[n] # None
        <5>1. n \in Calm => art[n] \in ArtRow \cup {None}
          BY <1>0, <1>1 DEF TypeOK
        <5>2. n \in Calm => [ap |-> a, swarm |-> 1, vip |-> ap[a].vip, port |-> ap[a].port] \in ArtRow
          <6>1. ap[a].vip \in Vips /\ ap[a].port \in PortOrNull
            BY <1>0, <2>1, ConstantsOK DEF HandlerOK, Vips, Ports, PortOrNull
          <6>2. QED
            BY <6>1 DEF ArtRow
        <5>3. QED
          BY <2>6, <5>2, ConstantsOK
      <4>2. QED
        BY <2>6, <4>1 DEF Member
    <3>2. QED
      BY <2>2, <2>3, <2>4, <2>5, <3>1 DEF RowsAgree, Member
  <2>9. /\ \A m \in Calm' \ {n} : art'[m] = art[m] /\ swarmTable'[m] = swarmTable[m]
        /\ \A m \in Calm' \cap {n} :
              /\ RowsAgree(m)'
              /\ swarmTable[m] # None /\ swarmTable'[m].hid = swarmTable[m].hid
    BY <1>a, <2>2, <2>4, <2>5, <2>6, <2>8 DEF Calm
  <2>10. QED
    BY <1>1, <1>a, <2>7, <2>9, APRowsFrame
<1>6. CASE RemoveStation(a)
  <2>1. /\ ap[a].pc = "reread" /\ ap'[a].pc = "delentries" /\ ap'[a].node = n
        /\ RegisteredAt(a, n) /\ UNCHANGED tables
    BY <1>6, RemoveStationMoves
  <2>2. HandlerRows(a)'
    BY <1>1, <2>1 DEF HandlerRows, SwitchPC, RegisteredAt, tables, Calm
  <2>3. QED
    BY <1>1, <2>1, <2>2, APKeepsRows
<1>7. CASE DeleteFromArt(a)
  <2>1. ap'[a].pc = "delswarm" /\ ap'[a].node = n
    <3>1. ~RegisterInSwarm(a)
      BY <1>7 DEF DeleteFromArt, RegisterInSwarm, Step
    <3>2. QED
      BY <1>7, <3>1, RowWritesMove DEF SameStation
  <2>2. art'[n] = None /\ swarmTable' = swarmTable /\ \A m \in Nodes \ {n} : art'[m] = art[m]
    BY <1>0, <1>1, <1>7 DEF DeleteFromArt, TypeOK
  <2>3. HandlerRows(a)'
    BY <2>1, <2>2 DEF HandlerRows, SwitchPC
  <2>4. HalfWritten(n)'
    BY <2>1 DEF HalfWritten, Works
  <2>5. /\ \A m \in Calm' \ {n} : art'[m] = art[m] /\ swarmTable'[m] = swarmTable[m]
        /\ \A m \in Calm' \cap {n} : /\ HalfWritten(m)'
                                    /\ swarmTable'[m] = swarmTable[m]
    BY <2>2, <2>4 DEF Calm
  <2>6. QED
    BY <1>1, <1>a, <2>3, <2>5, APRowsFrame
<1>8. QED
  BY <1>2, <1>3, <1>4, <1>5, <1>6, <1>7 DEF RowSteps

\* The last row of a lost station is deleted; the node may be calm again.
LEMMA DeleteFromSwarmRows ==
    ASSUME TypeInv, Alone, RowsInv, NEW a \in APs, DeleteFromSwarm(a)
    PROVE  RowsInv'
<1>n. PICK n \in Nodes : n = ap[a].node
  BY DeleteFromSwarmMoves
<1>1. /\ ap[a].pc = "delswarm" /\ ap'[a].node = None /\ OthersKept(a)
      /\ swarmTable'[n] = None /\ \A m \in Nodes \ {n} : swarmTable'[m] = swarmTable[m]
      /\ \A m \in Calm' \ Calm : /\ m = n /\ art[m] = None /\ ~Joining(m)
                                 /\ \A b \in APs \ {a} : ~Works(b, m)
      /\ art' = art /\ co' = co
  BY <1>n, DeleteFromSwarmMoves
<1>2. HandlerRows(a)'
  BY <1>1, ConstantsOK DEF HandlerRows, Calm
<1>3. HandlerRows(a)
  BY DEF RowsInv
<1>4. n \in Calm' => art[n] = None
  BY <1>n, <1>1, <1>3 DEF HandlerRows
<1>5. n \in Calm' => RowsAgree(n)'
  BY <1>1, <1>4 DEF RowsAgree, Member
<1>6. /\ \A m \in Calm' \ {n} : art'[m] = art[m] /\ swarmTable'[m] = swarmTable[m]
      /\ \A m \in Calm' \cap {n} : RowsAgree(m)' /\ swarmTable'[m] = None
  BY <1>1, <1>5 DEF Calm
<1>7. QED
  BY <1>n, <1>1, <1>2, <1>6, APRowsFrame

\* The other steps of an AP manager.
LEMMA APStepRows ==
    ASSUME TypeInv, Alone, RowsInv, NEW a \in APs, APStep(a)
    PROVE  RowsInv'
<1>0. TypeOK /\ HandlerRows(a)
  BY DEF TypeInv, RowsInv
<1>1. CASE UNCHANGED <<ap, tables, connected, tunnel, co, disturbed, restarts, lpm>>
  BY <1>1 DEF RowsInv, Agree, Calm, HalfWritten, RowsAgree, Member, Works, HandlerRows,
              RegisteredAt, TasksInv, TaskRow, UniqueHostIds, tables
<1>2. CASE NewStation(a) \/ LostStation(a)
  <2>1. /\ ap[a].pc = "idle" /\ ap'[a].pc \in {"arp", "del"} /\ OthersKept(a)
        /\ disturbed \subseteq disturbed' /\ UNCHANGED <<tables, co>>
    BY <1>0, <1>2, StartsAlone
  <2>2. HandlerRows(a)'
    BY <2>1 DEF HandlerRows, SwitchPC
  <2>3. QED
    BY <2>1, <2>2, APKeepsRows
<1>3. CASE Advances(a)
  <2>1. /\ <<ap[a].pc, ap'[a].pc>> \in Successors
        /\ SameStation(a) /\ OthersKept(a) /\ UNCHANGED <<tables, co, disturbed>>
    BY <1>0, <1>3, AdvancesMove DEF NoRowChanges
  <2>2. ap[a].pc \notin {"swarmrow", "delswarm"}
    BY <2>1 DEF Successors
  <2>3. HandlerRows(a)'
    BY <1>0, <2>1 DEF HandlerRows, SwitchPC, Successors, SameStation, Calm, Member,
                      RegisteredAt, tables
  <2>4. QED
    BY <2>1, <2>2, <2>3, APKeepsRows
<1>4. CASE Ends(a)
  <2>1. /\ ap[a].pc \notin {"swarmrow", "delswarm"} /\ ap'[a].node = None
        /\ OthersKept(a) /\ UNCHANGED <<tables, co, disturbed>>
    BY <1>0, <1>4, EndsFinish DEF NoRowChanges
  <2>2. HandlerRows(a)'
    BY <2>1, ConstantsOK DEF HandlerRows, Calm
  <2>3. QED
    BY <2>1, <2>2, APKeepsRows
<1>5. CASE APManagerDies(a)
  <2>1. /\ ap'[a].node = None /\ OthersKept(a) /\ UNCHANGED <<tables, co>>
        /\ disturbed \subseteq disturbed' /\ ap[a].pc \notin {"swarmrow", "delswarm"}
    BY <1>5, DiesMoves
  <2>2. HandlerRows(a)'
    BY <2>1, ConstantsOK DEF HandlerRows, Calm
  <2>3. QED
    BY <2>1, <2>2, APKeepsRows
<1>6. CASE RowSteps(a)
  BY <1>6, RowStepRows
<1>7. CASE DeleteFromSwarm(a)
  BY <1>7, DeleteFromSwarmRows
<1>8. QED
  BY <1>1, <1>2, <1>3, <1>4, <1>5, <1>6, <1>7, APStepKinds

\* A failed query changes no row, and the node whose row is not what its
\* handler takes it to be is not calm.
LEMMA APQueryFailsRows ==
    ASSUME TypeInv, Alone, RowsInv, NEW a \in APs, APQueryFails(a)
    PROVE  RowsInv'
<1>1. /\ ap'[a].node \in {ap[a].node, None} /\ OthersKept(a) /\ UNCHANGED <<tables, co>>
      /\ \/ disturbed' = disturbed \cup {ap[a].node}
         \/ /\ disturbed' = disturbed /\ ap'[a].node = None
            /\ \/ ap[a].pc \in {"arp", "hostid", "del", "reread"}
               \/ ap[a].pc = "delswarm" /\ swarmTable[ap[a].node] = None
  BY APQueryFailsMoves
<1>2. HandlerRows(a)'
  BY <1>1, ConstantsOK DEF HandlerRows, Calm
<1>3. CASE ap[a].pc = "delswarm" /\ swarmTable[ap[a].node] = None
  <2>1. art' = art /\ swarmTable' = swarmTable /\ Calm' \subseteq Calm
    BY <1>1 DEF tables, Calm
  <2>2. HandlerRows(a)
    BY DEF RowsInv
  <2>3. ap[a].node \in Calm => RowsAgree(ap[a].node)
    BY <1>3, <2>2 DEF HandlerRows, RowsAgree, Member
  <2>4. \A n \in Calm' \cap {ap[a].node} : RowsAgree(n)'
    BY <2>1, <2>3 DEF RowsAgree, Member
  <2>5. QED
    BY <1>1, <1>2, <2>1, <2>4, APRowsFrame
<1>4. CASE ap[a].pc \notin {"swarmrow", "delswarm"} \/ ap[a].node \notin Calm'
  BY <1>1, <1>2, <1>4, APKeepsRows
<1>5. QED
  BY <1>1, <1>3, <1>4 DEF Calm

\* A step of the coordinator changes rows only of nodes it works on.
LEMMA CoRowsFrame ==
    ASSUME TypeInv, Alone, RowsInv, ap' = ap, disturbed \subseteq disturbed',
           \A n \in Calm' : ~Joining(n) => art'[n] = art[n] /\ swarmTable'[n] = swarmTable[n],
           \A n \in Calm' : Joining(n) => HalfWritten(n)' \/ RowsAgree(n)',
           TasksInv', UniqueHostIds'
    PROVE  RowsInv'
<1>0. Calm' \subseteq Calm
  BY DEF Calm
<1>1. ASSUME NEW n \in Calm'
      PROVE  HalfWritten(n)' \/ RowsAgree(n)'
  <2>1. CASE Joining(n)
    BY <1>1, <2>1
  <2>2. CASE ~Joining(n)
    <3>1. ~(co.pc = "artrow" /\ Head(co.todo).node = n)
      <4> SUFFICES ASSUME co.pc = "artrow", Head(co.todo).node = n
                   PROVE  FALSE
        OBVIOUS
      <4>1. co.todo # <<>> /\ co.todo \in Seq(Task)
        BY DEF TypeInv, TypeOK, TasksOK, Coordinator
      <4>2. Head(co.todo) = co.todo[1] /\ 1 \in DOMAIN co.todo
        BY <4>1, TailTasks
      <4>3. QED
        BY <2>2, <4>2 DEF Joining, RowsInv, TasksInv
    <3>2. HalfWritten(n) \/ RowsAgree(n)
      BY <1>0 DEF RowsInv, Agree
    <3>3. HalfWritten(n) => HalfWritten(n)'
      BY <3>1 DEF HalfWritten, Works
    <3>4. RowsAgree(n) => RowsAgree(n)'
      BY <1>1, <2>2 DEF RowsAgree, Member
    <3>5. QED
      BY <3>2, <3>3, <3>4
  <2>3. QED
    BY <2>1, <2>2
<1>2. ASSUME NEW a \in APs
      PROVE  HandlerRows(a)'
  <2>1. CASE ap[a].node \in Calm'
    <3>1. ~Joining(ap[a].node)
      BY <1>0, <2>1 DEF Alone, Works
    <3>2. PICK n \in Calm' : n = ap[a].node
      BY <2>1
    <3>3. art'[n] = art[n] /\ swarmTable'[n] = swarmTable[n] /\ n \in Calm
      BY <1>0, <3>1, <3>2
    <3>4. HandlerRows(a)
      BY DEF RowsInv
    <3>5. QED
      BY <3>2, <3>3, <3>4 DEF HandlerRows, Member, RegisteredAt
  <2>2. CASE ap[a].node \notin Calm'
    BY <2>2 DEF HandlerRows
  <2>3. QED
    BY <2>1, <2>2
<1>3. QED
  BY <1>1, <1>2 DEF RowsInv, Agree

\* A step of the coordinator that changes no row.
LEMMA CoKeepsRows ==
    ASSUME TypeInv, Alone, RowsInv, ap' = ap, UNCHANGED tables,
           disturbed \subseteq disturbed', TasksInv',
           co.pc # "artrow" \/ Head(co.todo).node \notin Calm'
    PROVE  RowsInv'
<1>0. Calm' \subseteq Calm /\ art' = art /\ swarmTable' = swarmTable
  BY DEF Calm, tables
<1>1. UniqueHostIds'
  BY <1>0 DEF RowsInv, UniqueHostIds, Calm
<1>2. ASSUME NEW n \in Calm'
      PROVE  HalfWritten(n)' \/ RowsAgree(n)'
  <2>1. HalfWritten(n) \/ RowsAgree(n)
    BY <1>0 DEF RowsInv, Agree
  <2>2. HalfWritten(n) => HalfWritten(n)'
    BY DEF HalfWritten, Works
  <2>3. QED
    BY <1>0, <2>1, <2>2 DEF RowsAgree, Member
<1>3. QED
  BY <1>0, <1>1, <1>2, CoRowsFrame

\* Without a request there are no tasks.
LEMMA IdleTasks == co' = IdleCoordinator => TasksInv'
  BY DEF IdleCoordinator, TasksInv, SwitchPC

\* The coordinator is done with the first task, or goes on with it.
LEMMA DropsTasks ==
    ASSUME TypeInv, RowsInv, UNCHANGED tables, disturbed' = disturbed,
           CoDrops \/ SendGoAway
    PROVE  TasksInv'
<1>1. /\ co.pc \in {"task", "replicate"} /\ co.todo # <<>> /\ co.todo \in Seq(Task)
      /\ co'.pc = "task" /\ co'.todo = Tail(co.todo) /\ co'.kind = co.kind
      /\ co.kind = "njl" => co'.avail = co.avail
  <2>1. CASE CoDrops
    BY <2>1, CoDropsFirst
  <2>2. CASE SendGoAway
    <3>1. co.kind = "nll"
      BY <2>2 DEF SendGoAway
    <3>2. QED
      BY <2>2, <3>1, CoSends
  <2>3. QED
    BY <2>1, <2>2
<1>2. \A i \in DOMAIN co'.todo : /\ i + 1 \in DOMAIN co.todo /\ i + 1 # 1
                                 /\ i \in Nat /\ co'.todo[i] = co.todo[i + 1]
  BY <1>1, TailTasks
<1>3. art' = art /\ swarmTable' = swarmTable /\ Calm' = Calm
  BY DEF tables, Calm
<1>4. TasksInv
  BY DEF RowsInv
<1>5. ASSUME NEW i \in DOMAIN co'.todo, NEW j \in DOMAIN co'.todo, i # j
      PROVE  co'.todo[i].node # co'.todo[j].node /\ co'.todo[i].hid # co'.todo[j].hid
  <2>1. i + 1 # j + 1
    BY <1>2, <1>5
  <2>2. co.pc # "ids"
    BY <1>1
  <2>3. QED
    BY <1>2, <1>4, <2>1, <2>2 DEF TasksInv
<1>6. ASSUME co.kind = "njl", NEW i \in DOMAIN co'.todo
      PROVE  TaskRow(i)'
  <2>1. TaskRow(i + 1)
    BY <1>2, <1>4, <1>6 DEF TasksInv
  <2>2. QED
    BY <1>1, <1>2, <1>3, <2>1 DEF TaskRow, SwitchPC
<1>7. ASSUME co.kind = "njl", NEW n \in co.avail \cap Calm
      PROVE  Member(n)
  BY <1>1, <1>4, <1>7 DEF TasksInv
<1>8. QED
  BY <1>1, <1>3, <1>5, <1>6, <1>7 DEF TasksInv, Member, SwitchPC

\* A node is listed before either of its rows is written.
LEMMA SendsTasks ==
    ASSUME TypeInv, RowsInv, SendJoinConfig
    PROVE  TasksInv' /\ ap' = ap /\ disturbed' = disturbed /\ UNCHANGED tables
<1>1. /\ co.pc = "task" /\ co.kind = "njl"
      /\ ap' = ap /\ disturbed' = disturbed /\ UNCHANGED tables
  BY DEF SendJoinConfig
<1>2. /\ co'.pc = "swarmrow" /\ co'.kind = co.kind /\ co'.todo = co.todo
      /\ co'.avail = co.avail \cup {Head(co.todo).node}
  BY <1>1, CoSends
<1>3. art' = art /\ swarmTable' = swarmTable /\ Calm' = Calm
  BY <1>1 DEF tables, Calm
<1>4. TasksInv
  BY DEF RowsInv
<1>5. ASSUME NEW i \in DOMAIN co.todo
      PROVE  TaskRow(i)'
  <2>1. TaskRow(i)
    BY <1>1, <1>4 DEF TasksInv
  <2>2. QED
    BY <1>1, <1>2, <1>3, <2>1 DEF TaskRow, SwitchPC
<1>6. QED
  BY <1>1, <1>2, <1>3, <1>4, <1>5 DEF TasksInv, Member

\* The ids of a batch are in no row.
LEMMA AssignsTasks ==
    ASSUME TypeInv, RowsInv, AssignHostIds \/ TooFewHostIds
    PROVE  TasksInv'
<1>1. /\ co.pc = "ids" /\ co'.pc = "task"
      /\ co'.kind = co.kind /\ co'.avail = co.avail
      /\ DOMAIN co'.todo \subseteq DOMAIN co.todo
      /\ \A i \in DOMAIN co'.todo :
            /\ co'.todo[i].node = co.todo[i].node /\ co'.todo[i].ap = co.todo[i].ap
            /\ co'.todo[i].port = co.todo[i].port
            /\ co'.todo[i].hid \in BatchIds
            /\ \A j \in DOMAIN co'.todo :
                  i # j => co'.todo[i].hid # co'.todo[j].hid
  BY CoAssigns
<1>2. art' = art /\ swarmTable' = swarmTable /\ Calm' = Calm
  BY CoAssigns DEF NoHandlerChanges, tables, Calm
<1>3. TasksInv
  BY DEF RowsInv
<1>4. ASSUME NEW h \in BatchIds, NEW m \in Nodes, swarmTable[m] # None
      PROVE  swarmTable[m].hid # h
  BY <1>4 DEF BatchIds, TakenIds
<1>5. ASSUME co.kind = "njl", NEW i \in DOMAIN co'.todo
      PROVE  TaskRow(i)'
  <2>1. TaskRow(i)
    BY <1>1, <1>3, <1>5 DEF TasksInv
  <2>2. \A m \in Calm : swarmTable[m] # None => swarmTable[m].hid # co'.todo[i].hid
    BY <1>1, <1>4 DEF Calm
  <2>3. QED
    BY <1>1, <1>2, <2>1, <2>2 DEF TaskRow, SwitchPC
<1>6. QED
  BY <1>1, <1>2, <1>3, <1>5 DEF TasksInv, Member, SwitchPC

\* The coordinator's work on a switch, and a write that fails, whose node is
\* not calm any more, leave the tasks' rows as they should be.
LEMMA MovesTasks ==
    ASSUME TypeInv, RowsInv, UNCHANGED tables, disturbed \subseteq disturbed',
           SameRequest, co.todo # <<>>,
           \/ <<co.pc, co'.pc>> \in {<<"dump", "ports">>, <<"ports", "replicate">>}
           \/ /\ <<co.pc, co'.pc>> \in {<<"swarmrow", "artrow">>, <<"artrow", "dump">>}
              /\ co.todo[1].node \notin Calm' /\ Head(co.todo) = co.todo[1]
    PROVE  TasksInv'
<1>1. /\ co'.todo = co.todo /\ co'.kind = co.kind /\ co'.avail = co.avail
      /\ co.pc # "ids" /\ co'.pc # "ids"
      /\ co.pc \in {"swarmrow", "artrow"} \cup SwitchPC
  BY DEF SameRequest, SwitchPC
<1>2. art' = art /\ swarmTable' = swarmTable /\ Calm' \subseteq Calm
  BY DEF tables, Calm
<1>3. TasksInv
  BY DEF RowsInv
<1>4. ASSUME NEW i \in DOMAIN co.todo
      PROVE  TaskRow(i)'
  <2>1. TaskRow(i)
    BY <1>1, <1>3 DEF TasksInv
  <2>2. \A m \in Calm' \ {co.todo[i].node} :
           swarmTable[m] # None => swarmTable[m].hid # co.todo[i].hid
    BY <1>1, <1>2, <2>1 DEF TaskRow
  <2>3. CASE <<co.pc, co'.pc>> \in {<<"dump", "ports">>, <<"ports", "replicate">>}
    BY <1>1, <1>2, <2>1, <2>2, <2>3 DEF TaskRow, SwitchPC
  <2>4. CASE /\ <<co.pc, co'.pc>> \in {<<"swarmrow", "artrow">>, <<"artrow", "dump">>}
             /\ co.todo[1].node \notin Calm'
    BY <1>1, <1>2, <2>1, <2>2, <2>4 DEF TaskRow, SwitchPC
  <2>5. QED
    BY <2>3, <2>4
<1>5. ASSUME NEW n \in co.avail \cap Calm'
      PROVE  Member(n) \/ (co'.pc \in {"swarmrow", "artrow"} /\ Head(co.todo).node = n)
  BY <1>1, <1>2, <1>3, <1>5 DEF TasksInv
<1>6. QED
  BY <1>1, <1>2, <1>3, <1>4, <1>5 DEF TasksInv, Member

\* onboard_node writes the Swarm_Table row.
LEMMA InsertRows ==
    ASSUME TypeInv, Alone, RowsInv, InsertSwarmRow
    PROVE  RowsInv'
<1>0. TypeOK /\ TasksInv
  BY DEF TypeInv, RowsInv
<1>1. /\ co.pc = "swarmrow" /\ co'.pc = "artrow" /\ SameRequest
      /\ co.todo # <<>> /\ Head(co.todo) = co.todo[1] /\ 1 \in DOMAIN co.todo
      /\ Head(co.todo).node \in Nodes
  BY CoSteps DEF InsertSwarmRow, CoPCs
<1>2. PICK t : t = co.todo[1]
  OBVIOUS
<1>3. PICK n \in Nodes : n = t.node
  BY <1>1, <1>2
<1>4. PICK row : row = [hid |-> t.hid, ap |-> t.ap]
  OBVIOUS
<1>5. /\ swarmTable' = [swarmTable EXCEPT ![n] = row]
      /\ art' = art /\ ap' = ap /\ disturbed' = disturbed
  BY <1>1, <1>2, <1>3, <1>4 DEF InsertSwarmRow
<1>6. /\ swarmTable'[n] = row /\ row.hid = t.hid
      /\ \A m \in Nodes \ {n} : swarmTable'[m] = swarmTable[m]
  BY <1>0, <1>4, <1>5 DEF TypeOK
<1>7. Calm' = Calm /\ Calm \subseteq Nodes
  BY <1>5 DEF Calm
<1>8. co.kind = "njl" /\ TaskRow(1)
  BY <1>0, <1>1 DEF TasksInv
<1>9. Joining(n)
  BY <1>1, <1>2, <1>3, <1>8 DEF Joining
<1>10. /\ co'.todo = co.todo /\ co'.kind = "njl" /\ co'.avail = co.avail
  BY <1>1, <1>8 DEF SameRequest
<1>11. \A m \in Calm \ {n} : swarmTable[m] # None => swarmTable[m].hid # t.hid
  BY <1>1, <1>2, <1>3, <1>8 DEF TaskRow
<1>12. ASSUME NEW i \in DOMAIN co.todo
       PROVE  TaskRow(i)'
  <2>1. TaskRow(i)
    BY <1>0, <1>8 DEF TasksInv
  <2>2. CASE i = 1
    BY <1>1, <1>2, <1>3, <1>4, <1>5, <1>6, <1>7, <1>10, <2>1, <2>2 DEF TaskRow, SwitchPC
  <2>3. CASE i # 1
    <3>1. co.todo[i].hid # t.hid /\ co.todo[i].node # n
      BY <1>0, <1>1, <1>2, <1>3, <2>3 DEF TasksInv
    <3>2. \A m \in Calm \ {co.todo[i].node} :
             swarmTable'[m] # None => swarmTable'[m].hid # co.todo[i].hid
      BY <1>1, <1>6, <1>7, <2>1, <3>1 DEF TaskRow
    <3>3. QED
      BY <1>1, <1>5, <1>7, <1>10, <2>1, <2>3, <3>2 DEF TaskRow, SwitchPC
  <2>4. QED
    BY <2>2, <2>3
<1>13. TasksInv'
  <2>1. ASSUME NEW m \in co.avail \cap Calm
        PROVE  Member(m) \/ Head(co.todo).node = m
    BY <1>0, <1>8 DEF TasksInv
  <2>2. QED
    BY <1>0, <1>1, <1>5, <1>7, <1>10, <1>12, <2>1 DEF TasksInv, Member
<1>14. UniqueHostIds'
  <2> SUFFICES ASSUME NEW k \in Calm, NEW m \in Calm, k # m,
                      swarmTable'[k] # None, swarmTable'[m] # None
               PROVE  swarmTable'[k].hid # swarmTable'[m].hid
    BY <1>7 DEF UniqueHostIds, Calm
  <2>1. CASE k # n /\ m # n
    BY <1>6, <1>7, <2>1 DEF RowsInv, UniqueHostIds, Calm
  <2>2. CASE k = n \/ m = n
    BY <1>6, <1>7, <1>11, <2>2
  <2>3. QED
    BY <2>1, <2>2
<1>15. ASSUME NEW m \in Calm', Joining(m)
       PROVE  HalfWritten(m)' \/ RowsAgree(m)'
  <2>1. CASE m = n
    BY <1>1, <1>2, <1>3, <1>10, <2>1 DEF HalfWritten
  <2>2. CASE m # n
    <3>1. HalfWritten(m) \/ RowsAgree(m)
      BY <1>7 DEF RowsInv, Agree
    <3>2. HalfWritten(m) => HalfWritten(m)'
      BY <1>1, <1>5 DEF HalfWritten, Works
    <3>3. RowsAgree(m) => RowsAgree(m)'
      BY <1>5, <1>6, <1>7, <2>2 DEF RowsAgree, Member
    <3>4. QED
      BY <3>1, <3>2, <3>3
  <2>3. QED
    BY <2>1, <2>2
<1>16. QED
  BY <1>5, <1>6, <1>7, <1>9, <1>13, <1>14, <1>15, CoRowsFrame

\* onboard_node writes the ART row.
LEMMA UpdateRows ==
    ASSUME TypeInv, Alone, RowsInv, UpdateArt
    PROVE  RowsInv'
<1>0. TypeOK /\ TasksInv
  BY DEF TypeInv, RowsInv
<1>1. /\ co.pc = "artrow" /\ co'.pc = "dump" /\ SameRequest
      /\ co.todo # <<>> /\ Head(co.todo) = co.todo[1] /\ 1 \in DOMAIN co.todo
      /\ Head(co.todo).node \in Nodes
  BY CoSteps DEF UpdateArt, CoPCs, SwitchPC
<1>2. PICK t : t = co.todo[1]
  OBVIOUS
<1>3. PICK n \in Nodes : n = t.node
  BY <1>1, <1>2
<1>4. PICK row : row = [ap |-> t.ap, swarm |-> 1, vip |-> t.hid,
                        port |-> IF art[n] = None THEN 0 ELSE art[n].port]
  OBVIOUS
<1>5. /\ art' = [art EXCEPT ![n] = row]
      /\ swarmTable' = swarmTable /\ ap' = ap /\ disturbed' = disturbed
  BY <1>1, <1>2, <1>3, <1>4 DEF UpdateArt
<1>6. /\ art'[n] = row /\ row.ap = t.ap /\ row.swarm = 1 /\ row.vip = t.hid
      /\ art[n] # None => row.port = art[n].port
      /\ \A m \in Nodes \ {n} : art'[m] = art[m]
  BY <1>0, <1>4, <1>5 DEF TypeOK
<1>a. row # None
  <2>1. co.todo \in Seq(Task) /\ co.pc # "ids"
    BY <1>0, <1>1 DEF TypeOK, Coordinator
  <2>2. t \in Task /\ t.hid \in HostIds
    BY <1>1, <1>2, <2>1 DEF TypeInv, TasksOK
  <2>3. (IF art[n] = None THEN 0 ELSE art[n].port) \in PortOrNull
    BY <1>0, ConstantsOK DEF TypeOK, ArtRow, PortOrNull
  <2>4. row \in ArtRow
    BY <1>4, <2>2, <2>3 DEF ArtRow, Task, Vips
  <2>5. QED
    BY <2>4, ConstantsOK
<1>7. Calm' = Calm /\ Calm \subseteq Nodes
  BY <1>5 DEF Calm
<1>8. co.kind = "njl" /\ TaskRow(1)
  BY <1>0, <1>1 DEF TasksInv
<1>9. Joining(n)
  BY <1>1, <1>2, <1>3, <1>8 DEF Joining
<1>10. /\ co'.todo = co.todo /\ co'.kind = "njl" /\ co'.avail = co.avail
  BY <1>1, <1>8 DEF SameRequest
<1>11. n \in Calm => /\ art[n] # None /\ art[n].port = t.port
                     /\ swarmTable[n] = [hid |-> t.hid, ap |-> t.ap]
  BY <1>1, <1>2, <1>3, <1>8 DEF TaskRow
<1>12. ASSUME NEW i \in DOMAIN co.todo
       PROVE  TaskRow(i)'
  <2>1. TaskRow(i)
    BY <1>0, <1>8 DEF TasksInv
  <2>2. CASE i = 1
    BY <1>a, <1>1, <1>2, <1>3, <1>5, <1>6, <1>7, <1>10, <1>11, <2>1, <2>2
       DEF TaskRow, SwitchPC
  <2>3. CASE i # 1
    <3>1. co.todo[i].node # n
      BY <1>0, <1>1, <1>2, <1>3, <2>3 DEF TasksInv
    <3>2. co.todo[i].node \in Calm => art'[co.todo[i].node] = art[co.todo[i].node]
      BY <1>6, <1>7, <3>1
    <3>3. QED
      BY <1>1, <1>5, <1>7, <1>10, <2>1, <2>3, <3>2 DEF TaskRow, SwitchPC
  <2>4. QED
    BY <2>2, <2>3
<1>13. TasksInv'
  <2>1. ASSUME NEW m \in co.avail \cap Calm
        PROVE  Member(m)'
    <3>1. Member(m) \/ m = n
      BY <1>0, <1>1, <1>2, <1>3, <1>8, <2>1 DEF TasksInv
    <3>2. QED
      BY <1>a, <1>6, <1>7, <2>1, <3>1 DEF Member
  <2>2. QED
    BY <1>0, <1>1, <1>7, <1>10, <1>12, <2>1 DEF TasksInv
<1>14. UniqueHostIds'
  BY <1>5 DEF RowsInv, UniqueHostIds
<1>15. ASSUME NEW m \in Calm', Joining(m)
       PROVE  HalfWritten(m)' \/ RowsAgree(m)'
  <2>1. CASE m = n
    <3>1. swarmTable'[n] = [hid |-> t.hid, ap |-> t.ap] /\ swarmTable[n] # None
      <4>1. swarmTable[n] = [hid |-> t.hid, ap |-> t.ap]
        BY <1>7, <1>11, <1>15, <2>1
      <4>2. co.todo \in Seq(Task) /\ co.pc # "ids"
        BY <1>0, <1>1 DEF TypeOK, Coordinator
      <4>3. t \in Task /\ t.hid \in HostIds
        BY <1>1, <1>2, <4>2 DEF TypeInv, TasksOK
      <4>4. [hid |-> t.hid, ap |-> t.ap] \in SwarmRow
        BY <4>3 DEF SwarmRow, Task
      <4>5. QED
        BY <1>5, <4>1, <4>4, ConstantsOK
    <3>2. swarmTable'[n].hid = t.hid /\ swarmTable'[n].ap = t.ap
      BY <3>1
    <3>3. QED
      BY <1>a, <1>5, <1>6, <2>1, <3>1, <3>2 DEF RowsAgree, Member
  <2>2. CASE m # n
    <3>1. HalfWritten(m) \/ RowsAgree(m)
      BY <1>7 DEF RowsInv, Agree
    <3>2. HalfWritten(m) => HalfWritten(m)'
      BY <1>1, <1>2, <1>3, <1>5, <2>2 DEF HalfWritten, Works
    <3>3. RowsAgree(m) => RowsAgree(m)'
      BY <1>5, <1>6, <1>7, <2>2 DEF RowsAgree, Member
    <3>4. QED
      BY <3>1, <3>2, <3>3
  <2>3. QED
    BY <2>1, <2>2
<1>16. QED
  BY <1>5, <1>6, <1>7, <1>9, <1>13, <1>14, <1>15, CoRowsFrame

\* A request's tasks are what the ART says of their nodes.
LEMMA AcceptRows ==
    ASSUME TypeInv, Alone, RowsInv, NEW kind \in {"njl", "nll"}, NEW S \in SUBSET Nodes,
           AcceptRequest(kind, S)
    PROVE  RowsInv'
<1>1. /\ co.pc = "idle" /\ ap' = ap /\ UNCHANGED tables
      /\ disturbed \subseteq disturbed'
  BY DEF AcceptRequest
<1>2. PICK C : C = Candidates(kind, S)
  OBVIOUS
<1>3. C \in SUBSET Nodes /\ \A n \in C : art[n] # None /\ (kind = "njl" => art[n].swarm = 0)
  BY <1>2 DEF Candidates
<1>4. PICK order \in Orders(C) :
         co' = IF order = <<>> THEN IdleCoordinator
               ELSE [IdleCoordinator EXCEPT
                       !.pc = "ids", !.kind = kind,
                       !.todo = [i \in DOMAIN order |-> NewTask(order[i])]]
  BY <1>2 DEF AcceptRequest
<1>5. order \in Seq(C)
  BY <1>3, <1>4, OrdersType
<1>6. CASE order = <<>>
  BY <1>1, <1>4, <1>6, IdleTasks, CoKeepsRows
<1>7. CASE order # <<>>
  <2>1. /\ co'.pc = "ids" /\ co'.kind = kind /\ co'.avail = {}
        /\ co'.todo = [i \in DOMAIN order |-> NewTask(order[i])]
    BY <1>4, <1>7 DEF IdleCoordinator
  <2>2. DOMAIN co'.todo = DOMAIN order
    BY <2>1
  <2>3. ASSUME NEW i \in DOMAIN order
        PROVE  /\ co'.todo[i].node = order[i] /\ order[i] \in C
               /\ co'.todo[i].ap = art[order[i]].ap
               /\ co'.todo[i].port = art[order[i]].port
    BY <1>5, <2>1, <2>3 DEF NewTask
  <2>4. ASSUME NEW i \in DOMAIN order, NEW j \in DOMAIN order, i # j
        PROVE  order[i] # order[j]
    BY <1>4, <2>4 DEF Orders
  <2>5. ASSUME kind = "njl", NEW i \in DOMAIN order
        PROVE  TaskRow(i)'
    <3>1. art' = art
      BY <1>1 DEF tables
    <3>2. art[order[i]] # None /\ art[order[i]].swarm = 0
      BY <1>3, <2>3, <2>5
    <3>3. QED
      BY <2>1, <2>3, <3>1, <3>2 DEF TaskRow, SwitchPC
  <2>6. TasksInv'
    BY <2>1, <2>2, <2>3, <2>4, <2>5 DEF TasksInv, SwitchPC
  <2>7. QED
    BY <1>1, <2>6, CoKeepsRows
<1>8. QED
  BY <1>6, <1>7

\* The other steps of the coordinator.
LEMMA CoordinatorRows ==
    ASSUME TypeInv, Alone, RowsInv, CoordinatorStep
    PROVE  RowsInv'
<1>1. CASE CoEnds
  BY <1>1, CoEndsIdle, IdleTasks, CoKeepsRows DEF NoHandlerChanges
<1>2. CASE CoDrops
  BY <1>2, CoDropsFirst, DropsTasks, CoKeepsRows DEF NoHandlerChanges
<1>3. CASE SendGoAway
  <2>1. co.pc = "task" /\ ap' = ap /\ disturbed' = disturbed /\ UNCHANGED tables
    BY <1>3 DEF SendGoAway
  <2>2. QED
    BY <1>3, <2>1, DropsTasks, CoKeepsRows
<1>4. CASE SendJoinConfig
  BY <1>4, CoSends, SendsTasks, CoKeepsRows
<1>5. CASE AssignHostIds \/ TooFewHostIds
  BY <1>5, CoAssigns, AssignsTasks, CoKeepsRows DEF NoHandlerChanges
<1>6. CASE InsertSwarmRow
  BY <1>6, InsertRows
<1>7. CASE UpdateArt
  BY <1>7, UpdateRows
<1>8. CASE CoDumpPorts \/ CoUpdatePorts
  <2>1. /\ <<co.pc, co'.pc>> \in {<<"dump", "ports">>, <<"ports", "replicate">>}
        /\ SameRequest /\ co.todo # <<>> /\ NoHandlerChanges /\ UNCHANGED tables
    BY <1>8, CoSwitchSteps
  <2>2. TasksInv'
    BY <2>1, MovesTasks DEF NoHandlerChanges
  <2>3. QED
    BY <2>1, <2>2, CoKeepsRows DEF NoHandlerChanges
<1>9. QED
  BY <1>1, <1>2, <1>3, <1>4, <1>5, <1>6, <1>7, <1>8
     DEF CoordinatorStep, CoEnds, CoDrops

\* A failed query of the coordinator.
LEMMA CoQueryFailsRows ==
    ASSUME TypeInv, Alone, RowsInv, CoQueryFails
    PROVE  RowsInv'
<1>1. UNCHANGED <<tables, ap, connected, tunnel, lpm, restarts>>
  BY CoQueryFailsMoves
<1>2. CASE co.pc = "ids" /\ co' = IdleCoordinator /\ disturbed' = disturbed
  BY <1>1, <1>2, IdleTasks, CoKeepsRows
<1>3. CASE /\ <<co.pc, co'.pc>> \in {<<"swarmrow", "artrow">>, <<"artrow", "dump">>}
           /\ SameRequest
           /\ co.todo # <<>> /\ Head(co.todo) = co.todo[1] /\ 1 \in DOMAIN co.todo
           /\ Head(co.todo).node \in Nodes
           /\ disturbed' = disturbed \cup {Head(co.todo).node}
  <2>1. disturbed \subseteq disturbed' /\ co.todo[1].node \notin Calm'
    BY <1>3 DEF Calm
  <2>2. TasksInv'
    BY <1>1, <1>3, <2>1, MovesTasks
  <2>3. QED
    BY <1>1, <1>3, <2>1, <2>2, CoKeepsRows
<1>4. QED
  BY <1>2, <1>3, CoQueryFailsMoves

\* A message is answered.
LEMMA NodeStepRows ==
    ASSUME RowsInv, TypeInv, NEW k \in Nodes, NodeStep(k)
    PROVE  RowsInv'
<1>1. \A a \in APs : /\ SameStation(a)
                     /\ \/ ap'[a].pc = ap[a].pc
                        \/ ap[a].pc = "await" /\ ap'[a].pc = "acked"
  BY MessageAcks
<1>2. UNCHANGED <<art, swarmTable, co, disturbed>> /\ Calm' = Calm
  BY DEF NodeStep, HandleMessage, LeaveNetwork, ReturnToNetwork, tables, Calm
<1>3. ASSUME NEW a \in APs
      PROVE  HandlerRows(a)'
  <2>1. HandlerRows(a)
    BY DEF RowsInv
  <2>2. QED
    BY <1>1, <1>2, <2>1 DEF HandlerRows, SwitchPC, SameStation, Member, RegisteredAt
<1>4. ASSUME NEW n \in Calm
      PROVE  HalfWritten(n)' \/ RowsAgree(n)'
  <2>1. HalfWritten(n) \/ RowsAgree(n)
    BY DEF RowsInv, Agree
  <2>2. HalfWritten(n) => HalfWritten(n)'
    BY <1>1, <1>2 DEF HalfWritten, Works, SameStation
  <2>3. RowsAgree(n) => RowsAgree(n)'
    BY <1>2 DEF RowsAgree, Member
  <2>4. QED
    BY <2>1, <2>2, <2>3
<1>5. TasksInv' /\ UniqueHostIds'
  BY <1>1, <1>2 DEF RowsInv, TasksInv, TaskRow, Member, UniqueHostIds
<1>6. QED
  BY <1>2, <1>3, <1>4, <1>5 DEF RowsInv, Agree

\* A restart of the coordinator empties Swarm_Table: the members are not calm
\* any more, and the other nodes had no row there.
LEMMA RestartRows ==
    ASSUME TypeInv, RowsInv, RestartCoordinator
    PROVE  RowsInv'
<1>1. /\ co' = IdleCoordinator /\ art' = art /\ ap' = ap
      /\ \A n \in Nodes : swarmTable'[n] = None
      /\ disturbed' = disturbed \cup {n \in Nodes : Member(n) \/ Told(n)}
  BY DEF RestartCoordinator, CoFinish
<1>2. Calm' \subseteq Calm /\ Calm' \subseteq Nodes /\ \A n \in Calm' : ~Member(n)
  BY <1>1 DEF Calm
<1>3. Agree' /\ UniqueHostIds'
  BY <1>1, <1>2 DEF Agree, RowsAgree, Member, UniqueHostIds, Calm
<1>4. ASSUME NEW a \in APs, ap[a].node \in Calm'
      PROVE  HandlerRows(a)'
  <2>1. HandlerRows(a)
    BY DEF RowsInv
  <2>2. ap[a].pc # "swarmrow"
    <3>1. ap[a].pc = "swarmrow" => ap[a].swarm = 1
      BY DEF TypeInv, HandlerOK
    <3>2. QED
      BY <1>2, <1>4, <2>1, <3>1, RegisteredRow DEF Member
  <2>3. QED
    BY <1>1, <1>2, <1>4, <2>1, <2>2 DEF HandlerRows, Member, RegisteredAt
<1>5. \A a \in APs : HandlerRows(a)'
  BY <1>1, <1>4 DEF HandlerRows
<1>6. QED
  BY <1>1, <1>3, <1>5, IdleTasks DEF RowsInv

\* RowsInv is inductive.
LEMMA RowsInvStep == TypeInv /\ Alone /\ RowsInv /\ [Next]_vars => RowsInv'
<1> SUFFICES ASSUME TypeInv, Alone, RowsInv, [Next]_vars
             PROVE  RowsInv'
  OBVIOUS
<1>0. TypeOK
  BY DEF TypeInv
<1>1. ASSUME UNCHANGED <<ap, tables, co, disturbed>>
      PROVE  RowsInv'
  BY <1>1 DEF RowsInv, Agree, Calm, HalfWritten, RowsAgree, Member, Works, HandlerRows,
              RegisteredAt, TasksInv, TaskRow, UniqueHostIds, tables
<1>2. CASE Environment
  <2>1. ASSUME NEW S \in SUBSET Nodes, AcceptRequest("njl", S) \/ AcceptRequest("nll", S)
        PROVE  RowsInv'
    BY <2>1, AcceptRows
  <2>2. ASSUME NEW a \in APs, RestartAPManager(a)
        PROVE  RowsInv'
    <3>1. /\ ap'[a].node = None /\ OthersKept(a) /\ co' = co /\ UNCHANGED tables
          /\ disturbed' = disturbed \cup CutShort(a, {"swarmrow", "delswarm"})
      BY <1>0, <2>2 DEF RestartAPManager, Finish, IdleHandler, TypeOK, OthersKept
    <3>2. HandlerRows(a)'
      BY <3>1, ConstantsOK DEF HandlerRows, Calm
    <3>3. ap[a].pc \notin {"swarmrow", "delswarm"} \/ ap[a].node \notin Calm'
      BY <3>1 DEF CutShort, Works, Calm
    <3>4. QED
      BY <3>1, <3>2, <3>3, APKeepsRows
  <2>3. CASE RestartCoordinator
    BY <2>3, RestartRows
  <2>4. ASSUME NEW a \in APs, APQueryFails(a)
        PROVE  RowsInv'
    BY <2>4, APQueryFailsRows
  <2>5. CASE CoQueryFails
    BY <2>5, CoQueryFailsRows
  <2>6. CASE \E n \in Nodes : (\E a \in APs : Associate(n, a)) \/ Disassociate(n)
                              \/ SpuriousDetection(n)
    BY <1>1, <2>6, RadioKeeps
  <2>7. QED
    BY <1>2, <2>1, <2>2, <2>3, <2>4, <2>5, <2>6 DEF Environment
<1>3. QED
  BY <1>1, <1>2, APStepRows, CoordinatorRows, NodeStepRows DEF Next, vars

-------------------------------------------------------------------------------
(* The ports in the ART.                                                   *)

\* The row of a calm node names its tunnel.
PortOK(n) ==
    art[n] # None => art[n].port \in Ports /\ tunnel[art[n].ap][n] = art[n].port
PortInv == \A n \in Calm : PortOK(n)

\* The step changes no row, or tunnel, of a registered calm node.
LEMMA PortsKept ==
    ASSUME PortInv,
           \A n \in Calm' : art'[n] # None /\ ~PortOK(n)' =>
              /\ n \in Calm /\ art'[n] = art[n]
              /\ tunnel'[art[n].ap][n] = tunnel[art[n].ap][n]
    PROVE  PortInv'
  BY DEF PortInv, PortOK

\* The tunnel of a lost station goes after its row.
LEMMA DeleteTunnelPorts ==
    ASSUME TypeInv, TunnelInv, RowsInv, PortInv, NEW a \in APs, DeleteTunnel(a),
           art' = art, \A n \in Calm' : art[n] # None => n \in Calm
    PROVE  PortInv'
<1>1. /\ ap[a].pc = "delswarm" /\ ap[a].node \in Nodes
      /\ \A n \in Nodes : tunnel'[a][n] = IF tunnel[a][n] = ap[a].port THEN 0
                                          ELSE tunnel[a][n]
      /\ \A b \in APs \ {a} : tunnel'[b] = tunnel[b]
  BY DeleteTunnelMoves
<1>2. ap[a].port \in Ports /\ tunnel[a][ap[a].node] = ap[a].port
  BY <1>1 DEF TunnelInv, TunnelOK, TunnelPhase, DelPhase
<1>3. ap[a].node \in Calm => art[ap[a].node] = None
  BY <1>1 DEF RowsInv, HandlerRows
<1>4. ASSUME NEW n \in Calm, art[n] # None
      PROVE  tunnel'[art[n].ap][n] = tunnel[art[n].ap][n]
  <2>1. n \in Nodes /\ art[n].ap \in APs
    BY <1>4 DEF Calm, TypeInv, TypeOK, ArtRow
  <2>2. CASE art[n].ap # a
    BY <1>1, <2>1, <2>2
  <2>3. CASE art[n].ap = a
    <3>1. n # ap[a].node
      BY <1>3, <1>4
    <3>2. tunnel[a][n] # ap[a].port
      <4>1. ap[a].port # 0
        BY <1>2, ConstantsOK DEF Ports
      <4>2. QED
        BY <1>1, <1>2, <2>1, <3>1, <4>1 DEF TunnelInv, TunnelOK
    <3>3. QED
      BY <1>1, <2>1, <2>3, <3>2
  <2>4. QED
    BY <2>2, <2>3
<1>5. QED
  BY <1>4, PortsKept

\* The steps of an AP manager that read or write rows.
LEMMA RowStepPorts ==
    ASSUME TypeInv, TunnelInv, RowsInv, PortInv, NEW a \in APs, RowSteps(a)
    PROVE  PortInv'
<1>0. TypeOK
  BY DEF TypeInv
<1>1. Calm' = Calm
  BY RowStepsMove DEF Calm
<1>n. PICK n \in Nodes : n = ap[a].node
  BY RowStepsMove
<1>2. CASE ReadArt(a)
  <2>1. PICK p \in TunnelIds(a, n) : tunnel' = [tunnel EXCEPT ![a][n] = p]
    BY <1>n, <1>2, ReadArtMoves
  <2>2. art' = art
    BY <1>2 DEF ReadArt, tables
  <2>3. tunnel[a][n] # 0 => p = tunnel[a][n]
    BY <2>1 DEF TunnelIds
  <2>4. ASSUME NEW m \in Calm, art[m] # None
        PROVE  tunnel'[art[m].ap][m] = tunnel[art[m].ap][m]
    <3>1. m \in Nodes /\ art[m].ap \in APs /\ tunnel[art[m].ap][m] # 0
      BY <1>0, <2>4, ConstantsOK DEF Calm, TypeOK, ArtRow, PortInv, PortOK, Ports
    <3>2. QED
      BY <1>0, <2>1, <2>3, <3>1 DEF TypeOK
  <2>5. QED
    BY <1>1, <2>2, <2>4, PortsKept DEF Calm
<1>3. CASE RegisterInArt(a)
  <2>1. ap[a].pc = "acked" /\ EnterStation(a)
    BY <1>3, EnterStationMoves DEF RegisterInArt
  <2>2. PICK row : row = [ap |-> a, swarm |-> ap[a].swarm, vip |-> ap[a].vip,
                          port |-> ap[a].port]
    OBVIOUS
  <2>3. art' = [art EXCEPT ![n] = row] /\ tunnel' = tunnel
    BY <1>n, <1>3, <2>2 DEF RegisterInArt
  <2>4. art'[n] = row /\ \A m \in Nodes \ {n} : art'[m] = art[m]
    BY <1>0, <2>3 DEF TypeOK
  <2>5. row.ap = a /\ row.port = ap[a].port
    BY <2>2
  <2>6. ap[a].port \in Ports /\ tunnel[a][n] = ap[a].port
    BY <1>n, <2>1 DEF TunnelInv, TunnelOK, TunnelPhase
  <2>7. PortOK(n)'
    BY <2>3, <2>4, <2>5, <2>6 DEF PortOK
  <2>8. QED
    BY <1>1, <2>3, <2>4, <2>7, PortsKept DEF Calm
<1>4. CASE DeleteFromArt(a)
  <2>1. art' = [art EXCEPT ![n] = None] /\ tunnel' = tunnel
    BY <1>n, <1>4 DEF DeleteFromArt, apLocals
  <2>2. art'[n] = None /\ \A m \in Nodes \ {n} : art'[m] = art[m]
    BY <1>0, <2>1 DEF TypeOK
  <2>3. QED
    BY <1>1, <2>1, <2>2, PortsKept DEF Calm
<1>5. CASE GetHostId(a) \/ RegisterInSwarm(a) \/ RemoveStation(a)
  <2>1. art' = art /\ tunnel' = tunnel
    BY <1>5 DEF GetHostId, RegisterInSwarm, RemoveStation, tables, apLocals
  <2>2. QED
    BY <1>1, <2>1, PortsKept
<1>6. QED
  BY <1>2, <1>3, <1>4, <1>5 DEF RowSteps

\* The coordinator's UPDATE of a calm node's row keeps its AP and its port.
LEMMA UpdatePort ==
    ASSUME TypeInv, RowsInv, PortInv, UpdateArt
    PROVE  PortInv'
<1>1. /\ co.pc = "artrow" /\ co.todo # <<>> /\ Head(co.todo) = co.todo[1]
      /\ 1 \in DOMAIN co.todo /\ Head(co.todo).node \in Nodes
  BY CoSteps DEF UpdateArt, CoPCs, SwitchPC
<1>2. PICK t, n : t = co.todo[1] /\ n = t.node
  OBVIOUS
<1>3. PICK row : row = [ap |-> t.ap, swarm |-> 1, vip |-> t.hid,
                        port |-> IF art[n] = None THEN 0 ELSE art[n].port]
  OBVIOUS
<1>4. /\ art' = [art EXCEPT ![n] = row] /\ tunnel' = tunnel /\ disturbed' = disturbed
  BY <1>1, <1>2, <1>3 DEF UpdateArt, apLocals
<1>5. art'[n] = row /\ \A m \in Nodes \ {n} : art'[m] = art[m]
  BY <1>1, <1>2, <1>4 DEF TypeInv, TypeOK
<1>6. TaskRow(1)
  BY <1>1 DEF RowsInv, TasksInv
<1>7. n \in Calm => art[n] # None /\ art[n].ap = t.ap
  BY <1>2, <1>6 DEF TaskRow
<1>8. row.ap = t.ap /\ (art[n] # None => row.port = art[n].port)
  BY <1>3
<1>9. n \in Calm => PortOK(n)'
  BY <1>4, <1>5, <1>7, <1>8 DEF PortInv, PortOK
<1>10. QED
  BY <1>4, <1>5, <1>9, PortsKept DEF Calm

\* PortInv is inductive.
LEMMA PortInvStep ==
    TypeInv /\ TunnelInv /\ RowsInv /\ PortInv /\ [Next]_vars => PortInv'
<1> SUFFICES ASSUME TypeInv, TunnelInv, RowsInv, PortInv, [Next]_vars
             PROVE  PortInv'
  OBVIOUS
<1>a. CASE \E a \in APs : DeleteFromSwarm(a)
  <2>1. PICK a \in APs : DeleteFromSwarm(a)
    BY <1>a
  <2>2. \A n \in Calm' : art[n] # None => n \in Calm
    BY <2>1, DeleteFromSwarmMoves
  <2>3. QED
    BY <2>1, <2>2, DeleteTunnelPorts DEF DeleteFromSwarm
<1>b. SUFFICES ASSUME ~ \E a \in APs : DeleteFromSwarm(a)
               PROVE  PortInv'
  BY <1>a
<1>0. Calm' \subseteq Calm /\ TypeOK
  BY <1>b, DisturbedGrows DEF TypeInv, Calm
<1>1. ASSUME UNCHANGED <<tables, tunnel>>
      PROVE  PortInv'
  BY <1>0, <1>1, PortsKept DEF tables
<1>2. ASSUME NEW a \in APs, APStep(a)
      PROVE  PortInv'
  BY <1>1, <1>2, <1>b, APStepKinds, StartsAlone, AdvancesMove, EndsFinish, DiesMoves,
     RowStepPorts, <1>0 DEF NoRowChanges
<1>3. CASE CoordinatorStep
  <2>1. CASE InsertSwarmRow
    BY <1>0, <2>1, PortsKept DEF InsertSwarmRow, apLocals
  <2>2. CASE UpdateArt
    BY <2>2, UpdatePort
  <2>3. CASE ~InsertSwarmRow /\ ~UpdateArt
    BY <1>1, <1>3, <2>3
       DEF CoordinatorStep, AssignHostIds, TooFewHostIds, SendJoinConfig, SendGoAway,
           TaskFails, CoDumpPorts, CoUpdatePorts, CoReplicateEntries, Answer,
           CloseUnanswered, apLocals
  <2>4. QED
    BY <2>1, <2>2, <2>3
<1>4. ASSUME NEW n \in Nodes, NodeStep(n)
      PROVE  PortInv'
  BY <1>1, <1>4 DEF NodeStep, HandleMessage, LeaveNetwork, ReturnToNetwork, apLocals
<1>5. CASE Environment
  <2>1. ASSUME NEW a \in APs, APQueryFails(a)
        PROVE  PortInv'
    <3>1. art' = art
      BY <2>1, APQueryFailsMoves DEF tables
    <3>2. CASE DeleteFromSwarmFails(a)
      BY <1>0, <3>1, <3>2, DeleteTunnelPorts DEF DeleteFromSwarmFails
    <3>3. CASE ~DeleteFromSwarmFails(a)
      <4>1. UNCHANGED <<tables, tunnel>>
        BY <2>1, <3>3 DEF APQueryFails, NewStationReadFails, LostStationReadFails,
                          RegisterInArtFails, RegisterInSwarmFails, DeleteFromArtFails
      <4>2. QED
        BY <1>1, <4>1
    <3>4. QED
      BY <3>2, <3>3
  <2>2. CASE RestartCoordinator
    BY <1>0, <2>2, PortsKept DEF RestartCoordinator, apLocals
  <2>3. CASE CoQueryFails
    BY <1>1, <2>3, CoQueryFailsMoves
  <2>4. ASSUME NEW S \in SUBSET Nodes, AcceptRequest("njl", S) \/ AcceptRequest("nll", S)
        PROVE  PortInv'
    BY <1>1, <2>4 DEF AcceptRequest, apLocals
  <2>5. ASSUME NEW a \in APs, RestartAPManager(a)
        PROVE  PortInv'
    BY <1>1, <2>5 DEF RestartAPManager
  <2>6. CASE \E n \in Nodes : (\E a \in APs : Associate(n, a)) \/ Disassociate(n)
                              \/ SpuriousDetection(n)
    BY <1>1, <2>6, RadioKeeps
  <2>7. QED
    BY <1>5, <2>1, <2>2, <2>3, <2>4, <2>5, <2>6 DEF Environment
<1>6. CASE UNCHANGED vars
  BY <1>1, <1>6 DEF vars, apLocals
<1>7. QED
  BY <1>2, <1>3, <1>4, <1>5, <1>6 DEF Next

-------------------------------------------------------------------------------
(* The theorems.                                                           *)

Consistent == TypeInv /\ Alone /\ TunnelInv /\ RowsInv /\ PortInv

\* The tables and the tunnels are consistent about every calm node, at each
\* step of each handler.
THEOREM ConsistentAlways == Spec => []Consistent
<1>1. Init => Consistent
  BY InitTypeInv, InitRowsInv DEF Consistent, PortInv, PortOK, Init, Calm
<1>2. Consistent /\ [Next]_vars => Consistent'
  BY TypeInvStep, AloneStep, TunnelInvStep, RowsInvStep, PortInvStep DEF Consistent
<1>3. QED
  BY <1>1, <1>2, PTL DEF Spec

\* The coordinator is at work on the node of the first task.
LEMMA CoWorksOn ==
    ASSUME Consistent, co.pc \in {"swarmrow", "artrow"} \cup SwitchPC
    PROVE  /\ co.todo # <<>> /\ Head(co.todo) = co.todo[1] /\ 1 \in DOMAIN co.todo
           /\ co.todo[1] \in Task /\ co.todo[1].node \in Nodes
           /\ co.kind = "njl" /\ TaskRow(1) /\ Joining(co.todo[1].node)
<1>1. co.todo # <<>> /\ co.todo \in Seq(Task)
  BY DEF Consistent, TypeInv, TypeOK, TasksOK, Coordinator, SwitchPC
<1>2. Head(co.todo) = co.todo[1] /\ 1 \in DOMAIN co.todo /\ co.todo[1] \in Task
  BY <1>1, TailTasks
<1>3. co.kind = "njl" /\ TaskRow(1)
  BY <1>2 DEF Consistent, RowsInv, TasksInv
<1>4. QED
  BY <1>1, <1>2, <1>3 DEF Joining, Task

\* A calm member's address is the one of its host id.
LEMMA MemberAddress ==
    ASSUME Consistent, NEW n \in Calm, Member(n)
    PROVE  swarmTable[n] # None /\ swarmTable[n].hid = art[n].vip
<1>1. CASE RowsAgree(n)
  BY <1>1 DEF RowsAgree
<1>2. ASSUME NEW a \in APs, Works(a, n), ap[a].pc \in {"swarmrow", "delswarm"}
      PROVE  swarmTable[n] # None /\ swarmTable[n].hid = art[n].vip
  <2>1. HandlerRows(a) /\ ap[a].node = n
    BY <1>2 DEF Works, Consistent, RowsInv
  <2>2. ap[a].pc = "swarmrow"
    BY <1>2, <2>1 DEF HandlerRows, Member
  <2>3. /\ art[n] = [ap |-> a, swarm |-> ap[a].swarm, vip |-> ap[a].vip,
                     port |-> ap[a].port]
        /\ swarmTable[n] # None /\ swarmTable[n].hid = ap[a].vip
    BY <2>1, <2>2 DEF HandlerRows
  <2>4. QED
    BY <2>3
<1>3. CASE co.pc = "artrow" /\ Head(co.todo).node = n
  <2>1. TaskRow(1) /\ Head(co.todo) = co.todo[1]
    BY <1>3, CoWorksOn
  <2>2. QED
    BY <1>3, <2>1 DEF TaskRow, SwitchPC, Member
<1>4. HalfWritten(n) \/ RowsAgree(n)
  BY DEF Consistent, RowsInv, Agree
<1>5. QED
  BY <1>1, <1>2, <1>3, <1>4 DEF HalfWritten

\* No two calm nodes hold the same host id, whatever the order in which the
\* coordinator's batches and the AP managers read and write Swarm_Table.
THEOREM HostIdsStayUnique == Spec => []UniqueHostIds
<1>1. Consistent => UniqueHostIds
  BY DEF Consistent, RowsInv
<1>2. QED
  BY <1>1, ConsistentAlways, PTL

\* Between handlers the two tables tell the same story of a calm node.
THEOREM TablesStayInAgreement == Spec => []TablesAgree
<1>1. Consistent => TablesAgree
  <2> SUFFICES ASSUME Consistent, NEW n \in Calm, ~Contended(n)
               PROVE  RowsAgree(n)
    BY DEF TablesAgree, RowsAgree, Calm
  <2>1. HalfWritten(n) \/ RowsAgree(n)
    BY DEF Consistent, RowsInv, Agree
  <2>2. ~HalfWritten(n)
    <3>1. ~ \E a \in APs : Works(a, n)
      BY DEF Contended
    <3>2. ~(co.pc = "artrow" /\ Head(co.todo).node = n)
      BY CoWorksOn DEF Contended
    <3>3. QED
      BY <3>1, <3>2 DEF HalfWritten
  <2>3. QED
    BY <2>1, <2>2
<1>2. QED
  BY <1>1, ConsistentAlways, PTL

\* The port in a calm node's row is its own tunnel's and no other node's.
THEOREM ArtPortsAreTunnels == Spec => []ArtPortIsTheTunnels
<1>1. Consistent => ArtPortIsTheTunnels
  <2> SUFFICES ASSUME Consistent, NEW n \in Calm, art[n] # None
               PROVE  /\ tunnel[art[n].ap][n] = art[n].port
                      /\ \A m \in Nodes \ {n} : tunnel[art[n].ap][m] # art[n].port
    BY DEF ArtPortIsTheTunnels, Calm
  <2>1. art[n].port \in Ports /\ tunnel[art[n].ap][n] = art[n].port
    BY DEF Consistent, PortInv, PortOK
  <2>2. art[n].ap \in APs /\ n \in Nodes
    BY DEF Consistent, TypeInv, TypeOK, ArtRow, Calm
  <2>3. art[n].port # 0
    BY <2>1, ConstantsOK DEF Ports
  <2>4. TunnelOK(art[n].ap)
    BY <2>2 DEF Consistent, TunnelInv
  <2>5. QED
    BY <2>1, <2>2, <2>3, <2>4 DEF TunnelOK
<1>2. QED
  BY <1>1, ConsistentAlways, PTL

\* The answer to a join lists members only, with the rows of both tables.
THEOREM AnswersListMembers == Spec => AnsweredAreMembers
<1> DEFINE Listed == \A n \in co.avail \ disturbed :
              Answer /\ co.kind = "njl" => /\ Member(n)
                                           /\ swarmTable[n] # None
                                           /\ swarmTable[n].hid = art[n].vip
<1>1. Consistent => Listed
  <2> SUFFICES ASSUME Consistent, NEW n \in co.avail \ disturbed, Answer, co.kind = "njl"
               PROVE  /\ Member(n)
                      /\ swarmTable[n] # None
                      /\ swarmTable[n].hid = art[n].vip
    OBVIOUS
  <2>1. co.pc = "task"
    BY DEF Answer
  <2>2. n \in Calm
    BY DEF Consistent, TypeInv, TypeOK, Coordinator, Calm
  <2>3. Member(n)
    BY <2>1, <2>2 DEF Consistent, RowsInv, TasksInv
  <2>4. \A a \in APs : ~Works(a, n)
    BY <2>2 DEF Consistent, Alone, Joining
  <2>5. RowsAgree(n)
    BY <2>1, <2>2, <2>4 DEF Consistent, RowsInv, Agree, HalfWritten
  <2>6. QED
    BY <2>3, <2>5 DEF RowsAgree
<1>2. QED
  BY <1>1, ConsistentAlways, PTL DEF AnsweredAreMembers
===============================================================================

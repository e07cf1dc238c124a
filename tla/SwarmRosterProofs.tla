--------------------------- MODULE SwarmRosterProofs ---------------------------
(***************************************************************************)
(* SwarmMembership implements SwarmRoster, for every set of nodes and APs, *)
(* every range and every bound: the tables, handlers and messages together *)
(* behave as one list of the nodes.                                        *)
(*                                                                         *)
(* Four steps of the programs are steps of the list: the coordinator's     *)
(* sending of an address (Join), an AP manager's write of the ART row of a *)
(* new station (Register, Roam), its deletion of that row, and the last    *)
(* step of a handler that heals the node (Remove).  In every other step a  *)
(* node that is not lost afterwards keeps its entry (LosesOnly): what has  *)
(* to be shown is that the rows a handler writes are those of the entry,   *)
(* although it read them long before.                                      *)
(***************************************************************************)
EXTENDS SwarmConsistencyProofs

\* The list that the programs keep.
Standings == [n \in Nodes |-> Standing(n)]

LEMMA StandingsNow ==
    /\ \A n \in Nodes : Standings[n] = Standing(n)
    /\ DOMAIN Standings = Nodes
  BY DEF Standings

\* A step that changes the entry of one node.
LEMMA OneEntry ==
    ASSUME NEW n \in Nodes, NEW e, Standing(n)' = e,
           \A m \in Nodes \ {n} : Standing(m)' = Standing(m)
    PROVE  Standings' = [Standings EXCEPT ![n] = e]
  BY DEF Standings

\* A step after which every node has its entry or is lost.
LEMMA LosesOnly ==
    ASSUME \A n \in Nodes \ disturbed' : Standing(n)' = Standing(n),
           disturbed' \subseteq Nodes
    PROVE  Roster!Next
<1>1. \A n \in disturbed' : Standing(n)' = Roster!Lost
  BY DEF Standing, Roster!Lost
<1>2. Standings' = [n \in Nodes |-> IF n \in disturbed' THEN Roster!Lost ELSE Standings[n]]
  BY <1>1 DEF Standings
<1>3. Roster!Lose(disturbed')
  BY <1>2 DEF Roster!Lose, Standings
<1>4. QED
  BY <1>3 DEF Roster!Next

\* The entry depends on the row, on what the coordinator has sent, and on
\* whether the node is lost.
LEMMA EntryKept ==
    ASSUME NEW n \in Nodes, art'[n] = art[n], n \in disturbed' <=> n \in disturbed,
           Told(n)' <=> Told(n), Told(n) => Head(co'.todo).hid = Head(co.todo).hid
    PROVE  Standing(n)' = Standing(n)
  BY DEF Standing, Member

\* So a step that changes neither of the first two only loses nodes.
LEMMA RowsKept ==
    ASSUME art' = art, co' = co, disturbed \subseteq disturbed', disturbed' \subseteq Nodes
    PROVE  Roster!Next
  BY EntryKept, LosesOnly DEF Told

-------------------------------------------------------------------------------
(* The AP managers.                                                        *)

\* While a handler works on a calm node, nothing is on its way to it from the
\* coordinator.
LEMMA NotTold ==
    ASSUME Consistent, NEW a \in APs, NEW n \in Calm, Works(a, n)
    PROVE  ~Told(n)
<1> SUFFICES ASSUME Told(n)
             PROVE  FALSE
  OBVIOUS
<1>1. Joining(n)
  BY CoWorksOn DEF Told
<1>2. QED
  BY <1>1 DEF Consistent, Alone

\* The write of the row: the node registers, or roams to this AP with the
\* address it had.
LEMMA RegisterEntry ==
    ASSUME Consistent, NEW a \in APs, RegisterInArt(a), TypeInv'
    PROVE  Roster!Next
<1> DEFINE h == ap[a]
<1>0. TypeInv /\ TypeOK /\ HandlerRows(a) /\ HandlerOK(a)
  BY DEF Consistent, TypeInv, RowsInv
<1>1. EnterStation(a) /\ co' = co /\ disturbed' = disturbed
  BY DEF RegisterInArt
<1>n. PICK n \in Nodes : n = h.node
  BY <1>0, <1>1, EnterStationMoves
<1>2. h.pc = "acked" /\ h.swarm \in {0, 1}
  BY <1>0, <1>1, EnterStationMoves
<1>3. /\ art'[n] = [ap |-> a, swarm |-> h.swarm, vip |-> h.vip, port |-> h.port]
      /\ \A m \in Nodes \ {n} : art'[m] = art[m]
  BY <1>0, <1>n DEF RegisterInArt, TypeOK
<1>4. art'[n] # None
  <2>1. h \in Handler /\ h.vip \in Vips /\ h.port \in PortOrNull
    BY <1>0, <1>2 DEF TypeOK, HandlerOK, Handler, Vips, Ports, PortOrNull
  <2>2. [ap |-> a, swarm |-> h.swarm, vip |-> h.vip, port |-> h.port] \in ArtRow
    BY <1>2, <2>1 DEF ArtRow
  <2>3. QED
    BY <1>3, <2>2, ConstantsOK
<1> HIDE DEF h
<1>5. \A m \in Nodes \ {n} : Standing(m)' = Standing(m)
  BY <1>1, <1>3, EntryKept DEF Told
<1>6. CASE n \in disturbed
  <2>1. Standing(n)' = Standing(n)
    BY <1>1, <1>6 DEF Standing
  <2>2. QED
    BY <1>0, <1>1, <1>5, <2>1, LosesOnly DEF TypeOK
<1>7. CASE n \notin disturbed
  <2>1. ~Told(n) /\ ~Told(n)'
    <3>1. n \in Calm /\ Works(a, n)
      BY <1>n, <1>7 DEF Calm, Works, h
    <3>2. ~Told(n)
      BY <3>1, NotTold
    <3>3. QED
      BY <1>1, <3>2 DEF Told
  <2>2. /\ h.swarm = 1 <=> Member(n)
        /\ h.vip = IF h.swarm = 1 THEN art[n].vip ELSE n
    BY <1>0, <1>n, <1>2, <1>7 DEF HandlerRows, Calm, h
  <2>3. Standing(n) = IF art[n] = None THEN Roster!Out
                      ELSE IF h.swarm = 1 THEN Roster!MemberAt(h.vip, art[n].ap)
                      ELSE Roster!HoldingAt(art[n].ap)
    BY <1>7, <2>1, <2>2 DEF Standing, Roster!Out, Roster!MemberAt, Roster!HoldingAt
  <2>4. Standing(n)' = IF h.swarm = 1 THEN Roster!MemberAt(h.vip, a)
                       ELSE Roster!HoldingAt(a)
    BY <1>1, <1>3, <1>4, <1>7, <2>1
       DEF Standing, Member, Roster!MemberAt, Roster!HoldingAt
  <2>5. Standings' = [Standings EXCEPT ![n] = Standing(n)']
    BY <1>2, <1>5, OneEntry
  <2>6. art[n] # None => art[n].ap \in APs
    BY <1>0, <1>2 DEF TypeOK, ArtRow
  <2>7. CASE art[n] = None
    <3>1. h.swarm # 1
      BY <2>2, <2>7 DEF Member
    <3>2. Roster!Register(n, a)
      BY <1>2, <2>3, <2>4, <2>5, <2>7, <3>1, StandingsNow
         DEF Roster!Register, Standings
    <3>3. QED
      BY <1>2, <3>2 DEF Roster!Next
  <2>8. CASE art[n] # None
    <3>1. Roster!Roam(n, a)
      <4>1. CASE h.swarm = 1
        <5>1. h.vip \in HostIds
          BY <1>0, <1>2, <4>1 DEF HandlerOK, h
        <5>2. Roster!HasId(n, h.vip)
          BY <1>2, <2>3, <2>6, <2>8, <4>1, StandingsNow DEF Roster!HasId, Standings
        <5>3. QED
          BY <2>4, <2>5, <4>1, <5>1, <5>2 DEF Roster!Roam, Standings
      <4>2. CASE h.swarm # 1
        BY <1>2, <2>3, <2>4, <2>5, <2>6, <2>8, <4>2, StandingsNow
           DEF Roster!Roam, Standings
      <4>3. QED
        BY <4>1, <4>2
    <3>2. QED
      BY <1>2, <3>1 DEF Roster!Next
  <2>9. QED
    BY <2>7, <2>8
<1>8. QED
  BY <1>6, <1>7

\* A node that is out of the ART and not lost is out of the list.
LEMMA RemovesEntry ==
    ASSUME NEW n \in Nodes, art'[n] = None, n \notin disturbed',
           \A m \in Nodes \ {n} : Standing(m)' = Standing(m)
    PROVE  Roster!Next
<1>1. Standing(n)' = Roster!Out
  BY DEF Standing, Roster!Out
<1>2. Roster!Remove(n)
  BY <1>1, OneEntry DEF Roster!Remove, Standings
<1>3. QED
  BY <1>2 DEF Roster!Next

\* The deletion of the ART row.
LEMMA DeleteEntry ==
    ASSUME Consistent, NEW a \in APs, DeleteFromArt(a)
    PROVE  Roster!Next
<1>0. TypeInv /\ TypeOK
  BY DEF Consistent, TypeInv
<1>n. PICK n \in Nodes : n = ap[a].node
  BY <1>0, RowWritesMove
<1>1. UNCHANGED <<co, disturbed>>
  BY <1>0, RowWritesMove
<1>2. art'[n] = None /\ \A m \in Nodes \ {n} : art'[m] = art[m]
  BY <1>0, <1>n DEF DeleteFromArt, TypeOK
<1>3. \A m \in Nodes \ {n} : Standing(m)' = Standing(m)
  BY <1>1, <1>2, EntryKept DEF Told
<1>4. CASE n \in disturbed
  <2>1. Standing(n)' = Standing(n)
    BY <1>1, <1>4 DEF Standing
  <2>2. QED
    BY <1>0, <1>1, <1>3, <2>1, LosesOnly DEF TypeOK
<1>5. CASE n \notin disturbed
  BY <1>1, <1>2, <1>3, <1>5, RemovesEntry
<1>6. QED
  BY <1>4, <1>5

\* The last step of a lost station's handler takes a lost node that it has
\* healed off the list.
LEMMA HealsEntry ==
    ASSUME Consistent, NEW a \in APs, DeleteFromSwarm(a)
    PROVE  Roster!Next
<1>0. TypeInv /\ TypeOK
  BY DEF Consistent, TypeInv
<1>n. PICK n \in Nodes : n = ap[a].node
  BY <1>0, DeleteFromSwarmMoves
<1>1. /\ UNCHANGED <<art, co>> /\ Calm \subseteq Calm'
      /\ \A m \in Calm' \ Calm : m = n /\ art[m] = None
  BY <1>0, <1>n, DeleteFromSwarmMoves
<1>2. disturbed' \subseteq disturbed /\ disturbed' \subseteq Nodes
  BY <1>0 DEF DeleteFromSwarm, TypeOK
<1>3. \A m \in Nodes : m \notin Calm' \ Calm => Standing(m)' = Standing(m)
  BY <1>1, EntryKept DEF Told, Calm
<1>4. CASE Calm' \subseteq Calm
  BY <1>2, <1>3, <1>4, LosesOnly
<1>5. CASE ~(Calm' \subseteq Calm)
  <2>1. n \in Calm' \ Calm
    BY <1>1, <1>5
  <2>2. art'[n] = None /\ n \notin disturbed'
    BY <1>1, <2>1 DEF Calm
  <2>3. QED
    BY <1>1, <1>3, <2>2, RemovesEntry
<1>6. QED
  BY <1>4, <1>5

\* Every other step of an AP manager leaves the rows of the ART alone.
LEMMA APStepEntry ==
    ASSUME Consistent, NEW a \in APs, APStep(a), TypeInv'
    PROVE  Roster!Next
<1>0. TypeInv /\ TypeOK /\ disturbed' \subseteq Nodes
  BY DEF Consistent, TypeInv, TypeOK
<1>1. CASE UNCHANGED <<ap, tables, connected, tunnel, co, disturbed, restarts, lpm>>
  BY <1>0, <1>1, RowsKept DEF tables
<1>2. CASE NewStation(a) \/ LostStation(a)
  BY <1>0, <1>2, StartsAlone, RowsKept DEF tables
<1>3. CASE Advances(a)
  BY <1>0, <1>3, AdvancesMove, RowsKept DEF NoRowChanges, tables
<1>4. CASE Ends(a)
  BY <1>0, <1>4, EndsFinish, RowsKept DEF NoRowChanges, tables
<1>5. CASE APManagerDies(a)
  BY <1>0, <1>5, DiesMoves, RowsKept DEF tables
<1>6. CASE ReadArt(a)
  BY <1>0, <1>6, ReadArtMoves, RowsKept DEF tables
<1>7. CASE GetHostId(a)
  BY <1>0, <1>7, GetHostIdMoves, RowsKept DEF tables
<1>8. CASE RegisterInSwarm(a) \/ RemoveStation(a)
  BY <1>0, <1>8, RowsKept DEF RegisterInSwarm, RemoveStation, tables
<1>9. CASE RegisterInArt(a)
  BY <1>9, RegisterEntry
<1>10. CASE DeleteFromArt(a)
  BY <1>10, DeleteEntry
<1>11. CASE DeleteFromSwarm(a)
  BY <1>11, HealsEntry
<1>12. QED
  BY <1>1, <1>2, <1>3, <1>4, <1>5, <1>6, <1>7, <1>8, <1>9, <1>10, <1>11, APStepKinds
     DEF RowSteps

-------------------------------------------------------------------------------
(* The coordinator.                                                        *)

\* The sending of the address: the host id was free when the batch was read,
\* and neither a table nor a node that was told its address has it now.
LEMMA JoinEntry ==
    ASSUME Consistent, SendJoinConfig, disturbed' \subseteq Nodes
    PROVE  Roster!Next
<1> DEFINE t == Head(co.todo)
<1>0. TypeInv /\ TypeOK /\ TasksOK /\ co \in Coordinator
  BY DEF Consistent, TypeInv, TypeOK
<1>1. /\ co.pc = "task" /\ co.kind = "njl" /\ co.todo # <<>> /\ co.todo \in Seq(Task)
      /\ co'.pc = "swarmrow" /\ co'.todo = co.todo
      /\ UNCHANGED <<art, disturbed>>
  BY <1>0, CoSends DEF SendJoinConfig, tables, NoHandlerChanges
<1>2. t = co.todo[1] /\ 1 \in DOMAIN co.todo /\ t \in Task
  BY <1>1, TailTasks
<1>3. t.hid \in HostIds /\ TaskRow(1)
  BY <1>0, <1>1, <1>2 DEF TasksOK, Consistent, RowsInv, TasksInv
<1>n. PICK n \in Nodes : n = t.node
  BY <1>2 DEF Task
<1>i. PICK i \in HostIds : i = t.hid
  BY <1>3
<1>4. /\ \A m \in Nodes : ~Told(m)
      /\ \A m \in Nodes : Told(m)' <=> m = n
      /\ Head(co'.todo).hid = i
  BY <1>1, <1>n, <1>i DEF Told
<1>5. \A m \in Nodes \ {n} : Standing(m)' = Standing(m)
  BY <1>1, <1>4, EntryKept
<1>6. CASE n \in disturbed
  <2>1. Standing(n)' = Standing(n)
    BY <1>1, <1>6 DEF Standing
  <2>2. QED
    BY <1>1, <1>5, <2>1, LosesOnly
<1>7. CASE n \notin disturbed
  <2>1. art[n] # None /\ art[n].swarm = 0 /\ art[n].ap \in APs
    <3>1. art[n] # None /\ art[n].swarm = 0
      BY <1>1, <1>2, <1>3, <1>n, <1>7 DEF TaskRow, Calm, SwitchPC
    <3>2. QED
      BY <1>0, <3>1 DEF TypeOK, ArtRow
  <2>2. ~Member(n)
    BY <2>1 DEF Member
  <2>3. Standing(n) = Roster!HoldingAt(art[n].ap)
    BY <1>4, <1>7, <2>1, <2>2 DEF Standing, Roster!HoldingAt
  <2>4. Standing(n)' = Roster!MemberAt(i, art[n].ap)
    BY <1>1, <1>4, <1>7, <2>1 DEF Standing, Roster!MemberAt
  <2>5. ASSUME NEW m \in Nodes, Roster!HasId(m, i)
        PROVE  FALSE
    <3>1. PICK a \in APs : Standing(m) = Roster!MemberAt(i, a)
      BY <2>5 DEF Roster!HasId
    <3>2. m \in Calm /\ Member(m) /\ art[m].vip = i
      BY <1>4, <3>1 DEF Standing, Calm, Roster!MemberAt
    <3>3. swarmTable[m] # None /\ swarmTable[m].hid = i
      BY <3>2, MemberAddress
    <3>4. m # n
      BY <2>2, <3>2
    <3>5. QED
      BY <1>1, <1>2, <1>3, <1>n, <1>i, <3>2, <3>3, <3>4 DEF TaskRow
  <2>6. Standings' = [Standings EXCEPT ![n] = Roster!MemberAt(i, art[n].ap)]
    BY <1>5, <2>4, OneEntry
  <2>7. Roster!Join(n, i)
    BY <2>1, <2>3, <2>5, <2>6 DEF Roster!Join, Standings
  <2>8. QED
    BY <2>7 DEF Roster!Next
<1>8. QED
  BY <1>6, <1>7

\* The write of the ART row is of the entry the node has since then: it has not
\* been moved in the meantime.
LEMMA UpdateEntry ==
    ASSUME Consistent, UpdateArt, disturbed' \subseteq Nodes
    PROVE  Roster!Next
<1> DEFINE t == Head(co.todo)
           port == IF art[t.node] = None THEN 0 ELSE art[t.node].port
           row == [ap |-> t.ap, swarm |-> 1, vip |-> t.hid, port |-> port]
<1>0. TypeInv /\ TypeOK /\ TasksOK
  BY DEF Consistent, TypeInv
<1>1. /\ CoStep("artrow", "dump") /\ disturbed' = disturbed
      /\ art' = [art EXCEPT ![t.node] = row]
  BY DEF UpdateArt
<1>2. co.pc = "artrow" /\ co'.pc = "dump"
  BY <1>0, <1>1, CoSteps DEF CoPCs
<1>3. t = co.todo[1] /\ 1 \in DOMAIN co.todo /\ t \in Task /\ TaskRow(1)
  BY <1>2, CoWorksOn
<1>n. PICK n \in Nodes : n = t.node
  BY <1>3 DEF Task
<1>4. art'[n] = row /\ \A m \in Nodes \ {n} : art'[m] = art[m]
  BY <1>0, <1>1, <1>n DEF TypeOK
<1>5. /\ \A m \in Nodes \ {n} : ~Told(m)
      /\ \A m \in Nodes : ~Told(m)'
  BY <1>2, <1>n DEF Told
<1>6. \A m \in Nodes \ {n} : Standing(m)' = Standing(m)
  BY <1>1, <1>4, <1>5, EntryKept
<1>7. n \notin disturbed => Standing(n)' = Standing(n)
  <2> SUFFICES ASSUME n \notin disturbed
               PROVE  Standing(n)' = Standing(n)
    OBVIOUS
  <2>1. art[n] # None /\ art[n].ap = t.ap
    BY <1>3, <1>n DEF TaskRow, Calm
  <2>2. Told(n)
    BY <1>2, <1>n DEF Told
  <2>3. row \in ArtRow
    <3>1. t.hid \in HostIds
      BY <1>0, <1>2, <1>3 DEF TasksOK
    <3>2. port \in PortOrNull
      BY <1>0, <1>n, <2>1 DEF TypeOK, ArtRow
    <3>3. QED
      BY <1>3, <3>1, <3>2 DEF ArtRow, Task, Vips
  <2>4. art'[n] # None /\ art'[n].ap = t.ap /\ art'[n].vip = t.hid /\ Member(n)'
    BY <1>4, <2>3, ConstantsOK DEF Member
  <2>5. QED
    BY <1>1, <1>5, <2>1, <2>2, <2>4 DEF Standing
<1>8. QED
  BY <1>1, <1>6, <1>7, LosesOnly

\* The other steps of the coordinator change neither a row of the ART nor who
\* has been sent an address.
LEMMA CoordinatorEntry ==
    ASSUME Consistent, CoordinatorStep, disturbed' \subseteq Nodes
    PROVE  Roster!Next
<1>0. TypeInv
  BY DEF Consistent
<1>1. ASSUME UNCHANGED <<art, disturbed>>, \A n \in Nodes : ~Told(n) /\ ~Told(n)'
      PROVE  Roster!Next
  BY <1>1, EntryKept, LosesOnly
<1>2. CASE CoEnds
  BY <1>1, <1>2, CoEndsIdle DEF Told, NoHandlerChanges, tables, IdleCoordinator
<1>3. CASE CoDrops
  BY <1>0, <1>1, <1>3, CoDropsFirst DEF Told, NoHandlerChanges, tables
<1>4. CASE CoDumpPorts \/ CoUpdatePorts
  BY <1>0, <1>1, <1>4, CoSwitchSteps DEF Told, NoHandlerChanges, tables
<1>5. CASE AssignHostIds \/ TooFewHostIds
  BY <1>0, <1>1, <1>5, CoAssigns DEF Told, NoHandlerChanges, tables
<1>6. CASE SendGoAway
  <2>1. co.kind # "njl"
    BY <1>6 DEF SendGoAway
  <2>2. QED
    BY <1>0, <1>1, <1>6, <2>1, CoSends DEF Told, NoHandlerChanges, tables
<1>7. CASE SendJoinConfig
  BY <1>7, JoinEntry
<1>8. CASE InsertSwarmRow
  <2>1. /\ <<co.pc, co'.pc>> = <<"swarmrow", "artrow">> /\ SameRequest
        /\ UNCHANGED <<art, disturbed>>
    BY <1>0, <1>8, CoSteps DEF InsertSwarmRow, CoPCs
  <2>2. QED
    BY <2>1, EntryKept, LosesOnly DEF Told, SameRequest
<1>9. CASE UpdateArt
  BY <1>9, UpdateEntry
<1>10. QED
  BY <1>2, <1>3, <1>4, <1>5, <1>6, <1>7, <1>8, <1>9 DEF CoordinatorStep, CoEnds, CoDrops

-------------------------------------------------------------------------------
(* The environment.                                                        *)

\* Restarts, failed queries and new requests only lose nodes.
LEMMA EnvironmentEntry ==
    ASSUME Consistent, Environment, TypeInv'
    PROVE  Roster!Next
<1>0. TypeInv /\ TypeOK /\ disturbed' \subseteq Nodes
  BY DEF Consistent, TypeInv, TypeOK
<1>1. ASSUME NEW S \in SUBSET Nodes, NEW kind \in {"njl", "nll"}, AcceptRequest(kind, S)
      PROVE  Roster!Next
  <2>1. /\ co.pc = "idle" /\ co'.pc \in {"idle", "ids"} /\ art' = art
        /\ disturbed \subseteq disturbed'
    BY <1>1 DEF AcceptRequest, IdleCoordinator, tables
  <2>2. QED
    BY <1>0, <2>1, EntryKept, LosesOnly DEF Told
<1>2. ASSUME NEW a \in APs, RestartAPManager(a)
      PROVE  Roster!Next
  BY <1>0, <1>2, RowsKept DEF RestartAPManager, tables
<1>3. ASSUME NEW a \in APs, APQueryFails(a)
      PROVE  Roster!Next
  <2>1. UNCHANGED <<tables, co>> /\ disturbed \subseteq disturbed'
    BY <1>0, <1>3, APQueryFailsMoves
  <2>2. QED
    BY <1>0, <2>1, RowsKept DEF tables
<1>4. CASE RestartCoordinator
  <2>1. /\ co'.pc = "idle" /\ art' = art /\ disturbed \subseteq disturbed'
        /\ \A n \in Nodes \ disturbed' : ~Told(n)
    BY <1>4 DEF RestartCoordinator, CoFinish, IdleCoordinator
  <2>2. QED
    BY <1>0, <2>1, EntryKept, LosesOnly DEF Told
<1>5. CASE CoQueryFails
  <2>1. /\ art' = art
        /\ \/ co.pc = "ids" /\ co'.pc = "idle" /\ disturbed' = disturbed
           \/ /\ <<co.pc, co'.pc>> \in {<<"swarmrow", "artrow">>, <<"artrow", "dump">>}
              /\ SameRequest /\ disturbed' = disturbed \cup {Head(co.todo).node}
    BY <1>0, <1>5, CoQueryFailsMoves DEF tables, IdleCoordinator
  <2>2. QED
    BY <1>0, <2>1, EntryKept, LosesOnly DEF Told, SameRequest
<1>6. ASSUME NEW n \in Nodes,
             (\E a \in APs : Associate(n, a)) \/ Disassociate(n) \/ SpuriousDetection(n)
      PROVE  Roster!Next
  BY <1>0, <1>6, RadioKeeps, RowsKept DEF tables
<1>7. QED
  BY <1>1, <1>2, <1>3, <1>4, <1>5, <1>6 DEF Environment

-------------------------------------------------------------------------------
(* The theorems.                                                           *)

\* Every step of the programs is one of the list.
LEMMA EveryStep ==
    ASSUME Consistent, [Next]_vars, TypeInv'
    PROVE  Roster!Next
<1>0. TypeInv /\ TypeOK /\ disturbed' \subseteq Nodes
  BY DEF Consistent, TypeInv, TypeOK
<1>1. ASSUME NEW n \in Nodes, NodeStep(n)
      PROVE  Roster!Next
  BY <1>0, <1>1, RowsKept
     DEF NodeStep, HandleMessage, LeaveNetwork, ReturnToNetwork, tables
<1>2. CASE UNCHANGED vars
  BY <1>0, <1>2, RowsKept DEF vars, tables
<1>3. QED
  BY <1>0, <1>1, <1>2, APStepEntry, CoordinatorEntry, EnvironmentEntry DEF Next

\* Tables, handlers, messages, restarts and failed queries together behave as
\* one list of the nodes.
THEOREM RosterImplemented == Spec => ImplementsRoster
<1>1. Init => Roster!Init
  BY DEF Init, Roster!Init, Roster!Out, Standing
<1>2. Consistent /\ Consistent' /\ [Next]_vars => [Roster!Next]_Standings
  BY EveryStep DEF Consistent
<1>3. QED
  BY <1>1, <1>2, ConsistentAlways, PTL
     DEF Spec, ImplementsRoster, Roster!Spec, Standings

\* A step of the list changes the entry of one node, or loses some.
LEMMA EntriesChange ==
    ASSUME Roster!Next
    PROVE  \/ \E n \in Nodes, a \in APs : Roster!Register(n, a) \/ Roster!Roam(n, a)
           \/ \E n \in Nodes, i \in HostIds : Roster!Join(n, i)
           \/ \A n \in Nodes : \/ Standings'[n] = Standings[n]
                               \/ Standings'[n] \in {Roster!Out, Roster!Lost}
<1>1. CASE \E n \in Nodes : Roster!Remove(n)
  BY <1>1 DEF Roster!Remove, Standings
<1>2. CASE \E S \in SUBSET Nodes : Roster!Lose(S)
  BY <1>2 DEF Roster!Lose, Standings
<1>3. QED
  BY <1>1, <1>2 DEF Roster!Next

\* A node has one entry, which is a member's with one host id or no member's.
LEMMA EntriesDiffer ==
    /\ \A i, j, a, b : Roster!MemberAt(i, a) = Roster!MemberAt(j, b) => i = j
    /\ \A i, a, b : Roster!MemberAt(i, a) # Roster!HoldingAt(b)
    /\ \A i, a : Roster!MemberAt(i, a) \notin {Roster!Out, Roster!Lost}
  BY DEF Roster!MemberAt, Roster!HoldingAt, Roster!Out, Roster!Lost

\* After a step a member has the host id it had, or joined with one that
\* nobody had.
LEMMA IdsMove ==
    ASSUME Roster!Next, NEW n \in Nodes, NEW i \in HostIds
    PROVE  /\ Roster!HasId(n, i)' =>
                 \/ Roster!HasId(n, i)
                 \/ /\ \A m \in Nodes : ~Roster!HasId(m, i)
                    /\ \A m \in Nodes \ {n} : Standings'[m] = Standings[m]
           /\ Roster!HasId(n, i) =>
                 Roster!HasId(n, i)' \/ Standings'[n] \in {Roster!Out, Roster!Lost}
<1>0. /\ Roster!HasId(n, i) <=> \E a \in APs : Standings[n] = Roster!MemberAt(i, a)
      /\ Roster!HasId(n, i)' <=> \E a \in APs : Standings'[n] = Roster!MemberAt(i, a)
  BY DEF Roster!HasId, Roster!MemberAt, Standings
<1>1. CASE \A k \in Nodes : \/ Standings'[k] = Standings[k]
                            \/ Standings'[k] \in {Roster!Out, Roster!Lost}
  BY <1>0, <1>1, EntriesDiffer
<1>2. ASSUME NEW k \in Nodes, NEW a \in APs, Roster!Register(k, a)
      PROVE  /\ Roster!HasId(n, i)' => Roster!HasId(n, i)
             /\ Roster!HasId(n, i) => Roster!HasId(n, i)'
  <2>1. /\ Standings[k] = Roster!Out
        /\ Standings' = [Standings EXCEPT ![k] = Roster!HoldingAt(a)]
    BY <1>2 DEF Roster!Register, Standings
  <2>2. QED
    BY <1>0, <2>1, StandingsNow, EntriesDiffer
<1>3. ASSUME NEW k \in Nodes, NEW a \in APs, Roster!Roam(k, a)
      PROVE  /\ Roster!HasId(n, i)' => Roster!HasId(n, i)
             /\ Roster!HasId(n, i) => Roster!HasId(n, i)'
  <2>1. \/ \E b \in APs : /\ Standings[k] = Roster!HoldingAt(b)
                          /\ Standings' = [Standings EXCEPT ![k] = Roster!HoldingAt(a)]
        \/ \E j \in HostIds, b \in APs :
              /\ Standings[k] = Roster!MemberAt(j, b)
              /\ Standings' = [Standings EXCEPT ![k] = Roster!MemberAt(j, a)]
    BY <1>3 DEF Roster!Roam, Roster!HasId, Standings
  <2>2. QED
    BY <1>0, <2>1, StandingsNow, EntriesDiffer
<1>4. ASSUME NEW k \in Nodes, NEW j \in HostIds, Roster!Join(k, j)
      PROVE  /\ Roster!HasId(n, i)' =>
                   \/ Roster!HasId(n, i)
                   \/ /\ \A m \in Nodes : ~Roster!HasId(m, i)
                      /\ \A m \in Nodes \ {n} : Standings'[m] = Standings[m]
             /\ Roster!HasId(n, i) => Roster!HasId(n, i)'
  <2>1. PICK a \in APs : /\ Standings[k] = Roster!HoldingAt(a)
                         /\ Standings' = [Standings EXCEPT ![k] = Roster!MemberAt(j, a)]
    BY <1>4 DEF Roster!Join, Standings
  <2>2. \A m \in Nodes : ~Roster!HasId(m, j)
    BY <1>4 DEF Roster!Join
  <2>3. QED
    BY <1>0, <2>1, <2>2, StandingsNow, EntriesDiffer
<1>5. QED
  BY <1>1, <1>2, <1>3, <1>4, EntriesChange

\* No two members, told or in the tables, ever have the same host id.
THEOREM IdsStayApart == Spec => []Roster!IdsApart
<1>1. Roster!Init => Roster!IdsApart
  BY EntriesDiffer DEF Roster!Init, Roster!IdsApart, Roster!HasId
<1>2. Roster!IdsApart /\ [Roster!Next]_Standings => Roster!IdsApart'
  <2> SUFFICES ASSUME Roster!IdsApart, [Roster!Next]_Standings,
                      NEW n \in Nodes, NEW m \in Nodes, NEW i \in HostIds,
                      Roster!HasId(n, i)', Roster!HasId(m, i)'
               PROVE  n = m
    BY DEF Roster!IdsApart
  <2>1. CASE Standings' = Standings
    <3>1. Roster!HasId(n, i) /\ Roster!HasId(m, i)
      BY <2>1 DEF Roster!HasId, Standings
    <3>2. QED
      BY <3>1 DEF Roster!IdsApart
  <2>2. CASE Roster!Next
    <3>1. CASE Roster!HasId(n, i) /\ Roster!HasId(m, i)
      BY <3>1 DEF Roster!IdsApart
    <3>2. ASSUME NEW k \in {n, m}, NEW l \in {n, m}, k # l,
                 Roster!HasId(l, i)', \A j \in Nodes : ~Roster!HasId(j, i),
                 \A j \in Nodes \ {k} : Standings'[j] = Standings[j]
          PROVE  FALSE
      BY <3>2 DEF Roster!HasId, Standings
    <3>3. QED
      BY <2>2, <3>1, <3>2, IdsMove
  <2>3. QED
    BY <2>1, <2>2
<1>3. QED
  BY <1>1, <1>2, RosterImplemented, PTL DEF ImplementsRoster, Roster!Spec, Standings

\* A member keeps its host id until it is removed or lost.
THEOREM IdsAreKept == Spec => Roster!IdsKept
<1>1. [Roster!Next]_Standings => [Roster!KeepsIds]_Standings
  BY IdsMove DEF Roster!KeepsIds, Standings
<1>2. QED
  BY <1>1, RosterImplemented, PTL
     DEF ImplementsRoster, Roster!Spec, Roster!IdsKept, Standings
================================================================================

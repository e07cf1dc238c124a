------------------------- MODULE SwarmMembershipProofs -------------------------
(***************************************************************************)
(* Theorems about SwarmMembership for every set of nodes and APs, every    *)
(* range of host ids and ports and every bound.                            *)
(***************************************************************************)
EXTENDS SwarmMembership, FiniteSetTheorems, TLAPS

-------------------------------------------------------------------------------
(* Type correctness.                                                       *)
(*                                                                         *)
(* TypeOK is not inductive: a handler's locals are partly None, and which  *)
(* of them it may use depends on where it is.                              *)

\* Where an AP manager's handler is tells which of its locals are set.
HandlerOK(a) ==
    /\ ap[a].pc \notin {"idle", "dead"} => ap[a].node \in Nodes
    /\ ap[a].pc \in {"send", "await", "acked", "swarmrow"} \cup SwitchPC =>
          /\ ap[a].port \in Ports
          /\ ap[a].vip \in IF ap[a].swarm = 0 THEN Nodes ELSE HostIds
    /\ ap[a].pc = "hostid" => ap[a].port \in Ports
    /\ ap[a].pc \in {"hostid", "swarmrow"} => ap[a].swarm = 1
    /\ ap[a].pc \in {"grace", "reread"} => connected[a][ap[a].node] # None

Awaited(n, a) == a \in APs /\ ap[a].pc = "await" /\ ap[a].node = n

\* A message whose sender still waits is the only one of that sender, and the
\* sender's handler waits for nothing else.
MessageOK(n) ==
    \A i \in DOMAIN inbox[n] :
        /\ inbox[n][i].open => Awaited(n, inbox[n][i].from)
        /\ inbox[n][i].type = "SET_CONFIG" /\ inbox[n][i].port # 0
              => inbox[n][i].from \in APs
        /\ \A j \in DOMAIN inbox[n] :
              inbox[n][i].open /\ inbox[n][j].open
              /\ inbox[n][i].from = inbox[n][j].from => i = j

\* The coordinator works on the first task, and every task has a host id.
TasksOK ==
    /\ co.pc \notin {"idle", "ids", "task"} => co.todo # <<>>
    /\ co.pc # "ids" => \A i \in DOMAIN co.todo : co.todo[i].hid \in HostIds

\* The inductive strengthening of TypeOK.
TypeInv ==
    /\ TypeOK
    /\ \A a \in APs : HandlerOK(a)
    /\ \A n \in Nodes : MessageOK(n)
    /\ TasksOK

\* Before any program has taken a step there is no handler, message or task.
LEMMA InitTypeInv == Init => TypeInv
<1> SUFFICES ASSUME Init
             PROVE  TypeInv
  OBVIOUS
<1> USE ConstantsOK DEF Init
<1>1. IdleHandler \in Handler
  BY DEF IdleHandler, Handler, PortOrNull
<1>2. IdleCoordinator \in Coordinator
  BY DEF IdleCoordinator, Coordinator
<1>3. TypeOK
  <2>1. ap \in [APs -> Handler] /\ co \in Coordinator
    BY <1>1, <1>2
  <2>2. tunnel \in [APs -> [Nodes -> PortOrNull]]
    BY DEF PortOrNull
  <2>3. node \in [Nodes -> [vip : Vips \cup {None}, tun : Tunnel \cup {None},
                            hb : BOOLEAN, pc : {"listen", "away"}]]
    OBVIOUS
  <2>4. /\ art \in [Nodes -> ArtRow \cup {None}]
        /\ swarmTable \in [Nodes -> SwarmRow \cup {None}]
        /\ connected \in [APs -> [Nodes -> Station \cup {None}]]
        /\ lastLine \in [APs -> Event \cup {None}]
        /\ mcast \in [APs -> SUBSET PortOrNull]
        /\ lpm \in [APs -> [Vips -> PortOrNull \cup APs \cup {None}]]
        /\ assoc \in [Nodes -> APs \cup {None}]
    OBVIOUS
  <2>5. events \in [APs -> Seq(Event)] /\ inbox \in [Nodes -> Seq(Message)]
    OBVIOUS
  <2>6. /\ disturbed \subseteq Nodes /\ healed \in BOOLEAN
        /\ moves \in Nat /\ requests \in Nat /\ restarts \in Nat
    OBVIOUS
  <2>7. QED
    BY <2>1, <2>2, <2>3, <2>4, <2>5, <2>6 DEF TypeOK
<1>4. \A a \in APs : HandlerOK(a)
  BY DEF HandlerOK, IdleHandler, SwitchPC
<1>5. \A n \in Nodes : MessageOK(n)
  BY DEF MessageOK
<1>6. TasksOK
  BY DEF TasksOK, IdleCoordinator
<1>7. QED
  BY <1>3, <1>4, <1>5, <1>6 DEF TypeInv

\* What a step of one AP manager that waits for no answer must establish: the
\* other managers and the messages in flight are as before.
LEMMA APFrame ==
    ASSUME TypeInv, NEW a \in APs, TypeOK', HandlerOK(a)',
           \A b \in APs \ {a} : ap'[b] = ap[b] /\ connected'[b] = connected[b],
           ap[a].pc # "await", inbox' = inbox, co' = co
    PROVE  TypeInv'
<1>1. \A b \in APs : HandlerOK(b)'
  BY DEF HandlerOK, TypeInv
<1>2. \A n \in Nodes : MessageOK(n)'
  BY DEF MessageOK, Awaited, TypeInv
<1>3. TasksOK'
  BY DEF TasksOK, TypeInv
<1>4. QED
  BY <1>1, <1>2, <1>3 DEF TypeInv

PCs == NewPC \cup DelPC \cup SwitchPC \cup {"idle", "dead"}

\* A step to another program counter changes nothing else of the handler.
LEMMA PCUpdate ==
    ASSUME TypeOK, NEW a \in APs, NEW pc \in PCs, ap' = [ap EXCEPT ![a].pc = pc]
    PROVE  /\ ap' \in [APs -> Handler]
           /\ ap'[a] \in Handler
           /\ ap'[a].pc = pc
           /\ ap'[a].node = ap[a].node /\ ap'[a].swarm = ap[a].swarm
           /\ ap'[a].vip = ap[a].vip /\ ap'[a].port = ap[a].port
           /\ ap'[a].bcast = ap[a].bcast /\ ap'[a].dump = ap[a].dump
           /\ \A b \in APs \ {a} : ap'[b] = ap[b]
<1>1. ap[a] \in Handler
  BY DEF TypeOK
<1>2. [ap[a] EXCEPT !.pc = pc] \in Handler
  BY <1>1 DEF Handler, PCs
<1>3. ap'[a] = [ap[a] EXCEPT !.pc = pc]
  BY DEF TypeOK
<1>4. QED
  BY <1>1, <1>2, <1>3 DEF TypeOK, Handler

\* The end of a handler.
LEMMA IdleUpdate ==
    ASSUME TypeOK, NEW a \in APs, NEW h \in {IdleHandler, [IdleHandler EXCEPT !.pc = "dead"]},
           ap' = [ap EXCEPT ![a] = h]
    PROVE  /\ ap' \in [APs -> Handler]
           /\ ap'[a] = h /\ ap'[a].node = None /\ ap'[a].pc \in {"idle", "dead"}
           /\ HandlerOK(a)'
           /\ \A b \in APs \ {a} : ap'[b] = ap[b]
<1>1. h \in Handler /\ h.node = None /\ h.pc \in {"idle", "dead"}
  BY ConstantsOK DEF IdleHandler, Handler, PortOrNull
<1>2. QED
  BY <1>1 DEF TypeOK, HandlerOK, SwitchPC

\* The start of a handler.
LEMMA StartUpdate ==
    ASSUME TypeOK, NEW a \in APs, NEW n \in Nodes, NEW pc \in {"arp", "del"},
           ap' = [ap EXCEPT ![a] = [IdleHandler EXCEPT !.pc = pc, !.node = n]]
    PROVE  /\ ap' \in [APs -> Handler]
           /\ ap'[a].pc = pc /\ ap'[a].node = n /\ ap'[a].vip = None
           /\ HandlerOK(a)'
           /\ \A b \in APs \ {a} : ap'[b] = ap[b]
<1>1. ASSUME NEW h \in Handler
      PROVE  [h EXCEPT !.pc = pc, !.node = n] \in Handler
  BY DEF Handler, NewPC, DelPC
<1>2. IdleHandler \in Handler
  BY ConstantsOK DEF IdleHandler, Handler, PortOrNull
<1> DEFINE h == [IdleHandler EXCEPT !.pc = pc, !.node = n]
<1>3. h \in Handler
  BY <1>1, <1>2
<1>4. h.pc = pc /\ h.node = n /\ h.vip = None
  BY DEF IdleHandler
<1>5. ap'[a] = h /\ ap' \in [APs -> Handler]
  BY <1>3 DEF TypeOK
<1> HIDE DEF h
<1>6. QED
  BY <1>4, <1>5 DEF TypeOK, HandlerOK, SwitchPC

\* The database and the switches, after one of their entries is written.
LEMMA RowUpdate ==
    ASSUME TypeOK, NEW n, NEW r \in ArtRow \cup {None}, NEW q \in SwarmRow \cup {None}
    PROVE  /\ [art EXCEPT ![n] = r] \in [Nodes -> ArtRow \cup {None}]
           /\ [swarmTable EXCEPT ![n] = q] \in [Nodes -> SwarmRow \cup {None}]
  BY DEF TypeOK

\* A port added to or taken from a switch, an entry set in its table.
LEMMA SwitchUpdate ==
    ASSUME TypeOK, NEW a, NEW v, NEW p \in PortOrNull, NEW ports \in SUBSET PortOrNull
    PROVE  /\ [mcast EXCEPT ![a] = ports \cup {p}] \in [APs -> SUBSET PortOrNull]
           /\ [mcast EXCEPT ![a] = ports \ {p}] \in [APs -> SUBSET PortOrNull]
           /\ [lpm EXCEPT ![a][v] = p] \in [APs -> [Vips -> PortOrNull \cup APs \cup {None}]]
  BY DEF TypeOK

\* The entries set on the switches of the other APs.
LEMMA ReplicatedType ==
    ASSUME TypeOK, NEW a, NEW v, NEW hop \in [APs -> APs]
    PROVE  Replicated(a, v, hop) \in [APs -> [Vips -> PortOrNull \cup APs \cup {None}]]
  BY DEF TypeOK, Replicated

\* What an AP manager knows of the station it registers.
LEMMA EnterStationType ==
    ASSUME TypeInv, NEW a \in APs, EnterStation(a)
    PROVE  /\ ap[a].pc = "acked" /\ ap[a].node \in Nodes
           /\ ap' \in [APs -> Handler] /\ HandlerOK(a)'
           /\ \A b \in APs \ {a} : ap'[b] = ap[b] /\ connected'[b] = connected[b]
           /\ connected' \in [APs -> [Nodes -> Station \cup {None}]]
           /\ [ap |-> a, swarm |-> ap[a].swarm, vip |-> ap[a].vip,
               port |-> ap[a].port] \in ArtRow
<1>0. TypeOK /\ HandlerOK(a)
  BY DEF TypeInv
<1> USE <1>0
<1> DEFINE to == IF ap[a].swarm = 0 THEN "replicate" ELSE "swarmrow"
<1>1. /\ ap[a].pc = "acked" /\ ap[a].node \in Nodes /\ ap[a].port \in Ports
      /\ ap[a].vip \in IF ap[a].swarm = 0 THEN Nodes ELSE HostIds
      /\ ap[a].swarm \in {0, 1}
  BY DEF EnterStation, Step, HandlerOK, TypeOK, Handler
<1>2. ap' = [ap EXCEPT ![a].pc = to] /\ to \in PCs
  BY DEF EnterStation, Step, PCs, SwitchPC, NewPC
<1> HIDE DEF to
<1>3. /\ ap' \in [APs -> Handler]
      /\ ap'[a].pc = to /\ ap'[a].node = ap[a].node /\ ap'[a].swarm = ap[a].swarm
      /\ ap'[a].vip = ap[a].vip /\ ap'[a].port = ap[a].port
      /\ \A b \in APs \ {a} : ap'[b] = ap[b]
  BY <1>2, PCUpdate
<1>4. HandlerOK(a)'
  BY <1>1, <1>3 DEF HandlerOK, SwitchPC, to
<1>5. /\ [ap |-> a, swarm |-> ap[a].swarm, vip |-> ap[a].vip, port |-> ap[a].port] \in ArtRow
      /\ [vip |-> ap[a].vip, port |-> ap[a].port] \in Station
  BY <1>1, ConstantsOK DEF ArtRow, Station, Vips, PortOrNull, Ports
<1>6. connected' \in [APs -> [Nodes -> Station \cup {None}]]
      /\ \A b \in APs \ {a} : connected'[b] = connected[b]
  BY <1>5 DEF EnterStation, TypeOK
<1>7. QED
  BY <1>1, <1>3, <1>4, <1>5, <1>6

\* What the end of the handler of a lost station leaves.
LEMMA DeleteTunnelType ==
    ASSUME TypeInv, NEW a \in APs, DeleteTunnel(a)
    PROVE  /\ ap[a].pc = "delswarm" /\ ap[a].node \in Nodes
           /\ ap' \in [APs -> Handler] /\ HandlerOK(a)'
           /\ \A b \in APs \ {a} : ap'[b] = ap[b]
           /\ tunnel' \in [APs -> [Nodes -> PortOrNull]]
<1>0. TypeOK /\ HandlerOK(a)
  BY DEF TypeInv
<1>1. ap[a].pc = "delswarm" /\ ap' = [ap EXCEPT ![a] = IdleHandler]
  BY DEF DeleteTunnel, Finish
<1>2. ap[a].node \in Nodes
  BY <1>0, <1>1 DEF HandlerOK
<1>3. /\ ap' \in [APs -> Handler] /\ HandlerOK(a)'
      /\ \A b \in APs \ {a} : ap'[b] = ap[b]
  BY <1>0, <1>1, IdleUpdate
<1>4. tunnel' \in [APs -> [Nodes -> PortOrNull]]
  BY <1>0, ConstantsOK DEF DeleteTunnel, TypeOK, PortOrNull
<1>5. QED
  BY <1>1, <1>2, <1>3, <1>4

\* One step of an AP manager's handler that changes no message.
LEMMA APStepTypeInv ==
    ASSUME TypeInv, NEW a \in APs, APStep(a),
           ~SendConfig(a), ~ConfigTimeout(a)
    PROVE  TypeInv'
<1>0. TypeOK /\ HandlerOK(a)
  BY DEF TypeInv
<1> USE <1>0
<1>1. CASE DropRepeatedLine(a)
  <2>1. ap' = ap /\ connected' = connected /\ inbox' = inbox /\ co' = co /\ ap[a].pc = "idle"
    BY <1>1 DEF DropRepeatedLine, NextLine, nodes
  <2>2. events' \in [APs -> Seq(Event)] /\ lastLine' \in [APs -> Event \cup {None}]
    BY <1>1 DEF DropRepeatedLine, NextLine, TypeOK
  <2>3. TypeOK'
    BY <1>1, <2>1, <2>2 DEF DropRepeatedLine, TypeOK, tables, switches, nodes, bounds
  <2>4. HandlerOK(a)'
    BY <2>1 DEF HandlerOK, SwitchPC
  <2>5. QED
    BY <2>1, <2>3, <2>4, APFrame
<1>2. CASE SkipConnectedStation(a)
  <2>1. ap' = ap /\ connected' = connected /\ inbox' = inbox /\ co' = co /\ ap[a].pc = "idle"
    BY <1>2 DEF SkipConnectedStation, NextLine, nodes
  <2>2. events' \in [APs -> Seq(Event)] /\ lastLine' \in [APs -> Event \cup {None}]
    BY <1>2 DEF SkipConnectedStation, NextLine, TypeOK
  <2>3. TypeOK'
    BY <1>2, <2>1, <2>2 DEF SkipConnectedStation, TypeOK, tables, switches, nodes, bounds
  <2>4. HandlerOK(a)'
    BY <2>1 DEF HandlerOK, SwitchPC
  <2>5. QED
    BY <2>1, <2>3, <2>4, APFrame
<1>3. CASE NewStation(a)
  <2> DEFINE n == Head(events[a]).node
  <2>1. n \in Nodes
    <3>1. events[a] \in Seq(Event) /\ events[a] # <<>>
      BY <1>3 DEF NewStation, NextLine, TypeOK
    <3>2. Head(events[a]) \in Event
      BY <3>1
    <3>3. QED
      BY <3>2 DEF Event
  <2>2. ap' = [ap EXCEPT ![a] = [IdleHandler EXCEPT !.pc = "arp", !.node = n]]
    BY <1>3 DEF NewStation, StartHandler
  <2>3. /\ ap' \in [APs -> Handler] /\ HandlerOK(a)'
        /\ \A b \in APs \ {a} : ap'[b] = ap[b]
    BY <2>1, <2>2, StartUpdate
  <2>4. events' \in [APs -> Seq(Event)] /\ lastLine' \in [APs -> Event \cup {None}]
    BY <1>3 DEF NewStation, NextLine, TypeOK
  <2>5. disturbed' \subseteq Nodes
    BY <1>3, <2>1 DEF NewStation, StartHandler, TypeOK
  <2>6. TypeOK'
    BY <1>3, <2>3, <2>4, <2>5 DEF NewStation, TypeOK, tables, switches, nodes, bounds
  <2>7. ap[a].pc = "idle"
    BY <1>3 DEF NewStation, NextLine
  <2>8. connected' = connected /\ inbox' = inbox /\ co' = co
    BY <1>3 DEF NewStation, nodes
  <2>9. QED
    BY <2>3, <2>6, <2>7, <2>8, APFrame
<1>4. CASE LostStation(a)
  <2> DEFINE n == Head(events[a]).node
  <2>1. n \in Nodes
    <3>1. events[a] \in Seq(Event) /\ events[a] # <<>>
      BY <1>4 DEF LostStation, NextLine, TypeOK
    <3>2. Head(events[a]) \in Event
      BY <3>1
    <3>3. QED
      BY <3>2 DEF Event
  <2>2. ap' = [ap EXCEPT ![a] = [IdleHandler EXCEPT !.pc = "del", !.node = n]]
    BY <1>4 DEF LostStation, StartHandler
  <2>3. /\ ap' \in [APs -> Handler] /\ HandlerOK(a)'
        /\ \A b \in APs \ {a} : ap'[b] = ap[b]
    BY <2>1, <2>2, StartUpdate
  <2>4. events' \in [APs -> Seq(Event)] /\ lastLine' \in [APs -> Event \cup {None}]
    BY <1>4 DEF LostStation, NextLine, TypeOK
  <2>5. disturbed' \subseteq Nodes
    BY <1>4, <2>1 DEF LostStation, StartHandler, TypeOK
  <2>6. TypeOK'
    BY <1>4, <2>3, <2>4, <2>5 DEF LostStation, TypeOK, tables, switches, nodes, bounds
  <2>7. ap[a].pc = "idle"
    BY <1>4 DEF LostStation, NextLine
  <2>8. connected' = connected /\ inbox' = inbox /\ co' = co
    BY <1>4 DEF LostStation, nodes
  <2>9. QED
    BY <2>3, <2>6, <2>7, <2>8, APFrame
<1>5. CASE ArpMiss(a)
  <2>1. /\ ap' \in [APs -> Handler] /\ HandlerOK(a)'
        /\ \A b \in APs \ {a} : ap'[b] = ap[b]
    BY <1>5, IdleUpdate DEF ArpMiss, Finish
  <2>2. UNCHANGED <<tables, co, apLocals, switches, radio, nodes, bounds>>
        /\ disturbed' \subseteq Nodes
    BY <1>5 DEF ArpMiss, TypeOK
  <2>3. TypeOK'
    BY <2>1, <2>2 DEF TypeOK, tables, apLocals, switches, radio, nodes, bounds
  <2>4. ap[a].pc # "await"
    BY <1>5 DEF ArpMiss, Uncaught
  <2>5. QED
    BY <2>1, <2>2, <2>3, <2>4, APFrame DEF apLocals, nodes
<1>6. CASE APManagerDies(a)
  <2>1. /\ ap' \in [APs -> Handler] /\ HandlerOK(a)'
        /\ \A b \in APs \ {a} : ap'[b] = ap[b]
    BY <1>6, IdleUpdate DEF APManagerDies, Finish
  <2>2. UNCHANGED <<tables, co, apLocals, switches, radio, nodes, bounds>>
        /\ disturbed' \subseteq Nodes
    BY <1>6 DEF APManagerDies, CutShort, TypeOK
  <2>3. TypeOK'
    BY <2>1, <2>2 DEF TypeOK, tables, apLocals, switches, radio, nodes, bounds
  <2>4. ap[a].pc # "await"
    BY <1>6 DEF APManagerDies, Uncaught
  <2>5. QED
    BY <2>1, <2>2, <2>3, <2>4, APFrame DEF apLocals, nodes
<1>7. CASE SendConfigFails(a)
  <2>1. /\ ap' \in [APs -> Handler] /\ HandlerOK(a)'
        /\ \A b \in APs \ {a} : ap'[b] = ap[b]
    BY <1>7, IdleUpdate DEF SendConfigFails, Finish
  <2>2. UNCHANGED <<tables, co, apLocals, switches, radio, nodes, bounds>>
        /\ disturbed' \subseteq Nodes
    BY <1>7 DEF SendConfigFails, TypeOK
  <2>3. TypeOK'
    BY <2>1, <2>2 DEF TypeOK, tables, apLocals, switches, radio, nodes, bounds
  <2>4. ap[a].pc # "await"
    BY <1>7 DEF SendConfigFails, Uncaught
  <2>5. QED
    BY <2>1, <2>2, <2>3, <2>4, APFrame DEF apLocals, nodes
<1>8. CASE IgnoreLostStation(a)
  <2>1. /\ ap' \in [APs -> Handler] /\ HandlerOK(a)'
        /\ \A b \in APs \ {a} : ap'[b] = ap[b]
    BY <1>8, IdleUpdate DEF IgnoreLostStation, Finish
  <2>2. UNCHANGED <<tables, co, apLocals, switches, radio, nodes, bounds>>
        /\ disturbed' \subseteq Nodes
    BY <1>8 DEF IgnoreLostStation, TypeOK
  <2>3. TypeOK'
    BY <2>1, <2>2 DEF TypeOK, tables, apLocals, switches, radio, nodes, bounds
  <2>4. ap[a].pc # "await"
    BY <1>8 DEF IgnoreLostStation, Uncaught
  <2>5. QED
    BY <2>1, <2>2, <2>3, <2>4, APFrame DEF apLocals, nodes
<1>9. CASE StationCameBack(a)
  <2>1. /\ ap' \in [APs -> Handler] /\ HandlerOK(a)'
        /\ \A b \in APs \ {a} : ap'[b] = ap[b]
    BY <1>9, IdleUpdate DEF StationCameBack, Finish
  <2>2. UNCHANGED <<tables, co, apLocals, switches, radio, nodes, bounds>>
        /\ disturbed' \subseteq Nodes
    BY <1>9 DEF StationCameBack, TypeOK
  <2>3. TypeOK'
    BY <2>1, <2>2 DEF TypeOK, tables, apLocals, switches, radio, nodes, bounds
  <2>4. ap[a].pc # "await"
    BY <1>9 DEF StationCameBack, Uncaught
  <2>5. QED
    BY <2>1, <2>2, <2>3, <2>4, APFrame DEF apLocals, nodes
<1>10. CASE StationMoved(a)
  <2>1. /\ ap' \in [APs -> Handler] /\ HandlerOK(a)'
        /\ \A b \in APs \ {a} : ap'[b] = ap[b]
    BY <1>10, IdleUpdate DEF StationMoved, Finish
  <2>2. UNCHANGED <<tables, co, apLocals, switches, radio, nodes, bounds>>
        /\ disturbed' \subseteq Nodes
    BY <1>10 DEF StationMoved, TypeOK
  <2>3. TypeOK'
    BY <2>1, <2>2 DEF TypeOK, tables, apLocals, switches, radio, nodes, bounds
  <2>4. ap[a].pc # "await"
    BY <1>10 DEF StationMoved, Uncaught
  <2>5. QED
    BY <2>1, <2>2, <2>3, <2>4, APFrame DEF apLocals, nodes
<1>11. CASE StartGrace(a)
  <2>1. ap[a].pc = "del" /\ ap' = [ap EXCEPT ![a].pc = "grace"]
    BY <1>11 DEF StartGrace, Step
  <2>2. /\ ap' \in [APs -> Handler] /\ ap'[a].pc = "grace" /\ ap'[a].node = ap[a].node
        /\ \A b \in APs \ {a} : ap'[b] = ap[b]
    BY <2>1, PCUpdate DEF PCs, DelPC
  <2>3. UNCHANGED <<tables, co, apLocals, switches, radio, nodes, disturbed, bounds>>
    BY <1>11 DEF StartGrace
  <2>4. TypeOK'
    BY <2>2, <2>3 DEF TypeOK, tables, apLocals, switches, radio, nodes, bounds
  <2>5. HandlerOK(a)'
    BY <1>11, <2>1, <2>2, <2>3 DEF StartGrace, HandlerOK, SwitchPC, apLocals, ConnectedHere
  <2>6. QED
    BY <2>1, <2>2, <2>3, <2>4, <2>5, APFrame DEF apLocals, nodes
<1>12. CASE GraceOver(a)
  <2>1. ap[a].pc = "grace" /\ ap' = [ap EXCEPT ![a].pc = "reread"]
    BY <1>12 DEF GraceOver, Step
  <2>2. /\ ap' \in [APs -> Handler] /\ ap'[a].pc = "reread" /\ ap'[a].node = ap[a].node
        /\ \A b \in APs \ {a} : ap'[b] = ap[b]
    BY <2>1, PCUpdate DEF PCs, DelPC
  <2>3. UNCHANGED <<tables, co, apLocals, switches, radio, nodes, disturbed, bounds>>
    BY <1>12 DEF GraceOver
  <2>4. TypeOK'
    BY <2>2, <2>3 DEF TypeOK, tables, apLocals, switches, radio, nodes, bounds
  <2>5. HandlerOK(a)'
    BY <1>12, <2>1, <2>2, <2>3 DEF GraceOver, HandlerOK, SwitchPC, apLocals, ConnectedHere
  <2>6. QED
    BY <2>1, <2>2, <2>3, <2>4, <2>5, APFrame DEF apLocals, nodes
<1>13. CASE ReadArt(a)
  <2>1. ap[a].pc = "arp" /\ ap[a].node \in Nodes
    BY <1>13 DEF ReadArt, HandlerOK
  <2> DEFINE member == art[ap[a].node] # None /\ art[ap[a].node].swarm # 0
             pc == IF member THEN "hostid" ELSE "send"
             swarm == IF member THEN 1 ELSE 0
             vip == IF member THEN None ELSE ap[a].node
  <2>2a. PICK p \in TunnelIds(a, ap[a].node) :
          /\ tunnel' = [tunnel EXCEPT ![a][ap[a].node] = p]
          /\ ap' = [ap EXCEPT ![a].pc = pc, ![a].swarm = swarm, ![a].vip = vip,
                              ![a].port = p]
    BY <1>13 DEF ReadArt
  <2>2b. /\ pc \in {"hostid", "send"} /\ swarm \in {0, 1} /\ vip \in {None, ap[a].node}
         /\ pc = "hostid" <=> swarm = 1
         /\ pc = "send" => vip = ap[a].node
    OBVIOUS
  <2> HIDE DEF pc, swarm, vip
  <2>3. p \in Ports
    BY <2>1 DEF TunnelIds, TypeOK, Ports, PortOrNull
  <2>4. ap[a] \in Handler /\ p \in PortOrNull
    BY <2>3, ConstantsOK DEF TypeOK, Ports, PortOrNull
  <2> DEFINE h == [ap[a] EXCEPT !.pc = pc, !.swarm = swarm, !.vip = vip, !.port = p]
  <2>5. h \in Handler
    BY <2>1, <2>2b, <2>4 DEF Handler, NewPC, Vips
  <2>6. h.pc = pc /\ h.swarm = swarm /\ h.vip = vip /\ h.port = p /\ h.node = ap[a].node
    BY <2>4 DEF Handler
  <2>7. ap'[a] = h /\ \A b \in APs \ {a} : ap'[b] = ap[b]
    BY <2>2a, <2>2b DEF TypeOK
  <2>8. ap' \in [APs -> Handler]
    BY <2>2a, <2>2b, <2>5 DEF TypeOK
  <2> HIDE DEF h
  <2>9. HandlerOK(a)'
    BY <2>1, <2>2a, <2>2b, <2>3, <2>6, <2>7 DEF HandlerOK, SwitchPC
  <2>10. tunnel' \in [APs -> [Nodes -> PortOrNull]]
    BY <2>2a, <2>2b, <2>4 DEF TypeOK
  <2>11. TypeOK'
    BY <1>13, <2>8, <2>10 DEF ReadArt, TypeOK, tables, switches, radio, nodes, bounds
  <2>12. connected' = connected /\ inbox' = inbox /\ co' = co
    BY <1>13 DEF ReadArt, nodes
  <2>13. QED
    BY <2>1, <2>7, <2>9, <2>11, <2>12, APFrame
<1>14. CASE GetHostId(a)
  <2>1. ap[a].pc = "hostid" /\ ap[a].node \in Nodes /\ ap[a].port \in Ports /\ ap[a].swarm = 1
    BY <1>14 DEF GetHostId, HandlerOK
  <2>2. PICK v \in NextIds(ap[a].node) : ap' = [ap EXCEPT ![a].pc = "send", ![a].vip = v]
    BY <1>14 DEF GetHostId
  <2>3. v \in HostIds
    BY <2>1 DEF NextIds, TypeOK, SwarmRow
  <2>4. ap[a] \in Handler
    BY DEF TypeOK
  <2> DEFINE h == [ap[a] EXCEPT !.pc = "send", !.vip = v]
  <2>5. h \in Handler
    BY <2>3, <2>4 DEF Handler, NewPC, Vips
  <2>6. h.pc = "send" /\ h.vip = v /\ h.node = ap[a].node /\ h.port = ap[a].port /\ h.swarm = 1
    BY <2>1, <2>4 DEF Handler
  <2>7. ap'[a] = h /\ \A b \in APs \ {a} : ap'[b] = ap[b]
    BY <2>2 DEF TypeOK
  <2>8. ap' \in [APs -> Handler]
    BY <2>2, <2>5 DEF TypeOK
  <2> HIDE DEF h
  <2>9. HandlerOK(a)'
    BY <2>1, <2>3, <2>6, <2>7 DEF HandlerOK, SwitchPC
  <2>10. UNCHANGED <<tables, co, apLocals, switches, radio, nodes, disturbed, bounds>>
    BY <1>14 DEF GetHostId
  <2>11. TypeOK'
    BY <2>8, <2>10 DEF TypeOK, tables, apLocals, switches, radio, nodes, bounds
  <2>12. QED
    BY <2>1, <2>7, <2>9, <2>10, <2>11, APFrame DEF apLocals, nodes
<1>15. CASE RegisterInArt(a)
  <2>1. EnterStation(a)
    BY <1>15 DEF RegisterInArt
  <2>2. art' \in [Nodes -> ArtRow \cup {None}]
    BY <1>15, <2>1, EnterStationType DEF RegisterInArt, TypeOK
  <2>3. TypeOK'
    BY <1>15, <2>1, <2>2, EnterStationType
       DEF RegisterInArt, TypeOK, switches, radio, nodes, bounds
  <2>4. inbox' = inbox /\ co' = co
    BY <1>15 DEF RegisterInArt, nodes
  <2>5. QED
    BY <2>1, <2>3, <2>4, EnterStationType, APFrame
<1>16. CASE RegisterInSwarm(a)
  <2>1. ap[a].pc = "swarmrow" /\ ap[a].node \in Nodes /\ ap' = [ap EXCEPT ![a].pc = "dump"]
    BY <1>16 DEF RegisterInSwarm, Step, HandlerOK
  <2>2. /\ ap' \in [APs -> Handler]
        /\ ap'[a].pc = "dump" /\ ap'[a].node = ap[a].node /\ ap'[a].swarm = ap[a].swarm
        /\ ap'[a].vip = ap[a].vip /\ ap'[a].port = ap[a].port
        /\ \A b \in APs \ {a} : ap'[b] = ap[b]
    BY <2>1, PCUpdate DEF PCs, NewPC, DelPC, SwitchPC
  <2>3. connected' = connected /\ inbox' = inbox /\ co' = co
    BY <1>16 DEF RegisterInSwarm, apLocals, nodes
  <2>4. HandlerOK(a)'
    BY <2>1, <2>2, <2>3 DEF HandlerOK, SwitchPC
  <2>5. swarmTable' \in [Nodes -> SwarmRow \cup {None}]
    <3>1. ap[a].vip \in HostIds
      BY <2>1 DEF HandlerOK
    <3>2. [hid |-> ap[a].vip, ap |-> a] \in SwarmRow
      BY <3>1 DEF SwarmRow
    <3>3. QED
      BY <1>16, <3>2 DEF RegisterInSwarm, TypeOK
  <2>6. TypeOK'
    BY <1>16, <2>2, <2>5 DEF RegisterInSwarm, TypeOK, tables, apLocals, switches, radio, nodes, bounds
  <2>7. QED
    BY <2>1, <2>2, <2>3, <2>4, <2>6, APFrame
<1>17. CASE UpdatePorts(a)
  <2>1. ap[a].pc = "ports" /\ ap[a].node \in Nodes /\ ap' = [ap EXCEPT ![a].pc = "replicate"]
    BY <1>17 DEF UpdatePorts, Step, HandlerOK
  <2>2. /\ ap' \in [APs -> Handler]
        /\ ap'[a].pc = "replicate" /\ ap'[a].node = ap[a].node /\ ap'[a].swarm = ap[a].swarm
        /\ ap'[a].vip = ap[a].vip /\ ap'[a].port = ap[a].port
        /\ \A b \in APs \ {a} : ap'[b] = ap[b]
    BY <2>1, PCUpdate DEF PCs, NewPC, DelPC, SwitchPC
  <2>3. connected' = connected /\ inbox' = inbox /\ co' = co
    BY <1>17 DEF UpdatePorts, apLocals, nodes
  <2>4. HandlerOK(a)'
    BY <2>1, <2>2, <2>3 DEF HandlerOK, SwitchPC
  <2>5. /\ mcast' \in [APs -> SUBSET PortOrNull]
        /\ lpm' \in [APs -> [Vips -> PortOrNull \cup APs \cup {None}]]
    <3>1. ap[a].port \in PortOrNull /\ ap[a].dump \in SUBSET PortOrNull
      BY DEF TypeOK, Handler
    <3>2. QED
      BY <1>17, <3>1, SwitchUpdate DEF UpdatePorts
  <2>6. TypeOK'
    BY <1>17, <2>2, <2>5 DEF UpdatePorts, TypeOK, tables, apLocals, switches, radio, nodes, bounds
  <2>7. QED
    BY <2>1, <2>2, <2>3, <2>4, <2>6, APFrame
<1>18. CASE DeleteEntries(a)
  <2>1. ap[a].pc = "delentries" /\ ap[a].node \in Nodes /\ ap' = [ap EXCEPT ![a].pc = "deldump"]
    BY <1>18 DEF DeleteEntries, Step, HandlerOK
  <2>2. /\ ap' \in [APs -> Handler]
        /\ ap'[a].pc = "deldump" /\ ap'[a].node = ap[a].node /\ ap'[a].swarm = ap[a].swarm
        /\ ap'[a].vip = ap[a].vip /\ ap'[a].port = ap[a].port
        /\ \A b \in APs \ {a} : ap'[b] = ap[b]
    BY <2>1, PCUpdate DEF PCs, NewPC, DelPC, SwitchPC
  <2>3. connected' = connected /\ inbox' = inbox /\ co' = co
    BY <1>18 DEF DeleteEntries, apLocals, nodes
  <2>4. HandlerOK(a)'
    BY <2>1, <2>2, <2>3 DEF HandlerOK, SwitchPC
  <2>5. lpm' \in [APs -> [Vips -> PortOrNull \cup APs \cup {None}]]
    BY <1>18 DEF DeleteEntries, TypeOK
  <2>6. TypeOK'
    BY <1>18, <2>2, <2>5 DEF DeleteEntries, TypeOK, tables, apLocals, switches, radio, nodes, bounds
  <2>7. QED
    BY <2>1, <2>2, <2>3, <2>4, <2>6, APFrame
<1>19. CASE DeletePort(a)
  <2>1. ap[a].pc = "delports" /\ ap[a].node \in Nodes /\ ap' = [ap EXCEPT ![a].pc = "delart"]
    BY <1>19 DEF DeletePort, Step, HandlerOK
  <2>2. /\ ap' \in [APs -> Handler]
        /\ ap'[a].pc = "delart" /\ ap'[a].node = ap[a].node /\ ap'[a].swarm = ap[a].swarm
        /\ ap'[a].vip = ap[a].vip /\ ap'[a].port = ap[a].port
        /\ \A b \in APs \ {a} : ap'[b] = ap[b]
    BY <2>1, PCUpdate DEF PCs, NewPC, DelPC, SwitchPC
  <2>3. connected' = connected /\ inbox' = inbox /\ co' = co
    BY <1>19 DEF DeletePort, apLocals, nodes
  <2>4. HandlerOK(a)'
    BY <2>1, <2>2, <2>3 DEF HandlerOK, SwitchPC
  <2>5. mcast' \in [APs -> SUBSET PortOrNull]
    <3>1. ap[a].bcast \in PortOrNull /\ ap[a].dump \in SUBSET PortOrNull
      BY DEF TypeOK, Handler
    <3>2. QED
      BY <1>19, <3>1, SwitchUpdate DEF DeletePort, TypeOK
  <2>6. TypeOK'
    BY <1>19, <2>2, <2>5 DEF DeletePort, TypeOK, tables, apLocals, switches, radio, nodes, bounds
  <2>7. QED
    BY <2>1, <2>2, <2>3, <2>4, <2>6, APFrame
<1>20. CASE DeleteFromArt(a)
  <2>1. ap[a].pc = "delart" /\ ap[a].node \in Nodes /\ ap' = [ap EXCEPT ![a].pc = "delswarm"]
    BY <1>20 DEF DeleteFromArt, Step, HandlerOK
  <2>2. /\ ap' \in [APs -> Handler]
        /\ ap'[a].pc = "delswarm" /\ ap'[a].node = ap[a].node /\ ap'[a].swarm = ap[a].swarm
        /\ ap'[a].vip = ap[a].vip /\ ap'[a].port = ap[a].port
        /\ \A b \in APs \ {a} : ap'[b] = ap[b]
    BY <2>1, PCUpdate DEF PCs, NewPC, DelPC, SwitchPC
  <2>3. connected' = connected /\ inbox' = inbox /\ co' = co
    BY <1>20 DEF DeleteFromArt, apLocals, nodes
  <2>4. HandlerOK(a)'
    BY <2>1, <2>2, <2>3 DEF HandlerOK, SwitchPC
  <2>5. art' \in [Nodes -> ArtRow \cup {None}]
    BY <1>20 DEF DeleteFromArt, TypeOK
  <2>6. TypeOK'
    BY <1>20, <2>2, <2>5 DEF DeleteFromArt, TypeOK, tables, apLocals, switches, radio, nodes, bounds
  <2>7. QED
    BY <2>1, <2>2, <2>3, <2>4, <2>6, APFrame
<1>21. CASE DumpPorts(a)
  <2>1. /\ ap[a].pc = "dump" /\ ap[a].node \in Nodes
        /\ ap' = [ap EXCEPT ![a].pc = "ports", ![a].dump = mcast[a]]
    BY <1>21 DEF DumpPorts, HandlerOK
  <2>2. ap[a] \in Handler /\ mcast[a] \in SUBSET PortOrNull
    BY DEF TypeOK
  <2> DEFINE h == [ap[a] EXCEPT !.pc = "ports", !.dump = mcast[a]]
  <2>3. h \in Handler
    BY <2>2 DEF Handler, SwitchPC, DelPC
  <2>4. h.pc = "ports" /\ h.vip = ap[a].vip /\ h.node = ap[a].node /\ h.port = ap[a].port
        /\ h.swarm = ap[a].swarm
    BY <2>2 DEF Handler
  <2>5. ap'[a] = h /\ \A b \in APs \ {a} : ap'[b] = ap[b]
    BY <2>1 DEF TypeOK
  <2>6. ap' \in [APs -> Handler]
    BY <2>1, <2>3 DEF TypeOK
  <2> HIDE DEF h
  <2>7. HandlerOK(a)'
    BY <2>1, <2>4, <2>5 DEF HandlerOK, SwitchPC
  <2>8. UNCHANGED <<tables, co, apLocals, switches, radio, nodes, disturbed, bounds>>
    BY <1>21 DEF DumpPorts
  <2>9. TypeOK'
    BY <2>6, <2>8 DEF TypeOK, tables, apLocals, switches, radio, nodes, bounds
  <2>10. QED
    BY <2>1, <2>5, <2>7, <2>8, <2>9, APFrame DEF apLocals, nodes
<1>22. CASE DumpPortsToDelete(a)
  <2>1. /\ ap[a].pc = "deldump" /\ ap[a].node \in Nodes
        /\ ap' = [ap EXCEPT ![a].pc = "delports", ![a].dump = mcast[a]]
    BY <1>22 DEF DumpPortsToDelete, HandlerOK
  <2>2. ap[a] \in Handler /\ mcast[a] \in SUBSET PortOrNull
    BY DEF TypeOK
  <2> DEFINE h == [ap[a] EXCEPT !.pc = "delports", !.dump = mcast[a]]
  <2>3. h \in Handler
    BY <2>2 DEF Handler, SwitchPC, DelPC
  <2>4. h.pc = "delports" /\ h.vip = ap[a].vip /\ h.node = ap[a].node /\ h.port = ap[a].port
        /\ h.swarm = ap[a].swarm
    BY <2>2 DEF Handler
  <2>5. ap'[a] = h /\ \A b \in APs \ {a} : ap'[b] = ap[b]
    BY <2>1 DEF TypeOK
  <2>6. ap' \in [APs -> Handler]
    BY <2>1, <2>3 DEF TypeOK
  <2> HIDE DEF h
  <2>7. HandlerOK(a)'
    BY <2>1, <2>4, <2>5 DEF HandlerOK, SwitchPC
  <2>8. UNCHANGED <<tables, co, apLocals, switches, radio, nodes, disturbed, bounds>>
    BY <1>22 DEF DumpPortsToDelete
  <2>9. TypeOK'
    BY <2>6, <2>8 DEF TypeOK, tables, apLocals, switches, radio, nodes, bounds
  <2>10. QED
    BY <2>1, <2>5, <2>7, <2>8, <2>9, APFrame DEF apLocals, nodes
<1>23. CASE ReplicateEntries(a)
  <2>1. ap' = [ap EXCEPT ![a] = IdleHandler]
    BY <1>23 DEF ReplicateEntries, Finish
  <2>2. /\ ap' \in [APs -> Handler] /\ HandlerOK(a)'
        /\ \A b \in APs \ {a} : ap'[b] = ap[b]
    BY <2>1, IdleUpdate
  <2> DEFINE hop == [b \in APs |-> IF ap[a].swarm = 0 THEN b ELSE a]
             others == Replicated(a, ap[a].vip, hop)
  <2>3. others \in [APs -> [Vips -> PortOrNull \cup APs \cup {None}]]
    BY ReplicatedType
  <2>4. ap[a].port \in PortOrNull
    BY DEF TypeOK, Handler
  <2>5. lpm' = IF ap[a].swarm = 0 THEN [others EXCEPT ![a][ap[a].vip] = ap[a].port]
                                 ELSE others
    BY <1>23 DEF ReplicateEntries
  <2> HIDE DEF others
  <2>6. lpm' \in [APs -> [Vips -> PortOrNull \cup APs \cup {None}]]
    BY <2>3, <2>4, <2>5
  <2>7. TypeOK'
    BY <1>23, <2>2, <2>6 DEF ReplicateEntries, TypeOK, tables, apLocals, radio, nodes, bounds
  <2>8. ap[a].pc # "await" /\ connected' = connected /\ inbox' = inbox /\ co' = co
    BY <1>23 DEF ReplicateEntries, apLocals, nodes
  <2>9. QED
    BY <2>2, <2>7, <2>8, APFrame
<1>24. CASE DeleteFromSwarm(a)
  <2>1. DeleteTunnel(a)
    BY <1>24 DEF DeleteFromSwarm
  <2>2. swarmTable' \in [Nodes -> SwarmRow \cup {None}]
    BY <1>24 DEF DeleteFromSwarm, TypeOK
  <2>3. TypeOK'
    BY <1>24, <2>1, <2>2, DeleteTunnelType
       DEF DeleteFromSwarm, TypeOK, switches, radio, nodes, bounds
  <2>4. connected' = connected /\ inbox' = inbox /\ co' = co
    BY <1>24 DEF DeleteFromSwarm, nodes
  <2>5. QED
    BY <2>1, <2>3, <2>4, DeleteTunnelType, APFrame
<1>25. CASE RemoveStation(a)
  <2> DEFINE n == ap[a].node
  <2>1. /\ ap[a].pc = "reread" /\ n \in Nodes /\ connected[a][n] # None
        /\ art[n] # None
    BY <1>25 DEF RemoveStation, HandlerOK, RegisteredAt
  <2>2. /\ connected[a][n].vip \in Vips /\ connected[a][n].port \in PortOrNull
        /\ art[n].port \in PortOrNull
    <3>1. connected[a][n] \in Station /\ art[n] \in ArtRow
      BY <2>1 DEF TypeOK
    <3>2. QED
      BY <3>1, ConstantsOK DEF Station, ArtRow, Ports, PortOrNull
  <2>3. ap[a] \in Handler
    BY DEF TypeOK
  <2> DEFINE h == [ap[a] EXCEPT !.pc = "delentries", !.vip = connected[a][n].vip,
                                !.port = connected[a][n].port, !.bcast = art[n].port]
  <2>4. h \in Handler /\ h.pc = "delentries" /\ h.node = n
    BY <2>2, <2>3 DEF Handler, DelPC
  <2>5. ap' = [ap EXCEPT ![a] = h]
    BY <1>25 DEF RemoveStation, TypeOK
  <2> HIDE DEF h
  <2>6. ap' \in [APs -> Handler] /\ ap'[a] = h /\ \A b \in APs \ {a} : ap'[b] = ap[b]
    BY <2>4, <2>5 DEF TypeOK
  <2>7. HandlerOK(a)'
    BY <2>1, <2>4, <2>6 DEF HandlerOK, SwitchPC
  <2>8. /\ connected' \in [APs -> [Nodes -> Station \cup {None}]]
        /\ \A b \in APs \ {a} : connected'[b] = connected[b]
    BY <1>25 DEF RemoveStation, TypeOK
  <2>9. TypeOK'
    BY <1>25, <2>6, <2>8 DEF RemoveStation, TypeOK, tables, switches, radio, nodes, bounds
  <2>10. inbox' = inbox /\ co' = co
    BY <1>25 DEF RemoveStation, nodes
  <2>11. QED
    BY <2>1, <2>6, <2>7, <2>8, <2>9, <2>10, APFrame
<1>26. QED
  BY <1>1, <1>2, <1>3, <1>4, <1>5, <1>6, <1>7, <1>8, <1>9, <1>10, <1>11, <1>12, <1>13, <1>14, <1>15, <1>16, <1>17, <1>18, <1>19, <1>20, <1>21, <1>22, <1>23, <1>24, <1>25 DEF APStep

-------------------------------------------------------------------------------
(* Type correctness: messages.                                             *)

\* A message that nobody waits for disturbs no other message.
LEMMA AppendMessage ==
    ASSUME TypeInv, NEW n \in Nodes, NEW m \in Message, ~m.open,
           m.type = "SET_CONFIG" /\ m.port # 0 => m.from \in APs,
           Deliver(n, m), ap' = ap
    PROVE  inbox' \in [Nodes -> Seq(Message)] /\ \A k \in Nodes : MessageOK(k)'
<1>1. inbox[n] \in Seq(Message) /\ inbox \in [Nodes -> Seq(Message)]
  BY DEF TypeInv, TypeOK
<1>2. /\ inbox'[n] = Append(inbox[n], m)
      /\ \A k \in Nodes \ {n} : inbox'[k] = inbox[k]
      /\ inbox' \in [Nodes -> Seq(Message)]
  BY <1>1 DEF Deliver
<1>3. MessageOK(n)'
  <2> SUFFICES ASSUME NEW i \in DOMAIN inbox'[n]
               PROVE  /\ inbox'[n][i].open => Awaited(n, inbox[n][i].from)'
                      /\ inbox'[n][i].type = "SET_CONFIG" /\ inbox'[n][i].port # 0
                            => inbox'[n][i].from \in APs
                      /\ \A j \in DOMAIN inbox'[n] :
                            inbox'[n][i].open /\ inbox'[n][j].open
                            /\ inbox'[n][i].from = inbox'[n][j].from => i = j
    BY DEF MessageOK
  <2>1. \A j \in DOMAIN inbox'[n] :
           \/ j \in DOMAIN inbox[n] /\ inbox'[n][j] = inbox[n][j]
           \/ inbox'[n][j] = m
    BY <1>1, <1>2
  <2>2. MessageOK(n)
    BY DEF TypeInv
  <2>3. QED
    BY <2>1, <2>2 DEF MessageOK, Awaited
<1>4. ASSUME NEW k \in Nodes \ {n}
      PROVE  MessageOK(k)'
  <2>1. MessageOK(k)
    BY DEF TypeInv
  <2>2. QED
    BY <1>2, <2>1 DEF MessageOK, Awaited
<1>5. QED
  BY <1>2, <1>3, <1>4

\* Closing a socket changes who waits, and nothing else.
LEMMA CloseType ==
    ASSUME NEW a, NEW s \in Seq(Message)
    PROVE  /\ Close(a, s) \in Seq(Message)
           /\ DOMAIN Close(a, s) = DOMAIN s
           /\ \A i \in DOMAIN s :
                 /\ Close(a, s)[i].from = s[i].from
                 /\ Close(a, s)[i].type = s[i].type
                 /\ Close(a, s)[i].port = s[i].port
                 /\ Close(a, s)[i].open <=> s[i].open /\ s[i].from # a
<1>1. \A i \in DOMAIN s : s[i] \in Message
  OBVIOUS
<1> DEFINE closed(m) == IF m.from = a THEN [m EXCEPT !.open = FALSE] ELSE m
<1>2. ASSUME NEW m \in Message
      PROVE  /\ closed(m) \in Message
             /\ closed(m).from = m.from /\ closed(m).type = m.type
             /\ closed(m).port = m.port
             /\ closed(m).open <=> m.open /\ m.from # a
  BY DEF Message
<1>3. Close(a, s) = [i \in DOMAIN s |-> closed(s[i])]
  BY DEF Close
<1> HIDE DEF closed
<1>4. Close(a, s) \in [1..Len(s) -> Message]
  BY <1>1, <1>2, <1>3
<1>5. Close(a, s) \in Seq(Message)
  BY <1>4
<1>6. QED
  BY <1>1, <1>2, <1>3, <1>5

\* The message an AP manager sends is the only one that waits for its answer.
LEMMA SendConfigTypeInv ==
    ASSUME TypeInv, NEW a \in APs, SendConfig(a)
    PROVE  TypeInv'
<1>0. PICK n \in Nodes : n = ap[a].node
  BY DEF SendConfig, Step, HandlerOK, TypeInv
<1>00. PICK m : m = FromAP(a, ap[a])
  OBVIOUS
<1>1. /\ ap[a].pc = "send" /\ ap[a].port \in Ports
      /\ ap[a].vip \in IF ap[a].swarm = 0 THEN Nodes ELSE HostIds
      /\ TypeOK
  BY DEF SendConfig, Step, HandlerOK, TypeInv
<1>2. m \in Message /\ m.from = a
  BY <1>00, <1>1, ConstantsOK DEF FromAP, Message, Vips, Ports, PortOrNull
<1>3. ap' = [ap EXCEPT ![a].pc = "await"]
  BY DEF SendConfig, Step
<1>4. /\ ap' \in [APs -> Handler]
      /\ ap'[a].pc = "await" /\ ap'[a].node = n /\ ap'[a].swarm = ap[a].swarm
      /\ ap'[a].vip = ap[a].vip /\ ap'[a].port = ap[a].port
      /\ \A b \in APs \ {a} : ap'[b] = ap[b]
  BY <1>0, <1>1, <1>3, PCUpdate DEF PCs, NewPC
<1>5. inbox[n] \in Seq(Message) /\ inbox \in [Nodes -> Seq(Message)]
  BY <1>1 DEF TypeOK
<1>6. /\ inbox'[n] = Append(inbox[n], m)
      /\ \A k \in Nodes \ {n} : inbox'[k] = inbox[k]
      /\ inbox' \in [Nodes -> Seq(Message)]
  <2>1. inbox' = [inbox EXCEPT ![n] = Append(@, m)]
    BY <1>0, <1>00 DEF SendConfig, Deliver
  <2>2. Append(inbox[n], m) \in Seq(Message)
    BY <1>2, <1>5
  <2>3. QED
    BY <1>5, <2>1, <2>2
<1>7. TypeOK'
  BY <1>1, <1>4, <1>6
     DEF SendConfig, TypeOK, tables, apLocals, switches, radio, bounds
<1>8. connected' = connected /\ co' = co
  BY DEF SendConfig, apLocals
<1>9. \A b \in APs : HandlerOK(b)'
  BY <1>1, <1>4, <1>8 DEF HandlerOK, TypeInv, SwitchPC
<1>10. \A k \in Nodes : \A i \in DOMAIN inbox[k] :
         inbox[k][i].open => inbox[k][i].from # a
  BY <1>0, <1>1 DEF TypeInv, MessageOK, Awaited
<1>11. ASSUME NEW k \in Nodes \ {n}
       PROVE  MessageOK(k)'
  <2>1. MessageOK(k)
    BY DEF TypeInv
  <2>2. QED
    BY <1>4, <1>6, <1>10, <2>1 DEF MessageOK, Awaited
<1>12. MessageOK(n)'
  <2>1. MessageOK(n)
    BY <1>1 DEF TypeInv
  <2>2. \A j \in DOMAIN inbox'[n] :
           \/ j \in DOMAIN inbox[n] /\ inbox'[n][j] = inbox[n][j]
           \/ j = Len(inbox[n]) + 1 /\ inbox'[n][j] = m
    BY <1>5, <1>6
  <2>3. Awaited(n, a)'
    BY <1>4 DEF Awaited
  <2>4. \A b \in APs \ {a} : Awaited(n, b) => Awaited(n, b)'
    BY <1>4 DEF Awaited
  <2>5. ASSUME NEW i \in DOMAIN inbox'[n], inbox'[n][i].open
        PROVE  Awaited(n, inbox[n][i].from)'
    <3>1. CASE inbox'[n][i] = m
      BY <1>2, <2>3, <3>1 DEF Awaited
    <3>2. CASE i \in DOMAIN inbox[n] /\ inbox'[n][i] = inbox[n][i]
      BY <1>10, <2>1, <2>4, <2>5, <3>2 DEF MessageOK, Awaited
    <3>3. QED
      BY <2>2, <3>1, <3>2
  <2>6. ASSUME NEW i \in DOMAIN inbox'[n],
               inbox'[n][i].type = "SET_CONFIG", inbox'[n][i].port # 0
        PROVE  inbox'[n][i].from \in APs
    BY <1>2, <2>1, <2>2, <2>6 DEF MessageOK
  <2>7. ASSUME NEW i \in DOMAIN inbox'[n], NEW j \in DOMAIN inbox'[n],
               inbox'[n][i].open, inbox'[n][j].open,
               inbox'[n][i].from = inbox'[n][j].from
        PROVE  i = j
    BY <1>2, <1>10, <2>1, <2>2, <2>7 DEF MessageOK
  <2>8. QED
    BY <2>5, <2>6, <2>7 DEF MessageOK
<1>13. TasksOK'
  BY <1>8 DEF TypeInv, TasksOK
<1>14. QED
  BY <1>7, <1>9, <1>11, <1>12, <1>13 DEF TypeInv

\* A manager that stops waiting leaves no open message: at the time out it has
\* one, in the inbox of its node.
LEMMA StopsWaiting ==
    ASSUME TypeInv, NEW a \in APs, TypeOK', HandlerOK(a)', co' = co,
           \A b \in APs \ {a} : ap'[b] = ap[b] /\ connected'[b] = connected[b],
           \A k \in Nodes : \/ inbox'[k] = Close(a, inbox[k])
                            \/ inbox'[k] = inbox[k] /\ k # ap[a].node
    PROVE  TypeInv'
<1>1. \A b \in APs : HandlerOK(b)'
  BY DEF HandlerOK, TypeInv
<1>2. ASSUME NEW k \in Nodes
      PROVE  MessageOK(k)'
  <2>1. MessageOK(k) /\ inbox[k] \in Seq(Message)
    BY DEF TypeInv, TypeOK
  <2>2. /\ DOMAIN inbox'[k] = DOMAIN inbox[k]
        /\ \A i \in DOMAIN inbox[k] :
              /\ inbox'[k][i].from = inbox[k][i].from
              /\ inbox'[k][i].type = inbox[k][i].type
              /\ inbox'[k][i].port = inbox[k][i].port
              /\ inbox'[k][i].open => inbox[k][i].open /\ inbox[k][i].from # a
    <3>1. CASE inbox'[k] = Close(a, inbox[k])
      BY <2>1, <3>1, CloseType
    <3>2. CASE inbox'[k] = inbox[k] /\ k # ap[a].node
      BY <2>1, <3>2 DEF MessageOK, Awaited
    <3>3. QED
      BY <3>1, <3>2
  <2>3. QED
    BY <2>1, <2>2 DEF MessageOK, Awaited
<1>3. TasksOK'
  BY DEF TypeInv, TasksOK
<1>4. QED
  BY <1>1, <1>2, <1>3 DEF TypeInv

\* After the timeout nobody waits for the answer any more.
LEMMA ConfigTimeoutTypeInv ==
    ASSUME TypeInv, NEW a \in APs, ConfigTimeout(a)
    PROVE  TypeInv'
<1>0. PICK n \in Nodes : n = ap[a].node
  BY DEF ConfigTimeout, HandlerOK, TypeInv
<1>1. ap[a].pc = "await" /\ TypeOK
  BY DEF ConfigTimeout, HandlerOK, TypeInv
<1>2. /\ ap' \in [APs -> Handler] /\ HandlerOK(a)'
      /\ \A b \in APs \ {a} : ap'[b] = ap[b]
  BY <1>1, IdleUpdate DEF ConfigTimeout, Finish
<1>3. inbox[n] \in Seq(Message) /\ inbox \in [Nodes -> Seq(Message)]
  BY <1>1 DEF TypeOK
<1>4. /\ inbox' \in [Nodes -> Seq(Message)]
      /\ inbox'[n] = Close(a, inbox[n])
      /\ \A k \in Nodes \ {n} : inbox'[k] = inbox[k]
  <2>1. inbox' = [inbox EXCEPT ![n] = Close(a, inbox[n])]
    BY <1>0 DEF ConfigTimeout
  <2>2. Close(a, inbox[n]) \in Seq(Message)
    BY <1>3, CloseType
  <2>3. QED
    BY <1>3, <2>1, <2>2
<1>5. TypeOK'
  BY <1>1, <1>2, <1>4
     DEF ConfigTimeout, TypeOK, tables, apLocals, switches, radio, bounds
<1>6. connected' = connected /\ co' = co
  BY DEF ConfigTimeout, apLocals
<1>7. QED
  BY <1>0, <1>2, <1>4, <1>5, <1>6, StopsWaiting

\* A restarted AP manager has no handler, and its sockets are closed.
LEMMA RestartAPTypeInv ==
    ASSUME TypeInv, NEW a \in APs, RestartAPManager(a)
    PROVE  TypeInv'
<1>1. TypeOK
  BY DEF TypeInv
<1>2. /\ ap' \in [APs -> Handler] /\ HandlerOK(a)'
      /\ \A b \in APs \ {a} : ap'[b] = ap[b]
  BY <1>1, IdleUpdate DEF RestartAPManager, Finish
<1>3. inbox' \in [Nodes -> Seq(Message)] /\ \A k \in Nodes : inbox'[k] = Close(a, inbox[k])
  BY <1>1, CloseType DEF RestartAPManager, TypeOK
<1>4. /\ connected' \in [APs -> [Nodes -> Station \cup {None}]]
      /\ \A b \in APs \ {a} : connected'[b] = connected[b]
      /\ lastLine' \in [APs -> Event \cup {None}]
      /\ events' \in [APs -> Seq(Event)]
      /\ mcast' \in [APs -> SUBSET PortOrNull]
      /\ lpm' \in [APs -> [Vips -> PortOrNull \cup APs \cup {None}]]
  BY <1>1 DEF RestartAPManager, TypeOK
<1>5. disturbed' \subseteq Nodes /\ restarts' \in Nat
  BY <1>1 DEF RestartAPManager, CutShort, TypeOK
<1>6. TypeOK'
  BY <1>1, <1>2, <1>3, <1>4, <1>5 DEF RestartAPManager, TypeOK, tables
<1>7. co' = co
  BY DEF RestartAPManager
<1>8. QED
  BY <1>2, <1>3, <1>4, <1>6, <1>7, StopsWaiting

-------------------------------------------------------------------------------
(* Type correctness: the coordinator, the nodes and the environment.       *)

\* A step of the coordinator that sends nothing.
LEMMA CoFrame ==
    ASSUME TypeInv, TypeOK', TasksOK', ap' = ap, connected' = connected,
           inbox' = inbox
    PROVE  TypeInv'
<1>1. \A b \in APs : HandlerOK(b)'
  BY DEF HandlerOK, TypeInv
<1>2. \A n \in Nodes : MessageOK(n)'
  BY DEF MessageOK, Awaited, TypeInv
<1>3. QED
  BY <1>1, <1>2 DEF TypeInv

CoPCs == {"idle", "ids", "task", "swarmrow", "artrow", "dump", "ports", "replicate"}

\* The coordinator's program counter moves while it has a task.
LEMMA CoPCUpdate ==
    ASSUME TypeInv, NEW from \in CoPCs \ {"idle", "ids", "task"},
           NEW to \in CoPCs \ {"idle", "ids", "task"}, CoStep(from, to)
    PROVE  co' \in Coordinator /\ TasksOK'
<1>1. co \in Coordinator
  BY DEF TypeInv, TypeOK
<1>2. co' = [co EXCEPT !.pc = to] /\ co.pc = from
  BY DEF CoStep
<1>3. co' \in Coordinator
  BY <1>1, <1>2 DEF Coordinator, CoPCs
<1>4. co'.todo = co.todo /\ co'.pc = to
  BY <1>1, <1>2 DEF Coordinator
<1>5. QED
  BY <1>2, <1>3, <1>4 DEF TasksOK, TypeInv, CoPCs

\* The rest of a sequence of tasks.
LEMMA TailTasks ==
    ASSUME NEW s \in Seq(Task), s # <<>>
    PROVE  /\ Tail(s) \in Seq(Task) /\ Head(s) \in Task
           /\ Head(s) = s[1] /\ 1 \in DOMAIN s
           /\ \A i \in DOMAIN Tail(s) : i + 1 \in DOMAIN s /\ Tail(s)[i] = s[i + 1]
  OBVIOUS

\* The task the coordinator works on.
LEMMA HeadTask ==
    ASSUME TypeInv, co.pc \notin {"idle", "ids"}, co.todo # <<>>
    PROVE  LET t == Head(co.todo)
           IN t.node \in Nodes /\ t.ap \in APs /\ t.vip \in Vips
              /\ t.port \in PortOrNull /\ t.hid \in HostIds /\ t.hid \in Vips
<1>1. co.todo \in Seq(Task)
  BY DEF TypeInv, TypeOK, Coordinator
<1>2. Head(co.todo) \in Task /\ Head(co.todo) = co.todo[1] /\ 1 \in DOMAIN co.todo
  BY <1>1, TailTasks
<1>3. Head(co.todo).hid \in HostIds
  BY <1>2 DEF TypeInv, TasksOK
<1>4. QED
  BY <1>2, <1>3 DEF Task, Vips

\* The coordinator drops its first task.
LEMMA CoDropTask ==
    ASSUME TypeInv, co.pc \notin {"idle", "ids"}, co.todo # <<>>,
           co'.pc = "task", co'.todo = Tail(co.todo)
    PROVE  co'.todo \in Seq(Task) /\ TasksOK'
<1>1. co.todo \in Seq(Task)
  BY DEF TypeInv, TypeOK, Coordinator
<1>2. QED
  BY <1>1, TailTasks DEF TypeInv, TasksOK

\* The coordinator goes on to its next task.
LEMMA CoNextTask ==
    ASSUME TypeInv, co.pc \notin {"idle", "ids"}, co.todo # <<>>,
           NEW failed \in BOOLEAN, NextTask(failed)
    PROVE  co' \in Coordinator /\ TasksOK'
<1>1. co \in Coordinator
  BY DEF TypeInv, TypeOK
<1>2. /\ co'.pc = "task" /\ co'.todo = Tail(co.todo) /\ co'.dump = {}
      /\ co'.kind = co.kind /\ co'.avail = co.avail /\ co'.failed \in BOOLEAN
  BY <1>1 DEF NextTask, Coordinator
<1>3. co'.todo \in Seq(Task) /\ TasksOK'
  BY <1>2, CoDropTask
<1>4. co' = [pc |-> co'.pc, kind |-> co'.kind, todo |-> co'.todo,
             avail |-> co'.avail, failed |-> co'.failed, dump |-> co'.dump]
  BY <1>1 DEF NextTask, Coordinator
<1>5. QED
  BY <1>1, <1>2, <1>3, <1>4 DEF Coordinator

\* The coordinator closes the connection.
LEMMA CoIdle ==
    ASSUME CoFinish
    PROVE  co' \in Coordinator /\ TasksOK'
  BY DEF CoFinish, IdleCoordinator, Coordinator, TasksOK

\* What the least members of a set are members of.
LEMMA SmallestType ==
    ASSUME NEW S, NEW k \in Nat, NEW f \in Smallest(S, k)
    PROVE  f \in [1..k -> S]
  BY DEF Smallest

\* The batch query returns host ids only, the empty table included.
LEMMA BatchIdsType == BatchIds \subseteq HostIds
  BY ConstantsOK DEF BatchIds, HostIds

\* The ids of a batch are finitely many.
LEMMA BatchIdsFinite == IsFiniteSet(BatchIds) /\ Cardinality(BatchIds) \in Nat
<1>1. IsFiniteSet(HostIds)
  BY ConstantsOK, FS_Interval DEF HostIds
<1>2. IsFiniteSet(BatchIds)
  BY <1>1, BatchIdsType, FS_Subset
<1>3. QED
  BY <1>2, FS_CardinalityType

\* The request goes on with the first tasks, one for each of ids.
Numbers(ids) ==
    /\ co' \in Coordinator \/ Assigned(ids) \notin Seq(Task)
    /\ co'.pc = "task" /\ co'.todo = Assigned(ids)
    /\ co'.kind = co.kind /\ co'.avail = co.avail

\* These ids are the least of the batch, and never more than the tasks.
LEMMA Numbering ==
    ASSUME TypeInv, AssignHostIds \/ TooFewHostIds
    PROVE  /\ co.pc = "ids" /\ co.todo \in Seq(Task)
           /\ UNCHANGED <<tables, ap, apLocals, switches, radio, nodes, disturbed, bounds>>
           /\ \E k \in Nat : k <= Len(co.todo) /\ \E ids \in Smallest(BatchIds, k) : Numbers(ids)
<1>1. co \in Coordinator /\ co.todo \in Seq(Task) /\ Len(co.todo) \in Nat
  BY DEF TypeInv, TypeOK, Coordinator
<1>2. /\ co.pc = "ids"
      /\ UNCHANGED <<tables, ap, apLocals, switches, radio, nodes, disturbed, bounds>>
  BY DEF AssignHostIds, TooFewHostIds
<1>3. CASE AssignHostIds
  <2>1. PICK ids \in Smallest(BatchIds, Len(co.todo)) :
           co' = [co EXCEPT !.pc = "task", !.todo = Assigned(ids)]
    BY <1>3 DEF AssignHostIds
  <2>2. Numbers(ids)
    BY <1>1, <2>1 DEF Numbers, Coordinator
  <2>3. QED
    BY <1>1, <1>2, <2>2
<1>4. CASE TooFewHostIds
  <2>1. PICK ids \in Smallest(BatchIds, Cardinality(BatchIds)) :
           co' = [co EXCEPT !.pc = "task", !.todo = Assigned(ids), !.failed = TRUE]
    BY <1>4 DEF TooFewHostIds
  <2>2. Numbers(ids)
    BY <1>1, <2>1 DEF Numbers, Coordinator
  <2>3. Cardinality(BatchIds) < Len(co.todo)
    BY <1>4 DEF TooFewHostIds
  <2>4. Cardinality(BatchIds) <= Len(co.todo)
    BY <1>1, <2>3, BatchIdsFinite
  <2>5. QED
    BY <1>1, <1>2, <2>2, <2>4, BatchIdsFinite
<1>5. QED
  BY <1>3, <1>4

\* The coordinator keeps the invariant: one step per action.
LEMMA CoordinatorTypeInv ==
    ASSUME TypeInv, CoordinatorStep
    PROVE  TypeInv'
<1> DEFINE t == Head(co.todo)
<1>0. TypeOK /\ TasksOK /\ co \in Coordinator
  BY DEF TypeInv, TypeOK
<1>1. CASE AssignHostIds \/ TooFewHostIds
  <2>1. /\ co.todo \in Seq(Task) /\ co.pc = "ids"
        /\ UNCHANGED <<tables, ap, apLocals, switches, radio, nodes, disturbed, bounds>>
    BY <1>1, Numbering
  <2>2. PICK k \in Nat : k <= Len(co.todo) /\ \E ids \in Smallest(BatchIds, k) : Numbers(ids)
    BY <1>1, Numbering
  <2>3. PICK ids \in Smallest(BatchIds, k) : Numbers(ids)
    BY <2>2
  <2>4. ids \in [1..k -> HostIds] /\ \A i \in 1..k : co.todo[i] \in Task
    BY <2>1, <2>2, SmallestType, BatchIdsType
  <2>5. /\ DOMAIN Assigned(ids) = 1..k
        /\ \A i \in 1..k : Assigned(ids)[i] \in Task /\ Assigned(ids)[i].hid \in HostIds
    BY <2>4 DEF Assigned, Task
  <2>6. Assigned(ids) \in Seq(Task)
    <3>1. Assigned(ids) \in [1..k -> Task]
      BY <2>5 DEF Assigned
    <3>2. QED
      BY <3>1
  <2>7. co' \in Coordinator /\ co'.pc = "task" /\ co'.todo = Assigned(ids)
    BY <2>3, <2>6 DEF Numbers
  <2>8. TasksOK'
    BY <2>5, <2>7 DEF TasksOK
  <2>9. TypeOK'
    BY <1>0, <2>1, <2>7 DEF TypeOK, tables, apLocals, switches, radio, nodes, bounds
  <2>10. QED
    BY <2>1, <2>8, <2>9, CoFrame DEF apLocals, nodes
<1>2. CASE Answer \/ CloseUnanswered
  <2>1. co' \in Coordinator /\ TasksOK'
    BY <1>2, CoIdle DEF Answer, CloseUnanswered
  <2>2. UNCHANGED <<tables, ap, apLocals, switches, radio, nodes, disturbed, bounds>>
    BY <1>2 DEF Answer, CloseUnanswered
  <2>3. TypeOK'
    BY <1>0, <2>1, <2>2 DEF TypeOK, tables, apLocals, switches, radio, nodes, bounds
  <2>4. QED
    BY <2>1, <2>2, <2>3, CoFrame DEF apLocals, nodes
<1>3. CASE TaskFails
  <2>1. co.pc = "task" /\ co.todo # <<>>
    BY <1>3 DEF TaskFails
  <2>2. co' \in Coordinator /\ TasksOK'
    BY <1>3, <2>1, CoNextTask DEF TaskFails
  <2>3. UNCHANGED <<tables, ap, apLocals, switches, radio, nodes, disturbed, bounds>>
    BY <1>3 DEF TaskFails
  <2>4. TypeOK'
    BY <1>0, <2>2, <2>3 DEF TypeOK, tables, apLocals, switches, radio, nodes, bounds
  <2>5. QED
    BY <2>2, <2>3, <2>4, CoFrame DEF apLocals, nodes
<1>4. CASE SendJoinConfig
  <2>1. co.pc = "task" /\ co.todo # <<>> /\ t.hid \in Vips /\ t.node \in Nodes
    BY <1>4, HeadTask DEF SendJoinConfig
  <2>2. /\ JoinConfig(t) \in Message /\ ~JoinConfig(t).open
        /\ JoinConfig(t).port = 0
    BY <2>1, ConstantsOK DEF JoinConfig, Message, PortOrNull
  <2>3. PICK n \in Nodes : Deliver(n, JoinConfig(t))
    BY <1>4 DEF SendJoinConfig, ReachableAt
  <2>4. ap' = ap /\ connected' = connected
    BY <1>4 DEF SendJoinConfig, apLocals
  <2>5. inbox' \in [Nodes -> Seq(Message)] /\ \A k \in Nodes : MessageOK(k)'
    BY <2>2, <2>3, <2>4, AppendMessage
  <2>6. co' = [co EXCEPT !.pc = "swarmrow", !.avail = @ \cup {t.node}]
    BY <1>4 DEF SendJoinConfig
  <2>7. /\ co' \in Coordinator /\ co'.pc = "swarmrow" /\ co'.todo = co.todo
    BY <1>0, <2>1, <2>6 DEF Coordinator
  <2>8. TasksOK'
    BY <1>0, <2>1, <2>7 DEF TasksOK
  <2>9. TypeOK'
    BY <1>0, <1>4, <2>5, <2>7
       DEF SendJoinConfig, TypeOK, tables, apLocals, switches, radio, bounds
  <2>10. \A b \in APs : HandlerOK(b)'
    BY <2>4 DEF HandlerOK, TypeInv
  <2>11. QED
    BY <2>5, <2>8, <2>9, <2>10 DEF TypeInv
<1>5. CASE SendGoAway
  <2>1. co.pc = "task" /\ co.todo # <<>> /\ t.node \in Nodes
    BY <1>5, HeadTask DEF SendGoAway
  <2>2. GoAway \in Message /\ ~GoAway.open /\ GoAway.port = 0
    BY ConstantsOK DEF GoAway, Message, PortOrNull
  <2>3. PICK n \in Nodes : Deliver(n, GoAway)
    BY <1>5 DEF SendGoAway, ReachableAt
  <2>4. ap' = ap /\ connected' = connected
    BY <1>5 DEF SendGoAway, apLocals
  <2>5. inbox' \in [Nodes -> Seq(Message)] /\ \A k \in Nodes : MessageOK(k)'
    BY <2>2, <2>3, <2>4, AppendMessage
  <2>6. co' = [co EXCEPT !.todo = Tail(@), !.avail = @ \cup {t.node}]
    BY <1>5 DEF SendGoAway
  <2>7. co'.pc = "task" /\ co'.todo = Tail(co.todo)
    BY <1>0, <2>1, <2>6 DEF Coordinator
  <2>8. co'.todo \in Seq(Task) /\ TasksOK'
    BY <2>1, <2>7, CoDropTask
  <2>9. co' \in Coordinator
    BY <1>0, <2>1, <2>6, <2>7, <2>8 DEF Coordinator
  <2>10. TypeOK'
    BY <1>0, <1>5, <2>5, <2>9
       DEF SendGoAway, TypeOK, tables, apLocals, switches, radio, bounds
  <2>11. \A b \in APs : HandlerOK(b)'
    BY <2>4 DEF HandlerOK, TypeInv
  <2>12. QED
    BY <2>5, <2>8, <2>10, <2>11 DEF TypeInv
<1>6. CASE InsertSwarmRow
  <2>1. co.pc = "swarmrow" /\ co' \in Coordinator /\ TasksOK'
    BY <1>6, CoPCUpdate DEF InsertSwarmRow, CoStep, CoPCs
  <2>2. co.todo # <<>>
    BY <1>0, <2>1 DEF TasksOK
  <2>3. [hid |-> t.hid, ap |-> t.ap] \in SwarmRow
    BY <2>1, <2>2, HeadTask DEF SwarmRow
  <2>4. swarmTable' \in [Nodes -> SwarmRow \cup {None}]
    BY <1>0, <1>6, <2>3, RowUpdate DEF InsertSwarmRow
  <2>5. TypeOK'
    BY <1>0, <1>6, <2>1, <2>4
       DEF InsertSwarmRow, TypeOK, apLocals, switches, radio, nodes, bounds
  <2>6. QED
    BY <1>6, <2>1, <2>5, CoFrame DEF InsertSwarmRow, apLocals, nodes
<1>7. CASE UpdateArt
  <2>1. co.pc = "artrow" /\ co' \in Coordinator /\ TasksOK'
    BY <1>7, CoPCUpdate DEF UpdateArt, CoStep, CoPCs
  <2>2. co.todo # <<>>
    BY <1>0, <2>1 DEF TasksOK
  <2> DEFINE port == IF art[t.node] = None THEN 0 ELSE art[t.node].port
  <2>3. port \in PortOrNull
    <3>1. t.node \in Nodes
      BY <2>1, <2>2, HeadTask
    <3>2. art[t.node] # None => art[t.node] \in ArtRow
      BY <1>0, <3>1 DEF TypeOK
    <3>3. QED
      BY <3>2, ConstantsOK DEF ArtRow, PortOrNull
  <2> HIDE DEF port
  <2>4. [ap |-> t.ap, swarm |-> 1, vip |-> t.hid, port |-> port] \in ArtRow
    BY <2>1, <2>2, <2>3, HeadTask DEF ArtRow
  <2>5. art' = [art EXCEPT ![t.node] = [ap |-> t.ap, swarm |-> 1,
                                        vip |-> t.hid, port |-> port]]
    BY <1>7 DEF UpdateArt, port
  <2>6. art' \in [Nodes -> ArtRow \cup {None}]
    BY <1>0, <2>4, <2>5, RowUpdate
  <2>7. TypeOK'
    BY <1>0, <1>7, <2>1, <2>6
       DEF UpdateArt, TypeOK, apLocals, switches, radio, nodes, bounds
  <2>8. QED
    BY <1>7, <2>1, <2>7, CoFrame DEF UpdateArt, apLocals, nodes
<1>8. CASE CoDumpPorts
  <2>1. co.pc = "dump"
    BY <1>8 DEF CoDumpPorts
  <2>2. co.todo # <<>>
    BY <1>0, <2>1 DEF TasksOK
  <2>3. mcast[t.ap] \in SUBSET PortOrNull
    BY <1>0, <2>1, <2>2, HeadTask DEF TypeOK
  <2>4. co' = [co EXCEPT !.pc = "ports", !.dump = mcast[t.ap]]
    BY <1>8 DEF CoDumpPorts
  <2>5. co' \in Coordinator /\ co'.pc = "ports" /\ co'.todo = co.todo
    BY <1>0, <2>3, <2>4 DEF Coordinator
  <2>6. TasksOK'
    BY <1>0, <2>1, <2>2, <2>5 DEF TasksOK
  <2>7. UNCHANGED <<tables, ap, apLocals, switches, radio, nodes, disturbed, bounds>>
    BY <1>8 DEF CoDumpPorts
  <2>8. TypeOK'
    BY <1>0, <2>5, <2>7 DEF TypeOK, tables, apLocals, switches, radio, nodes, bounds
  <2>9. QED
    BY <2>6, <2>7, <2>8, CoFrame DEF apLocals, nodes
<1>9. CASE CoUpdatePorts
  <2>1. co.pc = "ports" /\ co' \in Coordinator /\ TasksOK'
    BY <1>9, CoPCUpdate DEF CoUpdatePorts, CoStep, CoPCs
  <2>2. co.todo # <<>>
    BY <1>0, <2>1 DEF TasksOK
  <2>3. t.port \in PortOrNull /\ co.dump \in SUBSET PortOrNull
    BY <1>0, <2>1, <2>2, HeadTask DEF Coordinator
  <2>4. /\ mcast' \in [APs -> SUBSET PortOrNull]
        /\ lpm' \in [APs -> [Vips -> PortOrNull \cup APs \cup {None}]]
    BY <1>0, <1>9, <2>3, SwitchUpdate DEF CoUpdatePorts
  <2>5. TypeOK'
    BY <1>0, <1>9, <2>1, <2>4
       DEF CoUpdatePorts, TypeOK, tables, apLocals, radio, nodes, bounds
  <2>6. QED
    BY <1>9, <2>1, <2>5, CoFrame DEF CoUpdatePorts, apLocals, nodes
<1>10. CASE CoReplicateEntries
  <2>1. co.pc = "replicate" /\ NextTask(FALSE)
    BY <1>10 DEF CoReplicateEntries
  <2>2. co.todo # <<>>
    BY <1>0, <2>1 DEF TasksOK
  <2>3. co' \in Coordinator /\ TasksOK'
    BY <2>1, <2>2, CoNextTask
  <2>4. lpm' \in [APs -> [Vips -> PortOrNull \cup APs \cup {None}]]
    BY <1>0, <1>10, ReplicatedType DEF CoReplicateEntries
  <2>5. TypeOK'
    BY <1>0, <1>10, <2>3, <2>4
       DEF CoReplicateEntries, TypeOK, tables, apLocals, radio, nodes, bounds
  <2>6. QED
    BY <1>10, <2>3, <2>5, CoFrame DEF CoReplicateEntries, apLocals, nodes
<1>11. QED
  BY <1>1, <1>2, <1>3, <1>4, <1>5, <1>6, <1>7, <1>8, <1>9, <1>10 DEF CoordinatorStep

\* Taking a message leaves the others where they are, one place earlier.
LEMMA TakeMessage ==
    ASSUME TypeInv, NEW n \in Nodes, inbox[n] # <<>>,
           inbox' = [inbox EXCEPT ![n] = Tail(@)]
    PROVE  /\ inbox' \in [Nodes -> Seq(Message)]
           /\ Head(inbox[n]) \in Message /\ 1 \in DOMAIN inbox[n]
           /\ Head(inbox[n]) = inbox[n][1]
           /\ \A k \in Nodes \ {n} : inbox'[k] = inbox[k]
           /\ \A i \in DOMAIN inbox'[n] :
                 i + 1 \in DOMAIN inbox[n] /\ inbox'[n][i] = inbox[n][i + 1] /\ i \in Nat /\ i # 0
<1>1. inbox[n] \in Seq(Message) /\ inbox \in [Nodes -> Seq(Message)]
  BY DEF TypeInv, TypeOK
<1>2. /\ Tail(inbox[n]) \in Seq(Message) /\ Head(inbox[n]) \in Message
      /\ 1 \in DOMAIN inbox[n] /\ Head(inbox[n]) = inbox[n][1]
      /\ \A i \in DOMAIN Tail(inbox[n]) :
            i + 1 \in DOMAIN inbox[n] /\ Tail(inbox[n])[i] = inbox[n][i + 1]
            /\ i \in Nat /\ i # 0
  BY <1>1
<1>3. QED
  BY <1>1, <1>2

\* A node that answers moves only the handler that waits for the answer.
LEMMA HandleMessageTypeInv ==
    ASSUME TypeInv, NEW n \in Nodes, HandleMessage(n)
    PROVE  TypeInv'
<1>0. PICK m : m = Head(inbox[n])
  OBVIOUS
<1>1. /\ inbox[n] # <<>> /\ inbox' = [inbox EXCEPT ![n] = Tail(@)]
      /\ node' = [node EXCEPT ![n] = Installed(@, m)]
      /\ ap' = IF m.open /\ assoc[n] = m.from
               THEN [ap EXCEPT ![m.from].pc = "acked"] ELSE ap
  BY <1>0 DEF HandleMessage
<1>2. TypeOK
  BY DEF TypeInv
<1>3. /\ inbox' \in [Nodes -> Seq(Message)]
      /\ m \in Message /\ 1 \in DOMAIN inbox[n] /\ m = inbox[n][1]
      /\ \A k \in Nodes \ {n} : inbox'[k] = inbox[k]
      /\ \A i \in DOMAIN inbox'[n] :
            i + 1 \in DOMAIN inbox[n] /\ inbox'[n][i] = inbox[n][i + 1] /\ i \in Nat /\ i # 0
  BY <1>0, <1>1, TakeMessage
<1>4. MessageOK(n) /\ (m.open => Awaited(n, m.from))
  BY <1>3 DEF MessageOK, TypeInv
<1>5. node' \in [Nodes -> [vip : Vips \cup {None}, tun : Tunnel \cup {None},
                           hb : BOOLEAN, pc : {"listen", "away"}]]
  <2>1. node[n] \in [vip : Vips \cup {None}, tun : Tunnel \cup {None},
                     hb : BOOLEAN, pc : {"listen", "away"}]
    BY <1>2 DEF TypeOK
  <2>2. m.type = "SET_CONFIG" /\ m.port # 0 => [ap |-> m.from, port |-> m.port] \in Tunnel
    BY <1>3, <1>4, ConstantsOK DEF MessageOK, Message, Tunnel, Ports, PortOrNull
  <2>3. Installed(node[n], m) \in [vip : Vips \cup {None}, tun : Tunnel \cup {None},
                                   hb : BOOLEAN, pc : {"listen", "away"}]
    BY <1>3, <2>1, <2>2 DEF Installed, Message
  <2>4. QED
    BY <1>1, <1>2, <2>3 DEF TypeOK
<1>6. UNCHANGED <<tables, co, apLocals, switches, radio, disturbed, bounds>>
  BY DEF HandleMessage
<1>7. CASE m.open /\ assoc[n] = m.from
  <2>1. PICK a \in APs : a = m.from
    BY <1>4, <1>7 DEF Awaited
  <2>2. ap[a].pc = "await" /\ ap[a].node = n /\ ap' = [ap EXCEPT ![a].pc = "acked"]
    BY <1>1, <1>4, <1>7, <2>1 DEF Awaited
  <2>3. /\ ap' \in [APs -> Handler]
        /\ ap'[a].pc = "acked" /\ ap'[a].node = ap[a].node /\ ap'[a].swarm = ap[a].swarm
        /\ ap'[a].vip = ap[a].vip /\ ap'[a].port = ap[a].port
        /\ \A b \in APs \ {a} : ap'[b] = ap[b]
    BY <1>2, <2>2, PCUpdate DEF PCs, NewPC
  <2>4. \A b \in APs : HandlerOK(b)'
    BY <1>6, <2>2, <2>3 DEF HandlerOK, TypeInv, SwitchPC, apLocals
  <2>5. ASSUME NEW k \in Nodes, NEW i \in DOMAIN inbox'[k], inbox'[k][i].open
        PROVE  inbox'[k][i].from # a
    <3>1. CASE k = n
      <4>1. /\ i + 1 \in DOMAIN inbox[n] /\ inbox'[n][i] = inbox[n][i + 1]
            /\ 1 \in DOMAIN inbox[n] /\ inbox[n][1] = m /\ i + 1 # 1
        BY <1>3, <3>1
      <4>2. inbox[n][1].open /\ inbox[n][1].from = a /\ inbox[n][i + 1].open
        BY <1>7, <2>1, <2>5, <3>1, <4>1
      <4>3. inbox[n][i + 1].from # inbox[n][1].from
        BY <1>4, <4>1, <4>2 DEF MessageOK
      <4>4. QED
        BY <3>1, <4>1, <4>2, <4>3
    <3>2. CASE k # n
      <4>1. MessageOK(k) /\ inbox'[k] = inbox[k]
        BY <1>3, <3>2 DEF TypeInv
      <4>2. Awaited(k, inbox[k][i].from)
        BY <2>5, <4>1 DEF MessageOK
      <4>3. QED
        BY <2>2, <2>5, <3>2, <4>1, <4>2 DEF Awaited
    <3>3. QED
      BY <3>1, <3>2
  <2>6. \A k \in Nodes, b \in APs \ {a} : Awaited(k, b) => Awaited(k, b)'
    BY <2>3 DEF Awaited
  <2>7. ASSUME NEW k \in Nodes
        PROVE  MessageOK(k)'
    <3>1. MessageOK(k)
      BY DEF TypeInv
    <3>2. CASE k = n
      <4>1. ASSUME NEW i \in DOMAIN inbox'[n], inbox'[n][i].open
            PROVE  Awaited(n, inbox[n][i].from)'
        <5>1. i + 1 \in DOMAIN inbox[n] /\ inbox'[n][i] = inbox[n][i + 1]
          BY <1>3, <4>1
        <5>2. inbox[n][i + 1].open /\ inbox[n][i + 1].from # a
          BY <2>5, <4>1, <5>1
        <5>3. Awaited(n, inbox[n][i + 1].from)
          BY <1>4, <5>1, <5>2 DEF MessageOK
        <5>4. inbox[n][i + 1].from \in APs \ {a}
          BY <5>2, <5>3 DEF Awaited
        <5>5. QED
          BY <2>6, <5>1, <5>3, <5>4
      <4>2. ASSUME NEW i \in DOMAIN inbox'[n], NEW j \in DOMAIN inbox'[n],
                   inbox'[n][i].open, inbox'[n][j].open,
                   inbox'[n][i].from = inbox'[n][j].from
            PROVE  i = j
        BY <1>3, <1>4, <4>2 DEF MessageOK
      <4>3. QED
        BY <1>3, <1>4, <3>2, <4>1, <4>2 DEF MessageOK
    <3>3. CASE k # n
      <4>1. inbox'[k] = inbox[k]
        BY <1>3, <3>3
      <4>2. ASSUME NEW i \in DOMAIN inbox[k], inbox[k][i].open
            PROVE  Awaited(k, inbox[k][i].from)'
        <5>1. Awaited(k, inbox[k][i].from) /\ inbox[k][i].from # a
          BY <2>5, <3>1, <4>1, <4>2 DEF MessageOK
        <5>2. inbox[k][i].from \in APs \ {a}
          BY <5>1 DEF Awaited
        <5>3. QED
          BY <2>6, <4>1, <5>1, <5>2
      <4>3. QED
        BY <3>1, <4>1, <4>2 DEF MessageOK
    <3>4. QED
      BY <3>2, <3>3
  <2>8. TypeOK'
    BY <1>2, <1>3, <1>5, <1>6, <2>3
       DEF TypeOK, tables, apLocals, switches, radio, bounds
  <2>9. TasksOK'
    BY <1>6 DEF TypeInv, TasksOK
  <2>10. QED
    BY <2>4, <2>7, <2>8, <2>9 DEF TypeInv
<1>8. CASE ~(m.open /\ assoc[n] = m.from)
  <2>1. ap' = ap
    BY <1>1, <1>8
  <2>2. \A b \in APs : HandlerOK(b)'
    BY <1>6, <2>1 DEF HandlerOK, TypeInv, apLocals
  <2>3. \A k \in Nodes : MessageOK(k)'
    <3>1. MessageOK(n)'
      BY <1>3, <1>4, <2>1 DEF MessageOK, Awaited
    <3>2. \A k \in Nodes \ {n} : MessageOK(k)'
      BY <1>3, <2>1 DEF MessageOK, Awaited, TypeInv
    <3>3. QED
      BY <3>1, <3>2
  <2>4. TypeOK'
    BY <1>2, <1>3, <1>5, <1>6, <2>1
       DEF TypeOK, tables, apLocals, switches, radio, bounds
  <2>5. TasksOK'
    BY <1>6 DEF TypeInv, TasksOK
  <2>6. QED
    BY <2>2, <2>3, <2>4, <2>5 DEF TypeInv
<1>9. QED
  BY <1>7, <1>8

\* Appending an event.
LEMMA EmitType ==
    ASSUME TypeOK, NEW a \in APs, NEW kind \in {"new", "del"}, NEW n \in Nodes
    PROVE  Emit(a, kind, n) \in [APs -> Seq(Event)]
<1>1. [kind |-> kind, node |-> n] \in Event
  BY DEF Event
<1>2. QED
  BY <1>1 DEF Emit, TypeOK

\* The node managers keep the invariant.
LEMMA NodeTypeInv ==
    ASSUME TypeInv, NEW n \in Nodes, NodeStep(n)
    PROVE  TypeInv'
<1>0. TypeOK
  BY DEF TypeInv
<1>1. CASE HandleMessage(n)
  BY <1>1, HandleMessageTypeInv
<1>2. CASE LeaveNetwork(n)
  <2>1. /\ inbox' \in [Nodes -> Seq(Message)]
        /\ \A k \in Nodes \ {n} : inbox'[k] = inbox[k]
        /\ \A i \in DOMAIN inbox'[n] :
              i + 1 \in DOMAIN inbox[n] /\ inbox'[n][i] = inbox[n][i + 1]
              /\ i \in Nat /\ i # 0
    BY <1>2, TakeMessage DEF LeaveNetwork
  <2>2. ap' = ap /\ connected' = connected /\ co' = co
    BY <1>2 DEF LeaveNetwork, apLocals
  <2>3. \A b \in APs : HandlerOK(b)'
    BY <2>2 DEF HandlerOK, TypeInv
  <2>4. MessageOK(n)'
    BY <2>1, <2>2 DEF MessageOK, Awaited, TypeInv
  <2>5. \A k \in Nodes \ {n} : MessageOK(k)'
    BY <2>1, <2>2 DEF MessageOK, Awaited, TypeInv
  <2>6. node' \in [Nodes -> [vip : Vips \cup {None}, tun : Tunnel \cup {None},
                             hb : BOOLEAN, pc : {"listen", "away"}]]
    BY <1>0, <1>2 DEF LeaveNetwork, TypeOK
  <2>7. assoc' \in [Nodes -> APs \cup {None}] /\ assoc[n] \in APs \cup {None}
    BY <1>0, <1>2 DEF LeaveNetwork, TypeOK
  <2>8. events' \in [APs -> Seq(Event)]
    BY <1>0, <1>2, <2>7, EmitType DEF LeaveNetwork, TypeOK
  <2>9. TypeOK'
    BY <1>0, <1>2, <2>1, <2>6, <2>7, <2>8
       DEF LeaveNetwork, TypeOK, tables, apLocals, switches, bounds
  <2>10. TasksOK'
    BY <2>2 DEF TypeInv, TasksOK
  <2>11. QED
    BY <2>3, <2>4, <2>5, <2>9, <2>10 DEF TypeInv
<1>3. CASE ReturnToNetwork(n)
  <2>1. node' \in [Nodes -> [vip : Vips \cup {None}, tun : Tunnel \cup {None},
                             hb : BOOLEAN, pc : {"listen", "away"}]]
    <3>1. node[n] \in [vip : Vips \cup {None}, tun : Tunnel \cup {None},
                       hb : BOOLEAN, pc : {"listen", "away"}]
      BY <1>0 DEF TypeOK
    <3>2. [node[n] EXCEPT !.pc = "listen", !.hb = FALSE]
            \in [vip : Vips \cup {None}, tun : Tunnel \cup {None},
                 hb : BOOLEAN, pc : {"listen", "away"}]
      BY <3>1
    <3>3. node' = [node EXCEPT ![n] = [node[n] EXCEPT !.pc = "listen", !.hb = FALSE]]
      BY <1>0, <1>3 DEF ReturnToNetwork, TypeOK
    <3>4. QED
      BY <1>0, <3>2, <3>3 DEF TypeOK
  <2>2. events' \in [APs -> Seq(Event)] /\ assoc' \in [Nodes -> APs \cup {None}]
    <3>1. CASE UNCHANGED radio
      BY <1>0, <3>1 DEF TypeOK, radio
    <3>2. CASE \E a \in APs : /\ assoc' = [assoc EXCEPT ![n] = a]
                              /\ events' = Emit(a, "new", n)
      <4>1. PICK a \in APs : assoc' = [assoc EXCEPT ![n] = a]
                             /\ events' = Emit(a, "new", n)
        BY <3>2
      <4>2. QED
        BY <1>0, <4>1, EmitType DEF TypeOK
    <3>3. QED
      BY <1>3, <3>1, <3>2 DEF ReturnToNetwork
  <2>3. TypeOK'
    BY <1>0, <1>3, <2>1, <2>2
       DEF ReturnToNetwork, TypeOK, tables, apLocals, switches, bounds
  <2>4. ap' = ap /\ connected' = connected /\ inbox' = inbox /\ co' = co
    BY <1>3 DEF ReturnToNetwork, apLocals
  <2>5. TasksOK'
    BY <2>4 DEF TypeInv, TasksOK
  <2>6. QED
    BY <2>3, <2>4, <2>5, CoFrame
<1>4. QED
  BY <1>1, <1>2, <1>3 DEF NodeStep

\* An order of the rows of a query is a sequence of their nodes.
LEMMA OrdersType ==
    ASSUME NEW C \in SUBSET Nodes, NEW order \in Orders(C)
    PROVE  order \in Seq(C)
<1>1. IsFiniteSet(C)
  BY ConstantsOK, FS_Subset
<1>2. Cardinality(C) \in Nat
  BY <1>1, FS_CardinalityType
<1>3. order \in [1..Cardinality(C) -> C]
  BY DEF Orders
<1>4. QED
  BY <1>2, <1>3

\* A new request's tasks have no host ids yet, and wait for them.
LEMMA AcceptRequestTypeInv ==
    ASSUME TypeInv, NEW kind \in {"njl", "nll"}, NEW S \in SUBSET Nodes,
           AcceptRequest(kind, S)
    PROVE  TypeInv'
<1>0. TypeOK
  BY DEF TypeInv
<1> DEFINE C == Candidates(kind, S)
<1>1. C \in SUBSET Nodes /\ \A n \in C : art[n] \in ArtRow
  BY <1>0 DEF Candidates, TypeOK
<1>2. PICK order \in Orders(C) :
         co' = IF order = <<>> THEN IdleCoordinator
               ELSE [IdleCoordinator EXCEPT
                       !.pc = "ids", !.kind = kind,
                       !.todo = [i \in DOMAIN order |-> NewTask(order[i])]]
  BY DEF AcceptRequest
<1>3. order \in Seq(C)
  BY <1>1, OrdersType
<1>4. \A n \in C : NewTask(n) \in Task
  BY <1>1 DEF NewTask, Task, ArtRow
<1> DEFINE todo == [i \in DOMAIN order |-> NewTask(order[i])]
<1> HIDE DEF C
<1>5. todo \in Seq(Task)
  <2>1. DOMAIN order = 1..Len(order) /\ Len(order) \in Nat
    BY <1>3
  <2>2. todo \in [1..Len(order) -> Task]
    BY <1>3, <1>4, <2>1
  <2>3. QED
    BY <2>1, <2>2
<1> HIDE DEF todo
<1>6. co' \in Coordinator /\ co'.pc \in {"idle", "ids"}
      /\ (co'.pc = "idle" => co'.todo = <<>>)
  <2>1. CASE order = <<>>
    <3>1. co' = IdleCoordinator
      BY <1>2, <2>1
    <3>2. QED
      BY <3>1 DEF IdleCoordinator, Coordinator
  <2>2. CASE order # <<>>
    <3>1. co' = [IdleCoordinator EXCEPT !.pc = "ids", !.kind = kind, !.todo = todo]
      BY <1>2, <2>2 DEF todo
    <3>2. QED
      BY <1>5, <3>1 DEF IdleCoordinator, Coordinator
  <2>3. QED
    BY <2>1, <2>2
<1>7. TasksOK'
  BY <1>6 DEF TasksOK
<1>8. disturbed' \subseteq Nodes /\ requests' \in Nat
  BY <1>0, <1>1 DEF AcceptRequest, TypeOK, C
<1>9. TypeOK'
  BY <1>0, <1>6, <1>8
     DEF AcceptRequest, TypeOK, tables, apLocals, switches, radio, nodes
<1>10. QED
  BY <1>7, <1>9, CoFrame DEF AcceptRequest, apLocals, nodes

\* A failed query of an AP manager keeps the invariant: one step per query.
LEMMA APQueryFailsTypeInv ==
    ASSUME TypeInv, NEW a \in APs, APQueryFails(a)
    PROVE  TypeInv'
<1>0. TypeOK /\ HandlerOK(a)
  BY DEF TypeInv
<1>1. /\ failures' \in Nat
      /\ UNCHANGED <<co, lastLine, switches, radio, nodes, healed, moves, requests,
                     restarts>>
  BY <1>0 DEF APQueryFails, QueryFails, TypeOK
<1> DEFINE Kept == /\ ap' \in [APs -> Handler] /\ HandlerOK(a)'
                   /\ \A b \in APs \ {a} : ap'[b] = ap[b]
                   /\ \A b \in APs \ {a} : connected'[b] = connected[b]
                   /\ connected' \in [APs -> [Nodes -> Station \cup {None}]]
                   /\ tunnel' \in [APs -> [Nodes -> PortOrNull]]
                   /\ disturbed' \subseteq Nodes /\ UNCHANGED tables
                   /\ ap[a].pc # "await"
<1>2. ASSUME NewStationReadFails(a)
      PROVE  Kept
  <2>1. ap[a].pc \in {"arp", "hostid"} /\ ap[a].node \in Nodes
    BY <1>0, <1>2 DEF NewStationReadFails, HandlerOK
  <2>2. /\ ap' \in [APs -> Handler] /\ HandlerOK(a)'
        /\ \A b \in APs \ {a} : ap'[b] = ap[b]
    BY <1>0, <1>2, IdleUpdate DEF NewStationReadFails
  <2>3. QED
    BY <1>0, <1>2, <2>1, <2>2 DEF NewStationReadFails, TypeOK
<1>3. ASSUME LostStationReadFails(a)
      PROVE  Kept
  <2>1. /\ ap' \in [APs -> Handler] /\ HandlerOK(a)'
        /\ \A b \in APs \ {a} : ap'[b] = ap[b]
    BY <1>0, <1>3, IdleUpdate DEF LostStationReadFails, Finish
  <2>2. QED
    BY <1>0, <1>3, <2>1 DEF LostStationReadFails, TypeOK
<1>4. ASSUME RegisterInArtFails(a)
      PROVE  Kept
  <2>1. EnterStation(a)
    BY <1>4 DEF RegisterInArtFails
  <2>2. QED
    BY <1>0, <1>4, <2>1, EnterStationType DEF RegisterInArtFails, Damage, TypeOK
<1>5. ASSUME RegisterInSwarmFails(a) \/ DeleteFromArtFails(a)
      PROVE  Kept
  <2> DEFINE to == IF ap[a].pc = "swarmrow" THEN "dump" ELSE "delswarm"
  <2>1. /\ ap[a].pc \in {"swarmrow", "delart"} /\ ap[a].node \in Nodes
        /\ ap' = [ap EXCEPT ![a].pc = to]
    BY <1>0, <1>5 DEF RegisterInSwarmFails, DeleteFromArtFails, Step, HandlerOK
  <2>2. to \in PCs /\ (to = "dump" => ap[a].pc = "swarmrow") /\ to \in {"dump", "delswarm"}
    BY <2>1 DEF PCs, DelPC, SwitchPC
  <2> HIDE DEF to
  <2>3. /\ ap' \in [APs -> Handler]
        /\ ap'[a].pc = to /\ ap'[a].node = ap[a].node /\ ap'[a].swarm = ap[a].swarm
        /\ ap'[a].vip = ap[a].vip /\ ap'[a].port = ap[a].port
        /\ \A b \in APs \ {a} : ap'[b] = ap[b]
    BY <1>0, <2>1, <2>2, PCUpdate
  <2>4. HandlerOK(a)'
    BY <1>0, <2>1, <2>2, <2>3 DEF HandlerOK, SwitchPC
  <2>5. UNCHANGED <<tables, connected, tunnel>> /\ disturbed' \subseteq Nodes
    BY <1>0, <1>5, <2>1 DEF RegisterInSwarmFails, DeleteFromArtFails, Damage, TypeOK
  <2>6. QED
    BY <1>0, <2>1, <2>3, <2>4, <2>5 DEF TypeOK
<1>6. ASSUME DeleteFromSwarmFails(a)
      PROVE  Kept
  <2>1. DeleteTunnel(a)
    BY <1>6 DEF DeleteFromSwarmFails
  <2>2. QED
    BY <1>0, <1>6, <2>1, DeleteTunnelType DEF DeleteFromSwarmFails, TypeOK
<1>7. Kept
  BY <1>2, <1>3, <1>4, <1>5, <1>6 DEF APQueryFails
<1>8. TypeOK'
  BY <1>0, <1>1, <1>7 DEF TypeOK, tables, switches, radio, nodes
<1>9. inbox' = inbox /\ co' = co
  BY <1>1 DEF nodes
<1>10. QED
  BY <1>7, <1>8, <1>9, APFrame

\* So does a failed query of the coordinator.
LEMMA CoQueryFailsTypeInv ==
    ASSUME TypeInv, CoQueryFails
    PROVE  TypeInv'
<1>0. TypeOK /\ TasksOK
  BY DEF TypeInv
<1>1. /\ failures' \in Nat
      /\ UNCHANGED <<tables, ap, apLocals, switches, radio, nodes, healed, moves,
                     requests, restarts>>
  BY <1>0 DEF CoQueryFails, QueryFails, TypeOK
<1>2. co' \in Coordinator /\ TasksOK' /\ disturbed' \subseteq Nodes
  <2>1. CASE HostIdsReadFails
    BY <1>0, <2>1, CoIdle DEF HostIdsReadFails, TypeOK
  <2>2. CASE InsertSwarmRowFails \/ UpdateArtFails
    <3>1. co' \in Coordinator /\ TasksOK' /\ co.pc \in {"swarmrow", "artrow"}
      BY <2>2, CoPCUpdate DEF InsertSwarmRowFails, UpdateArtFails, CoStep, CoPCs
    <3>2. Head(co.todo).node \in Nodes
      BY <1>0, <3>1, HeadTask DEF TasksOK
    <3>3. QED
      BY <1>0, <2>2, <3>1, <3>2 DEF InsertSwarmRowFails, UpdateArtFails, Damage, TypeOK
  <2>3. QED
    BY <2>1, <2>2 DEF CoQueryFails
<1>3. TypeOK'
  BY <1>0, <1>1, <1>2 DEF TypeOK, tables, apLocals, switches, radio, nodes
<1>4. QED
  BY <1>1, <1>2, <1>3, CoFrame DEF apLocals, nodes

\* The radio, the requests, the restarts and the failures keep the invariant.
LEMMA EnvironmentTypeInv ==
    ASSUME TypeInv, Environment
    PROVE  TypeInv'
<1>0. TypeOK /\ TasksOK
  BY DEF TypeInv
<1>1. ASSUME NEW n \in Nodes, NEW a \in APs, Associate(n, a)
      PROVE  TypeInv'
  <2>1. events' \in [APs -> Seq(Event)]
    BY <1>0, <1>1, EmitType DEF Associate
  <2>2. TypeOK'
    BY <1>0, <1>1, <2>1 DEF Associate, TypeOK, tables, apLocals, switches, nodes
  <2>3. ap' = ap /\ connected' = connected /\ inbox' = inbox /\ co' = co
    BY <1>1 DEF Associate, apLocals, nodes
  <2>4. QED
    BY <1>0, <2>2, <2>3, CoFrame DEF TasksOK
<1>2. ASSUME NEW n \in Nodes, Disassociate(n)
      PROVE  TypeInv'
  <2>1. assoc[n] \in APs
    BY <1>0, <1>2 DEF Disassociate, TypeOK
  <2>2. events' \in [APs -> Seq(Event)]
    BY <1>0, <1>2, <2>1, EmitType DEF Disassociate
  <2>3. TypeOK'
    BY <1>0, <1>2, <2>2 DEF Disassociate, TypeOK, tables, apLocals, switches, nodes
  <2>4. ap' = ap /\ connected' = connected /\ inbox' = inbox /\ co' = co
    BY <1>2 DEF Disassociate, apLocals, nodes
  <2>5. QED
    BY <1>0, <2>3, <2>4, CoFrame DEF TasksOK
<1>3. ASSUME NEW n \in Nodes, SpuriousDetection(n)
      PROVE  TypeInv'
  <2>1. assoc[n] \in APs
    BY <1>0, <1>3 DEF SpuriousDetection, TypeOK
  <2>2. events' \in [APs -> Seq(Event)]
    BY <1>0, <1>3, <2>1, EmitType DEF SpuriousDetection
  <2>3. TypeOK'
    BY <1>0, <1>3, <2>2 DEF SpuriousDetection, TypeOK, tables, apLocals, switches, nodes
  <2>4. ap' = ap /\ connected' = connected /\ inbox' = inbox /\ co' = co
    BY <1>3 DEF SpuriousDetection, apLocals, nodes
  <2>5. QED
    BY <1>0, <2>3, <2>4, CoFrame DEF TasksOK
<1>4. ASSUME NEW S \in SUBSET Nodes, AcceptRequest("njl", S) \/ AcceptRequest("nll", S)
      PROVE  TypeInv'
  BY <1>4, AcceptRequestTypeInv
<1>5. ASSUME NEW a \in APs, RestartAPManager(a)
      PROVE  TypeInv'
  BY <1>5, RestartAPTypeInv
<1>6. CASE RestartCoordinator
  <2>1. co' \in Coordinator /\ TasksOK'
    BY <1>6, CoIdle DEF RestartCoordinator
  <2>2. TypeOK'
    BY <1>0, <1>6, <2>1
       DEF RestartCoordinator, TypeOK, apLocals, switches, radio, nodes
  <2>3. QED
    BY <1>6, <2>1, <2>2, CoFrame DEF RestartCoordinator, apLocals, nodes
<1>7. ASSUME NEW a \in APs, APQueryFails(a)
      PROVE  TypeInv'
  BY <1>7, APQueryFailsTypeInv
<1>8. CASE CoQueryFails
  BY <1>8, CoQueryFailsTypeInv
<1>9. QED
  BY <1>1, <1>2, <1>3, <1>4, <1>5, <1>6, <1>7, <1>8 DEF Environment

\* TypeInv is inductive.
LEMMA TypeInvStep == TypeInv /\ [Next]_vars => TypeInv'
<1> SUFFICES ASSUME TypeInv, [Next]_vars
             PROVE  TypeInv'
  OBVIOUS
<1>1. ASSUME NEW a \in APs, APStep(a)
      PROVE  TypeInv'
  BY <1>1, APStepTypeInv, SendConfigTypeInv, ConfigTimeoutTypeInv
<1>2. CASE CoordinatorStep
  BY <1>2, CoordinatorTypeInv
<1>3. ASSUME NEW n \in Nodes, NodeStep(n)
      PROVE  TypeInv'
  BY <1>3, NodeTypeInv
<1>4. CASE Environment
  BY <1>4, EnvironmentTypeInv
<1>5. CASE UNCHANGED vars
  <2>1. UNCHANGED <<tables, co, ap, apLocals, switches, radio, nodes, disturbed, bounds>>
    BY <1>5 DEF vars
  <2>2. TypeOK' /\ TasksOK'
    BY <2>1 DEF TypeInv, TypeOK, TasksOK, tables, apLocals, switches, radio, nodes, bounds
  <2>3. QED
    BY <2>1, <2>2, CoFrame DEF apLocals, nodes
<1>6. QED
  BY <1>1, <1>2, <1>3, <1>4, <1>5 DEF Next

\* In every reachable state, whatever the nodes, the access points and the
\* bounds, the variables have their types, a handler has the locals its program
\* counter needs (handle_new_connected_station and handle_disconnected_station
\* never use a local they have not set), a message that is waited for has
\* exactly one AP manager waiting for it, and every task under way has a host id
\* of the range.
THEOREM TypeInvariance == Spec => []TypeInv
<1>1. QED
  BY InitTypeInv, TypeInvStep, PTL DEF Spec

\* Every reachable state is well typed.
THEOREM TypeCorrect == Spec => []TypeOK
<1>1. TypeInv => TypeOK
  BY DEF TypeInv
<1>2. QED
  BY <1>1, TypeInvariance, PTL
===============================================================================

------------------------- MODULE SwarmForwardingProofs -------------------------
(***************************************************************************)
(* While nothing was ever disturbed, the switches forward to every         *)
(* registered node of SwarmMembership, for every set of nodes and APs,     *)
(* every range and every bound.                                            *)
(*                                                                         *)
(* An entry is named by its address alone, so what must be shown is that   *)
(* no step writes or deletes the entry of a node it does not work on: the  *)
(* addresses in the ART are all different (from the agreement of the two   *)
(* tables), and the address a handler deletes is one its node has had.     *)
(***************************************************************************)
EXTENDS SwarmConsistencyProofs

Quiet == disturbed = {} /\ ~healed /\ restarts = 0

\* The address in the row is the node's own or a host id's; the one that
\* connected_stations keeps, and that a handler deletes, may be the one the
\* station had before it joined.
VipOK(n) == art[n] # None =>
    /\ IF art[n].swarm = 0 THEN art[n].vip = n ELSE art[n].vip \in HostIds
    /\ connected[art[n].ap][n] # None =>
          connected[art[n].ap][n].vip \in {n, art[n].vip}
DeletesOwn(a) == ap[a].pc = "delentries" =>
    ap[a].vip \in {ap[a].node, art[ap[a].node].vip}

\* The switches have the entries, or a handler is about to set or delete them.
Forwarded(n) ==
    /\ lpm[art[n].ap][art[n].vip] = art[n].port
    /\ \A b \in KnownAPs \ {art[n].ap} : lpm[b][art[n].vip] \in {b, art[n].ap}
PendingPC == {"swarmrow"} \cup SwitchPC \cup DelPhase
Pending(n) ==
    \/ \E a \in APs : Works(a, n) /\ ap[a].pc \in PendingPC
    \/ co.pc \in SwitchPC /\ Head(co.todo).node = n
FwdOK(n) == art[n] # None => Pending(n) \/ Forwarded(n)

\* The entry on the node's own AP is set before those on the others.
OwnEntry(a) == ap[a].pc = "replicate" /\ ap[a].swarm = 1 =>
    lpm[a][ap[a].vip] = ap[a].port
CoOwnEntry == co.pc = "replicate" =>
    lpm[Head(co.todo).ap][Head(co.todo).hid] = Head(co.todo).port

Entries ==
    /\ \A n \in Nodes : VipOK(n) /\ FwdOK(n)
    /\ \A a \in APs : DeletesOwn(a) /\ OwnEntry(a)
    /\ CoOwnEntry
FwdInv == Quiet => Entries

-------------------------------------------------------------------------------
(* No two registered nodes have the same address.                          *)

\* What the tables and the handlers say when every node is calm.
LEMMA QuietFacts ==
    ASSUME Consistent, Quiet
    PROVE  /\ Calm = Nodes /\ TypeOK /\ TasksInv /\ UniqueHostIds
           /\ \A a \in APs : HandlerRows(a) /\ HandlerOK(a)
           /\ \A n \in Nodes : HalfWritten(n) \/ RowsAgree(n)
           /\ \A n \in Nodes, a, b \in APs : Works(a, n) /\ Works(b, n) => a = b
           /\ \A n \in Nodes, a \in APs : ~(Joining(n) /\ Works(a, n))
<1>1. Calm = Nodes
  BY DEF Quiet, Calm
<1>2. QED
  BY <1>1 DEF Consistent, TypeInv, RowsInv, Agree, Alone

\* The addresses in the ART are all different, and no node's own address is
\* another node's.
LEMMA AddressesDiffer ==
    ASSUME Consistent, Quiet, NEW n \in Nodes, NEW m \in Nodes \ {n},
           VipOK(n), VipOK(m), art[n] # None, art[m] # None
    PROVE  art[m].vip \notin {n, art[n].vip} /\ art[m].vip \in Vips
<1>1. \A k \in Nodes : k \notin HostIds
  BY ConstantsOK
<1>2. IF art[n].swarm = 0 THEN art[n].vip = n ELSE art[n].vip \in HostIds
  BY DEF VipOK
<1>3. CASE art[m].swarm = 0
  <2>1. art[m].vip = m
    BY <1>3 DEF VipOK
  <2>2. QED
    BY <1>1, <1>2, <2>1 DEF Vips
<1>4. CASE art[m].swarm # 0
  <2>1. art[m].vip \in HostIds
    BY <1>4 DEF VipOK
  <2>2. CASE art[n].swarm = 0
    BY <1>1, <1>2, <2>1, <2>2 DEF Vips
  <2>3. CASE art[n].swarm # 0
    <3>1. Member(n) /\ Member(m) /\ n \in Calm /\ m \in Calm
      BY <1>4, <2>3, QuietFacts DEF Member, TypeOK, ArtRow
    <3>2. /\ swarmTable[n] # None /\ swarmTable[n].hid = art[n].vip
          /\ swarmTable[m] # None /\ swarmTable[m].hid = art[m].vip
      BY <3>1, MemberAddress
    <3>3. swarmTable[n].hid # swarmTable[m].hid
      BY <3>2, QuietFacts DEF UniqueHostIds, Quiet
    <3>4. QED
      BY <1>1, <2>1, <3>2, <3>3 DEF Vips
  <2>4. QED
    BY <2>2, <2>3
<1>5. QED
  BY <1>3, <1>4

-------------------------------------------------------------------------------
(* What a step may write.                                                  *)

\* The entries of registered nodes other than n are as before.
Apart(n) == \A m \in Nodes \ {n} : art[m] # None =>
    \A b \in APs : lpm'[b][art[m].vip] = lpm[b][art[m].vip]

\* A write to the entries of one of a node's addresses is apart from the others.
LEMMA WritesApart ==
    ASSUME Consistent, Quiet, Entries, NEW n \in Nodes, art[n] # None,
           NEW v \in {n, art[n].vip},
           \A b \in APs : \A w \in Vips \ {v} : lpm'[b][w] = lpm[b][w]
    PROVE  Apart(n)
<1> SUFFICES ASSUME NEW m \in Nodes \ {n}, art[m] # None, NEW b \in APs
             PROVE  lpm'[b][art[m].vip] = lpm[b][art[m].vip]
  BY DEF Apart
<1>1. art[m].vip \notin {n, art[n].vip} /\ art[m].vip \in Vips
  BY AddressesDiffer DEF Entries
<1>2. QED
  BY <1>1

\* What holds of a node whose row, station and entries stay the same.
LEMMA EntryKept ==
    ASSUME NEW m \in Nodes, VipOK(m), FwdOK(m), TypeOK, art'[m] = art[m],
           art[m] # None =>
              /\ connected'[art[m].ap][m] = connected[art[m].ap][m]
              /\ \A b \in APs : lpm'[b][art[m].vip] = lpm[b][art[m].vip],
           art[m] # None /\ Pending(m) => Pending(m)'
    PROVE  VipOK(m)' /\ FwdOK(m)'
<1>1. VipOK(m)'
  BY DEF VipOK
<1>2. FwdOK(m)'
  <2> SUFFICES ASSUME art[m] # None
               PROVE  Pending(m)' \/ Forwarded(m)'
    BY DEF FwdOK
  <2>1. art[m] \in ArtRow
    BY DEF TypeOK
  <2>2. art[m].ap \in APs /\ KnownAPs \subseteq APs
    BY <2>1, ConstantsOK DEF ArtRow
  <2>3. Forwarded(m) => Forwarded(m)'
    BY <2>2 DEF Forwarded
  <2>4. QED
    BY <2>3 DEF FwdOK
<1>3. QED
  BY <1>1, <1>2

\* A handler that the step does not concern.
LEMMA HandlerEntryKept ==
    ASSUME Consistent, Quiet, Entries, NEW n \in Nodes, Apart(n),
           \A m \in Nodes \ {n} : art'[m] = art[m],
           NEW b \in APs, ap'[b] = ap[b], ap[b].node # n
    PROVE  DeletesOwn(b)' /\ OwnEntry(b)'
<1>1. HandlerOK(b) /\ HandlerRows(b) /\ Calm = Nodes
  BY QuietFacts
<1>2. CASE ap[b].pc = "delentries"
  <2>1. ap[b].node \in Nodes \ {n}
    BY <1>1, <1>2 DEF HandlerOK
  <2>2. DeletesOwn(b)
    BY DEF Entries
  <2>3. QED
    BY <1>2, <2>1, <2>2 DEF DeletesOwn, OwnEntry
<1>3. CASE ap[b].pc = "replicate"
  <2>1. PICK m \in Nodes \ {n} : m = ap[b].node
    BY <1>1, <1>3 DEF HandlerOK
  <2>2. art[m] = [ap |-> b, swarm |-> ap[b].swarm, vip |-> ap[b].vip,
                  port |-> ap[b].port]
    BY <1>1, <1>3, <2>1 DEF HandlerRows, SwitchPC
  <2>3. art[m] # None
    <3>1. ap[b].vip \in Vips /\ ap[b].port \in PortOrNull /\ ap[b].swarm \in {0, 1}
      BY <1>1, <1>3, QuietFacts, ConstantsOK
         DEF HandlerOK, SwitchPC, Vips, Ports, PortOrNull, TypeOK, Handler
    <3>2. art[m] \in ArtRow
      BY <2>2, <3>1 DEF ArtRow
    <3>3. QED
      BY <3>2, ConstantsOK
  <2>4. lpm'[b][ap[b].vip] = lpm[b][ap[b].vip]
    BY <2>1, <2>2, <2>3 DEF Apart
  <2>5. OwnEntry(b)
    BY DEF Entries
  <2>6. QED
    BY <1>3, <2>4, <2>5 DEF DeletesOwn, OwnEntry
<1>4. CASE ap[b].pc \notin {"delentries", "replicate"}
  BY <1>4 DEF DeletesOwn, OwnEntry
<1>5. QED
  BY <1>2, <1>3, <1>4

\* The coordinator's entry, when the step concerns the node of a handler.
LEMMA CoEntryKept ==
    ASSUME Consistent, Quiet, Entries, NEW n \in Nodes, Apart(n), ~Joining(n), co' = co
    PROVE  CoOwnEntry'
<1> SUFFICES ASSUME co.pc = "replicate"
             PROVE  CoOwnEntry'
  BY DEF CoOwnEntry
<1>1. /\ Head(co.todo) = co.todo[1] /\ co.todo[1] \in Task /\ TaskRow(1)
      /\ co.todo[1].node \in Nodes \ {n}
  BY CoWorksOn DEF SwitchPC
<1>2. PICK t, m : t = co.todo[1] /\ m = t.node
  OBVIOUS
<1>3. art[m] # None /\ art[m].vip = t.hid /\ t.ap \in APs
  BY <1>1, <1>2, QuietFacts DEF TaskRow, SwitchPC, Task
<1>4. lpm'[t.ap][t.hid] = lpm[t.ap][t.hid]
  BY <1>1, <1>2, <1>3 DEF Apart
<1>5. QED
  BY <1>1, <1>2, <1>4 DEF Entries, CoOwnEntry

\* A step of one AP manager.
LEMMA APEntries ==
    ASSUME Consistent, Quiet, Entries, NEW a \in APs, NEW n \in Nodes, ap[a].node = n,
           OthersKept(a), co' = co, Apart(n),
           \A m \in Nodes \ {n} : art'[m] = art[m]
              /\ \A b \in APs : connected'[b][m] = connected[b][m],
           VipOK(n)', FwdOK(n)', DeletesOwn(a)', OwnEntry(a)'
    PROVE  Entries'
<1>1. /\ \A b \in APs : Works(a, n) /\ Works(b, n) => a = b
      /\ ~Joining(n) /\ TypeOK
  BY QuietFacts DEF Works
<1>2. ASSUME NEW m \in Nodes \ {n}
      PROVE  VipOK(m)' /\ FwdOK(m)'
  <2>1. Pending(m) => Pending(m)'
    BY DEF Pending, Works, OthersKept
  <2>2. art[m] # None => art[m].ap \in APs
    BY <1>1 DEF TypeOK, ArtRow
  <2>3. QED
    BY <1>1, <2>1, <2>2, EntryKept DEF Entries, Apart
<1>3. ASSUME NEW b \in APs \ {a}
      PROVE  DeletesOwn(b)' /\ OwnEntry(b)'
  BY <1>1, HandlerEntryKept DEF OthersKept, Works
<1>4. CoOwnEntry'
  BY <1>1, CoEntryKept
<1>5. QED
  BY <1>2, <1>3, <1>4 DEF Entries

\* A step of the coordinator on the node of the first task.
LEMMA CoEntries ==
    ASSUME Consistent, Quiet, Entries, NEW n \in Nodes, Joining(n),
           ap' = ap, connected' = connected, Apart(n),
           \A m \in Nodes \ {n} : art'[m] = art[m],
           co.pc \in SwitchPC => Head(co.todo).node = n,
           VipOK(n)', FwdOK(n)', CoOwnEntry'
    PROVE  Entries'
<1>1. TypeOK /\ \A a \in APs : ap[a].node # n
  BY QuietFacts DEF Works
<1>2. ASSUME NEW m \in Nodes \ {n}
      PROVE  VipOK(m)' /\ FwdOK(m)'
  <2>1. Pending(m) => Pending(m)'
    BY DEF Pending, Works
  <2>2. QED
    BY <1>1, <2>1, EntryKept DEF Entries, Apart
<1>3. QED
  BY <1>1, <1>2, HandlerEntryKept DEF Entries

\* A step that writes no entry and no row of the ART, and leaves whoever is at
\* work on a switch there.
LEMMA EntriesKept ==
    ASSUME Consistent, Quiet, Entries, UNCHANGED <<art, connected, lpm>>,
           \A a \in APs : \/ SameStation(a) /\ ap'[a].pc = ap[a].pc
                          \/ {ap[a].pc, ap'[a].pc} \cap PendingPC = {},
           \/ {co.pc, co'.pc} \cap SwitchPC = {}
           \/ co'.todo = co.todo /\ co'.pc \in SwitchPC \ {"replicate"}
           \/ co' = co
    PROVE  Entries'
<1>1. ASSUME NEW n \in Nodes
      PROVE  VipOK(n)' /\ FwdOK(n)'
  <2>1. Pending(n) => Pending(n)'
    BY DEF Pending, Works, SameStation
  <2>2. QED
    BY <2>1, EntryKept, QuietFacts DEF Entries
<1>2. ASSUME NEW a \in APs
      PROVE  DeletesOwn(a)' /\ OwnEntry(a)'
  <2>1. DeletesOwn(a) /\ OwnEntry(a)
    BY DEF Entries
  <2>2. QED
    BY <2>1 DEF DeletesOwn, OwnEntry, SameStation, PendingPC, SwitchPC, DelPhase
<1>3. CoOwnEntry'
  BY DEF Entries, CoOwnEntry, SwitchPC
<1>4. QED
  BY <1>1, <1>2, <1>3 DEF Entries

-------------------------------------------------------------------------------
(* The steps of an AP manager.                                             *)

\* What a handler writes to the switches, and that its station's row stays.
LEMMA AdvancesWrite ==
    ASSUME TypeInv, NEW a \in APs, Advances(a)
    PROVE  /\ ap[a].node \in Nodes
           /\ \/ lpm' = lpm /\ ap[a].pc # "ports"
              \/ /\ ap[a].pc \in {"ports", "delentries"}
                 /\ \A b \in APs : \A w \in Vips \ {ap[a].vip} : lpm'[b][w] = lpm[b][w]
           /\ ap[a].pc = "ports" => lpm'[a][ap[a].vip] = ap[a].port
<1>0. TypeOK /\ HandlerOK(a)
  BY DEF TypeInv
<1>1. ap[a].node \in Nodes /\ ap[a].pc \notin {"idle", "dead"}
  BY <1>0, AdvancesMove DEF Successors, HandlerOK
<1>2. CASE UpdatePorts(a)
  <2>1. ap[a].pc = "ports" /\ lpm' = [lpm EXCEPT ![a][ap[a].vip] = ap[a].port]
    BY <1>2 DEF UpdatePorts, Step
  <2>2. ap[a].vip \in Vips
    BY <1>0, <2>1 DEF HandlerOK, SwitchPC, Vips
  <2>3. QED
    BY <1>0, <1>1, <2>1, <2>2 DEF TypeOK
<1>3. CASE DeleteEntries(a)
  <2>1. /\ ap[a].pc = "delentries"
        /\ lpm' = [b \in APs |-> IF b \in KnownAPs
                                 THEN [lpm[b] EXCEPT ![ap[a].vip] = None] ELSE lpm[b]]
    BY <1>3 DEF DeleteEntries, Step
  <2>2. QED
    BY <1>0, <1>1, <2>1 DEF TypeOK
<1>4. CASE SendConfig(a) \/ DumpPorts(a) \/ StartGrace(a) \/ GraceOver(a)
           \/ DumpPortsToDelete(a) \/ DeletePort(a)
  BY <1>1, <1>4 DEF SendConfig, DumpPorts, StartGrace, GraceOver, DumpPortsToDelete,
                    DeletePort, Step, switches
<1>5. QED
  BY <1>2, <1>3, <1>4 DEF Advances

\* The station of a handler at work on a switch is the one its row tells of.
LEMMA InstallsItsRow ==
    ASSUME Consistent, Quiet, NEW a \in APs, ap[a].pc \in {"swarmrow"} \cup SwitchPC
    PROVE  LET n == ap[a].node
           IN /\ n \in Nodes /\ art[n] # None
              /\ art[n].ap = a /\ art[n].vip = ap[a].vip /\ art[n].port = ap[a].port
              /\ art[n].swarm = ap[a].swarm /\ ap[a].vip \in Vips
<1>1. HandlerOK(a) /\ HandlerRows(a) /\ Calm = Nodes /\ TypeOK
  BY QuietFacts
<1>2. PICK n \in Nodes : n = ap[a].node
  BY <1>1 DEF HandlerOK, SwitchPC
<1>3. art[n] = [ap |-> a, swarm |-> ap[a].swarm, vip |-> ap[a].vip, port |-> ap[a].port]
  BY <1>1, <1>2 DEF HandlerRows
<1>4. ap[a].vip \in Vips /\ ap[a].port \in PortOrNull /\ ap[a].swarm \in {0, 1}
  BY <1>1, ConstantsOK DEF HandlerOK, Vips, Ports, PortOrNull, TypeOK, Handler
<1>5. art[n] \in ArtRow
  BY <1>3, <1>4 DEF ArtRow
<1>6. QED
  BY <1>2, <1>3, <1>4, <1>5, ConstantsOK

\* A handler that moves on.
LEMMA AdvancesEntries ==
    ASSUME Consistent, Quiet, Entries, NEW a \in APs, Advances(a)
    PROVE  Entries'
<1>0. TypeInv /\ TypeOK /\ HandlerRows(a) /\ Calm = Nodes
  BY QuietFacts DEF Consistent
<1>1. /\ <<ap[a].pc, ap'[a].pc>> \in Successors
      /\ SameStation(a) /\ OthersKept(a)
      /\ art' = art /\ connected' = connected /\ co' = co
  BY <1>0, AdvancesMove DEF NoRowChanges, tables
<1>2. CASE ap[a].pc \notin PendingPC
  <2>1. ap'[a].pc \notin PendingPC /\ lpm' = lpm
    BY <1>0, <1>1, <1>2, AdvancesWrite DEF Successors, PendingPC, SwitchPC, DelPhase
  <2>2. QED
    BY <1>1, <1>2, <2>1, EntriesKept DEF OthersKept, SameStation
<1>3. CASE ap[a].pc \in PendingPC
  <2>1. PICK n \in Nodes : n = ap[a].node
    BY <1>0, AdvancesWrite
  <2>2. ap'[a].pc \in PendingPC /\ ap'[a].pc # "delentries" /\ ap'[a].node = n
        /\ (ap'[a].pc = "replicate" => ap[a].pc = "ports")
    BY <1>1, <1>3, <2>1 DEF Successors, PendingPC, SwitchPC, DelPhase, SameStation
  <2>3. Apart(n)
    <3>1. CASE lpm' = lpm
      BY <3>1 DEF Apart
    <3>2. CASE /\ ap[a].pc \in {"ports", "delentries"}
               /\ \A b \in APs : \A w \in Vips \ {ap[a].vip} : lpm'[b][w] = lpm[b][w]
      <4>1. art[n] # None /\ ap[a].vip \in {n, art[n].vip}
        <5>1. CASE ap[a].pc = "ports"
          BY <2>1, <5>1, InstallsItsRow DEF SwitchPC
        <5>2. CASE ap[a].pc = "delentries"
          BY <1>0, <2>1, <5>2 DEF Entries, DeletesOwn, HandlerRows, RegisteredAt
        <5>3. QED
          BY <3>2, <5>1, <5>2
      <4>2. QED
        BY <3>2, <4>1, WritesApart
    <3>3. QED
      BY <1>0, <3>1, <3>2, AdvancesWrite
  <2>4. VipOK(n)' /\ FwdOK(n)'
    <3>1. Pending(n)'
      BY <2>2 DEF Pending, Works
    <3>2. VipOK(n)'
      BY <1>1 DEF Entries, VipOK
    <3>3. QED
      BY <3>1, <3>2 DEF FwdOK
  <2>5. DeletesOwn(a)' /\ OwnEntry(a)'
    BY <1>0, <1>1, <2>2, AdvancesWrite DEF DeletesOwn, OwnEntry, SameStation
  <2>6. QED
    BY <1>1, <2>1, <2>3, <2>4, <2>5, APEntries
<1>4. QED
  BY <1>2, <1>3

\* The last step of a registration.
LEMMA ReplicateForwards ==
    ASSUME Consistent, Quiet, Entries, NEW a \in APs, ReplicateEntries(a)
    PROVE  Entries'
<1>0. TypeOK
  BY QuietFacts
<1>1. /\ ap[a].pc = "replicate" /\ ap'[a].pc = "idle" /\ OthersKept(a)
      /\ UNCHANGED <<art, connected, co>>
  BY <1>0, EndsFinish DEF Ends, ReplicateEntries, NoRowChanges, tables
<1>2. PICK n \in Nodes : n = ap[a].node
  BY <1>1, InstallsItsRow DEF SwitchPC
<1>3. /\ art[n] # None /\ art[n].ap = a /\ art[n].vip = ap[a].vip
      /\ art[n].port = ap[a].port /\ art[n].swarm = ap[a].swarm /\ ap[a].vip \in Vips
  BY <1>1, <1>2, InstallsItsRow DEF SwitchPC
<1>4. PICK hop : /\ hop = [b \in APs |-> IF ap[a].swarm = 0 THEN b ELSE a]
                 /\ lpm' = IF ap[a].swarm = 0
                           THEN [Replicated(a, ap[a].vip, hop) EXCEPT ![a][ap[a].vip] = ap[a].port]
                           ELSE Replicated(a, ap[a].vip, hop)
  BY DEF ReplicateEntries
<1>5. /\ \A b \in APs : \A w \in Vips \ {ap[a].vip} : lpm'[b][w] = lpm[b][w]
      /\ \A b \in KnownAPs \ {a} : lpm'[b][ap[a].vip] \in {b, a}
      /\ ap[a].swarm = 0 => lpm'[a][ap[a].vip] = ap[a].port
      /\ ap[a].swarm # 0 => lpm'[a][ap[a].vip] = lpm[a][ap[a].vip]
  <2>1. PICK others : others = Replicated(a, ap[a].vip, hop)
    OBVIOUS
  <2>2. DOMAIN others = APs /\ \A b \in APs : others[b] =
           IF b # a /\ b \in KnownAPs THEN [lpm[b] EXCEPT ![ap[a].vip] = hop[b]] ELSE lpm[b]
    BY <2>1 DEF Replicated
  <2>3. lpm' = IF ap[a].swarm = 0 THEN [others EXCEPT ![a][ap[a].vip] = ap[a].port]
               ELSE others
    BY <1>4, <2>1
  <2>4. \A b \in APs : lpm[b] \in [Vips -> PortOrNull \cup APs \cup {None}] /\ hop[b] \in {b, a}
    BY <1>0, <1>4 DEF TypeOK
  <2>5. KnownAPs \subseteq APs
    BY ConstantsOK
  <2>6. \A b \in APs \ {a} : lpm'[b] = others[b]
    BY <2>2, <2>3
  <2>7. lpm'[a] = IF ap[a].swarm = 0 THEN [lpm[a] EXCEPT ![ap[a].vip] = ap[a].port]
                  ELSE lpm[a]
    BY <2>2, <2>3
  <2>8. QED
    BY <1>3, <2>2, <2>4, <2>5, <2>6, <2>7
<1>6. Apart(n)
  BY <1>3, <1>5, WritesApart
<1>7. lpm'[a][ap[a].vip] = ap[a].port
  <2>1. ap[a].swarm \in {0, 1}
    BY <1>0 DEF TypeOK, Handler
  <2>2. QED
    BY <1>1, <1>5, <2>1 DEF Entries, OwnEntry
<1>8. Forwarded(n)'
  BY <1>1, <1>3, <1>5, <1>7 DEF Forwarded
<1>9. VipOK(n)' /\ FwdOK(n)'
  BY <1>1, <1>8 DEF Entries, VipOK, FwdOK
<1>10. DeletesOwn(a)' /\ OwnEntry(a)'
  BY <1>1 DEF DeletesOwn, OwnEntry
<1>11. QED
  BY <1>1, <1>2, <1>6, <1>9, <1>10, APEntries

\* The ART row of a station that registers.
LEMMA RegisterEntries ==
    ASSUME Consistent, Quiet, Entries, NEW a \in APs, RegisterInArt(a)
    PROVE  Entries'
<1>0. TypeInv /\ TypeOK /\ HandlerRows(a) /\ HandlerOK(a) /\ Calm = Nodes
  BY QuietFacts DEF Consistent
<1>1. EnterStation(a) /\ UNCHANGED <<co, lpm>>
  BY DEF RegisterInArt, switches
<1>2. PICK n \in Nodes : n = ap[a].node
  BY <1>0, <1>1, EnterStationMoves
<1>3. /\ ap[a].pc = "acked" /\ ap[a].swarm \in {0, 1}
      /\ ap'[a].pc = IF ap[a].swarm = 0 THEN "replicate" ELSE "swarmrow"
      /\ SameStation(a) /\ OthersKept(a)
      /\ connected' = [connected EXCEPT ![a][n] = [vip |-> ap[a].vip, port |-> ap[a].port]]
  BY <1>0, <1>1, <1>2, EnterStationMoves
<1>4. PICK row : row = [ap |-> a, swarm |-> ap[a].swarm, vip |-> ap[a].vip,
                        port |-> ap[a].port]
  OBVIOUS
<1>5. art' = [art EXCEPT ![n] = row]
  BY <1>2, <1>4 DEF RegisterInArt
<1>6. /\ art'[n] = row /\ row.ap = a /\ row.swarm = ap[a].swarm /\ row.vip = ap[a].vip
      /\ connected'[a][n].vip = ap[a].vip
      /\ \A m \in Nodes \ {n} : art'[m] = art[m]
            /\ \A b \in APs : connected'[b][m] = connected[b][m]
  BY <1>0, <1>3, <1>4, <1>5 DEF TypeOK
<1>7. ap[a].swarm = 0 => ap[a].vip = n
  BY <1>0, <1>2, <1>3 DEF HandlerRows
<1>8. ap[a].swarm # 0 => ap[a].vip \in HostIds
  BY <1>0, <1>3 DEF HandlerOK
<1>9. VipOK(n)'
  BY <1>6, <1>7, <1>8 DEF VipOK
<1>10. FwdOK(n)'
  <2>1. Works(a, n)' /\ ap'[a].pc \in PendingPC
    BY <1>2, <1>3 DEF Works, SameStation, PendingPC, SwitchPC
  <2>2. QED
    BY <2>1 DEF FwdOK, Pending
<1>11. DeletesOwn(a)' /\ OwnEntry(a)'
  BY <1>3 DEF DeletesOwn, OwnEntry, SameStation
<1>12. Apart(n)
  BY <1>1 DEF Apart
<1>13. QED
  BY <1>1, <1>2, <1>3, <1>6, <1>9, <1>10, <1>11, <1>12, APEntries

\* The other steps that read or write rows.
LEMMA RowStepEntries ==
    ASSUME Consistent, Quiet, Entries, NEW a \in APs, RowSteps(a)
    PROVE  Entries'
<1>0. TypeInv /\ TypeOK /\ HandlerRows(a) /\ HandlerOK(a) /\ Calm = Nodes
  BY QuietFacts DEF Consistent
<1>1. OthersKept(a) /\ UNCHANGED <<co, lpm>>
  BY <1>0, RowStepsMove
<1>2. PICK n \in Nodes : n = ap[a].node
  BY <1>0, RowStepsMove
<1>3. Apart(n)
  BY <1>1 DEF Apart
<1>4. CASE ReadArt(a) \/ GetHostId(a)
  <2>1. /\ {ap[a].pc, ap'[a].pc} \cap PendingPC = {}
        /\ art' = art /\ connected' = connected
    BY <1>0, <1>4, ReadArtMoves, GetHostIdMoves
       DEF PendingPC, SwitchPC, DelPhase, tables
  <2>2. QED
    BY <1>1, <2>1, EntriesKept DEF OthersKept, SameStation
<1>5. CASE RegisterInArt(a)
  BY <1>5, RegisterEntries
<1>6. CASE RegisterInSwarm(a)
  <2>1. /\ ap[a].pc = "swarmrow" /\ ap'[a].pc = "dump" /\ ap'[a].node = n
        /\ connected' = connected
    BY <1>0, <1>2, <1>6, RowWritesMove DEF SameStation
  <2>2. art' = art
    BY <1>6 DEF RegisterInSwarm
  <2>3. Pending(n)'
    BY <2>1 DEF Pending, Works, PendingPC, SwitchPC
  <2>4. VipOK(n)' /\ FwdOK(n)'
    BY <2>1, <2>2, <2>3 DEF Entries, VipOK, FwdOK
  <2>5. DeletesOwn(a)' /\ OwnEntry(a)'
    BY <2>1 DEF DeletesOwn, OwnEntry
  <2>6. QED
    BY <1>1, <1>2, <1>3, <2>1, <2>2, <2>4, <2>5, APEntries
<1>7. CASE RemoveStation(a)
  <2>1. /\ ap'[a].pc = "delentries" /\ ap'[a].node = n
        /\ art[n] # None /\ art[n].ap = a /\ connected[a][n] # None
        /\ ap'[a].vip = connected[a][n].vip
        /\ connected' = [connected EXCEPT ![a][n] = None] /\ art' = art
    BY <1>0, <1>2, <1>7, RemoveStationMoves DEF RegisteredAt, tables
  <2>2. /\ connected'[a][n] = None
        /\ \A m \in Nodes \ {n} : \A b \in APs : connected'[b][m] = connected[b][m]
    BY <1>0, <2>1 DEF TypeOK
  <2>3. VipOK(n)
    BY DEF Entries
  <2>4. ap'[a].vip \in {n, art[n].vip} /\ VipOK(n)'
    BY <2>1, <2>2, <2>3 DEF VipOK
  <2>5. Pending(n)'
    BY <2>1 DEF Pending, Works, PendingPC, DelPhase
  <2>6. FwdOK(n)' /\ DeletesOwn(a)' /\ OwnEntry(a)'
    BY <2>1, <2>4, <2>5 DEF FwdOK, DeletesOwn, OwnEntry
  <2>7. QED
    BY <1>1, <1>2, <1>3, <2>1, <2>2, <2>4, <2>6, APEntries
<1>8. CASE DeleteFromArt(a)
  <2>1. ap'[a].pc = "delswarm" /\ connected' = connected
    <3>1. ~RegisterInSwarm(a)
      BY <1>8 DEF DeleteFromArt, RegisterInSwarm, Step
    <3>2. QED
      BY <1>0, <1>8, <3>1, RowWritesMove
  <2>2. art'[n] = None /\ \A m \in Nodes \ {n} : art'[m] = art[m]
    BY <1>0, <1>2, <1>8 DEF DeleteFromArt, TypeOK
  <2>3. VipOK(n)' /\ FwdOK(n)' /\ DeletesOwn(a)' /\ OwnEntry(a)'
    BY <2>1, <2>2 DEF VipOK, FwdOK, DeletesOwn, OwnEntry
  <2>4. QED
    BY <1>1, <1>2, <1>3, <2>1, <2>2, <2>3, APEntries
<1>9. QED
  BY <1>4, <1>5, <1>6, <1>7, <1>8 DEF RowSteps

\* The end of a lost station's handler, whether or not it deletes a row of
\* Swarm_Table: the node is not registered any more.
LEMMA DeleteTunnelEntries ==
    ASSUME Consistent, Quiet, Entries, NEW a \in APs, DeleteTunnel(a),
           UNCHANGED <<art, connected, co, lpm>>
    PROVE  Entries'
<1>0. TypeInv /\ Calm = Nodes /\ HandlerRows(a)
  BY QuietFacts DEF Consistent
<1>1. /\ ap[a].pc = "delswarm" /\ ap'[a].pc = "idle" /\ OthersKept(a)
      /\ ap[a].node \in Nodes
  BY <1>0, DeleteTunnelMoves
<1>2. PICK n \in Nodes : n = ap[a].node
  BY <1>1
<1>3. art[n] = None
  BY <1>0, <1>1, <1>2 DEF HandlerRows
<1>4. VipOK(n)' /\ FwdOK(n)' /\ DeletesOwn(a)' /\ OwnEntry(a)'
  BY <1>1, <1>3 DEF VipOK, FwdOK, DeletesOwn, OwnEntry
<1>5. Apart(n)
  BY DEF Apart
<1>6. QED
  BY <1>1, <1>2, <1>4, <1>5, APEntries

\* Every step of an AP manager after which all is quiet.
LEMMA APStepEntries ==
    ASSUME Consistent, Quiet, Quiet', Entries, NEW a \in APs, APStep(a)
    PROVE  Entries'
<1>0. TypeInv /\ TypeOK
  BY DEF Consistent, TypeInv
<1>1. CASE UNCHANGED <<ap, tables, connected, tunnel, co, disturbed, restarts, lpm>>
  BY <1>1, EntriesKept DEF SameStation, tables
<1>2. CASE NewStation(a) \/ LostStation(a)
  <2>1. /\ ap[a].pc = "idle" /\ ap'[a].pc \in {"arp", "del"} /\ OthersKept(a)
        /\ UNCHANGED <<art, connected, co, lpm>>
    BY <1>0, <1>2, StartsAlone DEF tables
  <2>2. {ap[a].pc, ap'[a].pc} \cap PendingPC = {}
    BY <2>1 DEF PendingPC, SwitchPC, DelPhase
  <2>3. QED
    BY <2>1, <2>2, EntriesKept DEF OthersKept, SameStation
<1>3. CASE Advances(a)
  BY <1>3, AdvancesEntries
<1>4. CASE ReplicateEntries(a)
  BY <1>4, ReplicateForwards
<1>5. CASE Ends(a) /\ ~ReplicateEntries(a)
  <2>1. /\ ap'[a].pc = "idle" /\ OthersKept(a) /\ UNCHANGED <<art, connected, co>>
    BY <1>0, <1>5, EndsFinish DEF NoRowChanges, tables
  <2>2. ap[a].pc \in {"arp", "send", "await", "del", "grace", "reread"} /\ lpm' = lpm
    BY <1>5 DEF Ends, ArpMiss, SendConfigFails, ConfigTimeout, IgnoreLostStation,
                StationCameBack, StationMoved, switches
  <2>3. {ap[a].pc, ap'[a].pc} \cap PendingPC = {}
    BY <2>1, <2>2 DEF PendingPC, SwitchPC, DelPhase
  <2>4. QED
    BY <2>1, <2>2, <2>3, EntriesKept DEF OthersKept, SameStation
<1>6. CASE APManagerDies(a)
  <2>1. /\ ap[a].pc \in {"arp", "hostid"} /\ ap'[a].pc = "dead" /\ OthersKept(a)
        /\ UNCHANGED <<art, connected, co, lpm>>
    BY <1>0, <1>6, DiesMoves DEF Quiet, tables
  <2>2. {ap[a].pc, ap'[a].pc} \cap PendingPC = {}
    BY <2>1 DEF PendingPC, SwitchPC, DelPhase
  <2>3. QED
    BY <2>1, <2>2, EntriesKept DEF OthersKept, SameStation
<1>7. CASE RowSteps(a)
  BY <1>7, RowStepEntries
<1>8. CASE DeleteFromSwarm(a)
  BY <1>8, DeleteTunnelEntries DEF DeleteFromSwarm, switches
<1>9. QED
  BY <1>1, <1>2, <1>3, <1>4, <1>5, <1>6, <1>7, <1>8, APStepKinds

-------------------------------------------------------------------------------
(* The steps of the coordinator.                                           *)

\* The ART row of a node that joins.
LEMMA UpdateEntries ==
    ASSUME Consistent, Quiet, Entries, UpdateArt
    PROVE  Entries'
<1>0. TypeInv /\ TypeOK /\ Calm = Nodes
  BY QuietFacts DEF Consistent
<1>1. co.pc = "artrow" /\ co'.pc = "dump" /\ SameRequest
  BY <1>0, CoSteps DEF UpdateArt, CoPCs, SwitchPC
<1>2. PICK t : t = co.todo[1]
  OBVIOUS
<1>3. /\ Head(co.todo) = t /\ t \in Task /\ TaskRow(1) /\ Joining(t.node)
      /\ t.node \in Nodes
  BY <1>1, <1>2, CoWorksOn
<1>4. PICK n \in Nodes : n = t.node
  BY <1>3
<1>5. PICK row : row = [ap |-> t.ap, swarm |-> 1, vip |-> t.hid,
                        port |-> IF art[n] = None THEN 0 ELSE art[n].port]
  OBVIOUS
<1>6. /\ art' = [art EXCEPT ![n] = row]
      /\ UNCHANGED <<ap, connected, lpm>>
  BY <1>3, <1>4, <1>5 DEF UpdateArt, apLocals, switches
<1>7. /\ art'[n] = row /\ row.ap = t.ap /\ row.swarm = 1 /\ row.vip = t.hid
      /\ \A m \in Nodes \ {n} : art'[m] = art[m]
  BY <1>0, <1>5, <1>6 DEF TypeOK
<1>8. art[n] # None /\ art[n].ap = t.ap /\ art[n].swarm = 0
  BY <1>0, <1>1, <1>2, <1>4, <1>3 DEF TaskRow, SwitchPC
<1>9. t.hid \in HostIds
  <2>1. 1 \in DOMAIN co.todo /\ co.pc # "ids"
    BY <1>1, CoWorksOn
  <2>2. QED
    BY <1>0, <1>2, <2>1 DEF TypeInv, TasksOK
<1>10. VipOK(n)'
  <2>1. VipOK(n)
    BY DEF Entries
  <2>2. QED
    BY <1>6, <1>7, <1>8, <1>9, <2>1 DEF VipOK
<1>11. FwdOK(n)'
  BY <1>1, <1>3, <1>4 DEF FwdOK, Pending, SwitchPC, SameRequest
<1>12. CoOwnEntry' /\ Apart(n)
  BY <1>1, <1>6 DEF CoOwnEntry, Apart
<1>13. QED
  BY <1>1, <1>3, <1>4, <1>6, <1>7, <1>10, <1>11, <1>12, CoEntries DEF SwitchPC

\* The coordinator's entry on the node's AP, then those on the others.
LEMMA CoWritesEntries ==
    ASSUME Consistent, Quiet, Entries, CoUpdatePorts \/ CoReplicateEntries
    PROVE  Entries'
<1>0. TypeInv /\ TypeOK /\ Calm = Nodes
  BY QuietFacts DEF Consistent
<1>1. /\ co.pc = IF CoUpdatePorts THEN "ports" ELSE "replicate"
      /\ UNCHANGED <<ap, art, connected>>
  BY DEF CoUpdatePorts, CoReplicateEntries, CoStep, tables, apLocals
<1>2. PICK t : t = co.todo[1]
  OBVIOUS
<1>3. /\ Head(co.todo) = t /\ t \in Task /\ TaskRow(1) /\ Joining(t.node)
      /\ t.node \in Nodes /\ 1 \in DOMAIN co.todo
  BY <1>1, <1>2, CoWorksOn DEF SwitchPC
<1>4. PICK n \in Nodes : n = t.node
  BY <1>3
<1>5. /\ art[n] # None /\ art[n].ap = t.ap /\ art[n].port = t.port
      /\ art[n].vip = t.hid
  BY <1>0, <1>1, <1>2, <1>3, <1>4 DEF TaskRow, SwitchPC
<1>6. t.ap \in APs /\ t.hid \in Vips
  <2>1. t.hid \in HostIds
    BY <1>0, <1>1, <1>2, <1>3 DEF TypeInv, TasksOK
  <2>2. QED
    BY <1>3, <2>1 DEF Task, Vips
<1>7. VipOK(n)'
  BY <1>1 DEF Entries, VipOK
<1>8. CASE CoUpdatePorts
  <2>1. lpm' = [lpm EXCEPT ![t.ap][t.hid] = t.port]
    BY <1>3, <1>8 DEF CoUpdatePorts
  <2>2. co'.pc = "replicate" /\ co'.todo = co.todo
    BY <1>0, <1>1, <1>8, CoSwitchSteps DEF SameRequest
  <2>3. /\ lpm'[t.ap][t.hid] = t.port
        /\ \A b \in APs : \A w \in Vips \ {t.hid} : lpm'[b][w] = lpm[b][w]
    BY <1>0, <1>6, <2>1 DEF TypeOK
  <2>4. Apart(n)
    BY <1>5, <2>3, WritesApart
  <2>5. CoOwnEntry' /\ FwdOK(n)'
    BY <1>3, <1>4, <2>2, <2>3 DEF CoOwnEntry, FwdOK, Pending, SwitchPC
  <2>6. QED
    BY <1>1, <1>3, <1>4, <1>7, <2>4, <2>5, CoEntries
<1>9. CASE ~CoUpdatePorts
  <2>1. lpm' = Replicated(t.ap, t.hid, [b \in APs |-> b]) /\ CoReplicateEntries
    BY <1>3, <1>9 DEF CoReplicateEntries
  <2>2. co'.pc = "task"
    BY <1>0, <2>1, CoDropsFirst DEF CoDrops
  <2>3. /\ \A b \in APs : \A w \in Vips \ {t.hid} : lpm'[b][w] = lpm[b][w]
        /\ \A b \in KnownAPs \ {t.ap} : lpm'[b][t.hid] = b
        /\ lpm'[t.ap][t.hid] = lpm[t.ap][t.hid]
    BY <1>0, <1>6, <2>1, ConstantsOK DEF Replicated, TypeOK
  <2>4. Apart(n)
    BY <1>5, <2>3, WritesApart
  <2>5. lpm[t.ap][t.hid] = t.port
    BY <1>1, <1>3, <1>9 DEF Entries, CoOwnEntry
  <2>6. Forwarded(n)'
    BY <1>1, <1>5, <2>3, <2>5 DEF Forwarded
  <2>7. FwdOK(n)' /\ CoOwnEntry'
    BY <2>2, <2>6 DEF FwdOK, CoOwnEntry
  <2>8. QED
    BY <1>1, <1>3, <1>4, <1>7, <2>4, <2>7, CoEntries
<1>10. QED
  BY <1>8, <1>9

\* Every step of the coordinator.
LEMMA CoordinatorEntries ==
    ASSUME Consistent, Quiet, Entries, CoordinatorStep
    PROVE  Entries'
<1>0. TypeInv
  BY DEF Consistent
<1>1. CASE UpdateArt
  BY <1>1, UpdateEntries
<1>2. CASE CoUpdatePorts \/ CoReplicateEntries
  BY <1>2, CoWritesEntries
<1>3. CASE ~UpdateArt /\ ~CoUpdatePorts /\ ~CoReplicateEntries
  <2>1. UNCHANGED <<art, ap, connected, lpm>>
    BY <1>3 DEF CoordinatorStep, AssignHostIds, TooFewHostIds, SendJoinConfig, SendGoAway,
                TaskFails, InsertSwarmRow, CoDumpPorts, Answer, CloseUnanswered,
                tables, apLocals, switches
  <2>2. CASE CoDumpPorts
    <3>1. co'.todo = co.todo /\ co'.pc = "ports"
      <4>1. co.pc = "dump"
        BY <2>2 DEF CoDumpPorts
      <4>2. QED
        BY <1>0, <2>2, <4>1, CoSwitchSteps DEF SameRequest
    <3>2. QED
      BY <2>1, <3>1, EntriesKept DEF SameStation, SwitchPC
  <2>3. CASE ~CoDumpPorts
    <3>1. {co.pc, co'.pc} \cap SwitchPC = {}
      <4>1. CASE CoEnds
        BY <4>1, CoEndsIdle DEF IdleCoordinator, SwitchPC
      <4>2. CASE TaskFails
        <5>1. co.pc = "task"
          BY <4>2 DEF TaskFails
        <5>2. QED
          BY <1>0, <4>2, <5>1, CoDropsFirst DEF CoDrops, SwitchPC
      <4>3. CASE SendJoinConfig \/ SendGoAway
        BY <1>0, <4>3, CoSends DEF SwitchPC
      <4>4. CASE AssignHostIds \/ TooFewHostIds
        BY <1>0, <4>4, CoAssigns DEF SwitchPC
      <4>5. CASE InsertSwarmRow
        BY <1>0, <4>5, CoSteps DEF InsertSwarmRow, CoPCs, SwitchPC
      <4>6. QED
        BY <1>3, <2>3, <4>1, <4>2, <4>3, <4>4, <4>5 DEF CoordinatorStep, CoEnds
    <3>2. QED
      BY <2>1, <3>1, EntriesKept DEF SameStation
  <2>4. QED
    BY <2>2, <2>3
<1>4. QED
  BY <1>1, <1>2, <1>3

-------------------------------------------------------------------------------
(* The theorem.                                                            *)

\* Restarts are never uncounted.
LEMMA RestartsGrow ==
    ASSUME TypeOK, [Next]_vars, restarts' = 0
    PROVE  restarts = 0
<1>1. CASE \E a \in APs : APStep(a)
  BY <1>1 DEF APStep, DropRepeatedLine, SkipConnectedStation, NewStation, LostStation,
              ArpMiss, ReadArt, GetHostId, APManagerDies, SendConfig, SendConfigFails,
              ConfigTimeout, RegisterInArt, RegisterInSwarm, DumpPorts, UpdatePorts,
              ReplicateEntries, IgnoreLostStation, StartGrace, StationCameBack,
              GraceOver, StationMoved, RemoveStation, DeleteEntries,
              DumpPortsToDelete, DeletePort, DeleteFromArt, DeleteFromSwarm, bounds
<1>2. CASE CoordinatorStep
  BY <1>2 DEF CoordinatorStep, AssignHostIds, TooFewHostIds, SendJoinConfig, SendGoAway,
              TaskFails, InsertSwarmRow, UpdateArt, CoDumpPorts, CoUpdatePorts,
              CoReplicateEntries, Answer, CloseUnanswered, bounds
<1>3. CASE \E n \in Nodes : NodeStep(n)
  BY <1>3 DEF NodeStep, HandleMessage, LeaveNetwork, ReturnToNetwork, bounds
<1>4. CASE Environment
  <2>1. CASE RestartCoordinator \/ \E a \in APs : RestartAPManager(a)
    <3>1. restarts' = restarts + 1 /\ restarts \in Nat
      BY <2>1 DEF RestartCoordinator, RestartAPManager, TypeOK
    <3>2. QED
      BY <3>1
  <2>2. CASE ~(RestartCoordinator \/ \E a \in APs : RestartAPManager(a))
    BY <1>4, <2>2 DEF Environment, Associate, Disassociate, SpuriousDetection,
                      AcceptRequest, APQueryFails, CoQueryFails
  <2>3. QED
    BY <2>1, <2>2
<1>5. CASE UNCHANGED vars
  BY <1>5 DEF vars, bounds
<1>6. QED
  BY <1>1, <1>2, <1>3, <1>4, <1>5 DEF Next

\* All was quiet before a step after which all is quiet.
LEMMA QuietBefore ==
    ASSUME TypeOK, [Next]_vars, Quiet'
    PROVE  Quiet
<1>1. CASE \E a \in APs : DeleteFromSwarm(a)
  BY <1>1 DEF DeleteFromSwarm, Quiet
<1>2. CASE ~ \E a \in APs : DeleteFromSwarm(a)
  <2>1. healed' = healed
    <3>1. CASE \E a \in APs : APStep(a)
      BY <1>2, <3>1
         DEF APStep, DropRepeatedLine, SkipConnectedStation, NewStation, LostStation,
             ArpMiss, ReadArt, GetHostId, APManagerDies, SendConfig, SendConfigFails,
             ConfigTimeout, RegisterInArt, RegisterInSwarm, DumpPorts, UpdatePorts,
             ReplicateEntries, IgnoreLostStation, StartGrace, StationCameBack,
             GraceOver, StationMoved, RemoveStation, DeleteEntries,
             DumpPortsToDelete, DeletePort, DeleteFromArt, bounds
    <3>2. CASE CoordinatorStep
      BY <3>2 DEF CoordinatorStep, AssignHostIds, TooFewHostIds, SendJoinConfig,
                  SendGoAway, TaskFails, InsertSwarmRow, UpdateArt, CoDumpPorts,
                  CoUpdatePorts, CoReplicateEntries, Answer, CloseUnanswered, bounds
    <3>3. CASE \E n \in Nodes : NodeStep(n)
      BY <3>3 DEF NodeStep, HandleMessage, LeaveNetwork, ReturnToNetwork, bounds
    <3>4. CASE Environment
      BY <3>4 DEF Environment, Associate, Disassociate, SpuriousDetection, AcceptRequest,
                  RestartAPManager, APQueryFails, RestartCoordinator, CoQueryFails
    <3>5. CASE UNCHANGED vars
      BY <3>5 DEF vars, bounds
    <3>6. QED
      BY <3>1, <3>2, <3>3, <3>4, <3>5 DEF Next
  <2>2. restarts = 0
    BY RestartsGrow DEF Quiet
  <2>3. QED
    BY <1>2, <2>1, <2>2, DisturbedGrows DEF Quiet
<1>3. QED
  BY <1>1, <1>2

\* FwdInv is inductive.
LEMMA FwdInvStep == Consistent /\ FwdInv /\ [Next]_vars => FwdInv'
<1> SUFFICES ASSUME Consistent, FwdInv, [Next]_vars, Quiet'
             PROVE  Entries'
  BY DEF FwdInv
<1>0. TypeInv /\ TypeOK
  BY DEF Consistent, TypeInv
<1>1. Quiet
  BY <1>0, QuietBefore
<1>2. Entries
  BY <1>1 DEF FwdInv
<1>3. ASSUME UNCHANGED <<art, ap, connected, co, lpm>>
      PROVE  Entries'
  BY <1>1, <1>2, <1>3, EntriesKept DEF SameStation
<1>4. ASSUME NEW a \in APs, APStep(a)
      PROVE  Entries'
  BY <1>1, <1>2, <1>4, APStepEntries
<1>5. CASE CoordinatorStep
  BY <1>1, <1>2, <1>5, CoordinatorEntries
<1>6. ASSUME NEW n \in Nodes, NodeStep(n)
      PROVE  Entries'
  <2>1. \A a \in APs : /\ SameStation(a)
                       /\ \/ ap'[a].pc = ap[a].pc
                          \/ ap[a].pc = "await" /\ ap'[a].pc = "acked"
    BY <1>0, <1>6, MessageAcks
  <2>2. UNCHANGED <<art, connected, co, lpm>>
    BY <1>6 DEF NodeStep, HandleMessage, LeaveNetwork, ReturnToNetwork, tables, apLocals,
                switches
  <2>3. \A a \in APs : \/ SameStation(a) /\ ap'[a].pc = ap[a].pc
                       \/ {ap[a].pc, ap'[a].pc} \cap PendingPC = {}
    BY <2>1 DEF PendingPC, SwitchPC, DelPhase
  <2>4. QED
    BY <1>1, <1>2, <2>2, <2>3, EntriesKept
<1>7. CASE Environment
  <2>1. ASSUME NEW S \in SUBSET Nodes, AcceptRequest("njl", S) \/ AcceptRequest("nll", S)
        PROVE  Entries'
    <3>1. UNCHANGED <<art, ap, connected, lpm>>
      BY <2>1 DEF AcceptRequest, tables, apLocals, switches
    <3>2. co.pc = "idle" /\ co'.pc \in {"idle", "ids"}
      <4>1. PICK kind \in {"njl", "nll"} : AcceptRequest(kind, S)
        BY <2>1
      <4>2. PICK todo : co' = IdleCoordinator \/
               co' = [IdleCoordinator EXCEPT !.pc = "ids", !.kind = kind, !.todo = todo]
        BY <4>1 DEF AcceptRequest
      <4>3. QED
        BY <4>1, <4>2 DEF AcceptRequest, IdleCoordinator
    <3>3. QED
      BY <1>1, <1>2, <3>1, <3>2, EntriesKept DEF SameStation, SwitchPC
  <2>2. CASE RestartCoordinator \/ \E a \in APs : RestartAPManager(a)
    <3>1. restarts' = restarts + 1 /\ restarts \in Nat
      BY <1>0, <2>2 DEF RestartCoordinator, RestartAPManager, TypeOK
    <3>2. QED
      BY <3>1 DEF Quiet
  <2>3. ASSUME NEW a \in APs, APQueryFails(a)
        PROVE  Entries'
    <3>1. /\ ap'[a].pc \in {"idle", "dead"} /\ OthersKept(a)
          /\ ap[a].pc \in {"arp", "hostid", "del", "reread"} \/ DeleteTunnel(a)
          /\ UNCHANGED <<art, connected, co, lpm>>
      BY <1>0, <2>3, APQueryFailsMoves DEF Quiet, tables
    <3>2. CASE DeleteTunnel(a)
      BY <1>1, <1>2, <3>1, <3>2, DeleteTunnelEntries
    <3>3. CASE ap[a].pc \in {"arp", "hostid", "del", "reread"}
      <4>1. {ap[a].pc, ap'[a].pc} \cap PendingPC = {}
        BY <3>1, <3>3 DEF PendingPC, SwitchPC, DelPhase
      <4>2. QED
        BY <1>1, <1>2, <3>1, <4>1, EntriesKept DEF OthersKept, SameStation
    <3>4. QED
      BY <3>1, <3>2, <3>3
  <2>4. CASE CoQueryFails
    <3>1. /\ co.pc = "ids" /\ co' = IdleCoordinator
          /\ UNCHANGED <<art, ap, connected, lpm>>
      BY <1>0, <2>4, CoQueryFailsMoves DEF Quiet, tables
    <3>2. QED
      BY <1>1, <1>2, <3>1, EntriesKept DEF SameStation, IdleCoordinator, SwitchPC
  <2>5. CASE \E n \in Nodes : (\E a \in APs : Associate(n, a)) \/ Disassociate(n)
                              \/ SpuriousDetection(n)
    BY <1>3, <2>5, RadioKeeps DEF tables
  <2>6. QED
    BY <1>7, <2>1, <2>2, <2>3, <2>4, <2>5 DEF Environment
<1>8. CASE UNCHANGED vars
  BY <1>3, <1>8 DEF vars, tables, apLocals, switches
<1>9. QED
  BY <1>4, <1>5, <1>6, <1>7, <1>8 DEF Next

\* Once no handler is at work and nothing was ever disturbed, every registered
\* node is forwarded to: by its own AP's switch to its port, by the other known
\* APs' to the backbone and never to an AP the node has left, whichever host ids
\* were freed and given out before.
THEOREM RegisteredAreForwarded == Spec => []RegisteredIsForwarded
<1>1. Init => FwdInv
  <2> SUFFICES ASSUME Init
               PROVE  Entries
    BY DEF FwdInv
  <2>1. \A a \in APs : ap[a].pc = "idle"
    BY DEF Init, IdleHandler
  <2>2. co.pc = "idle" /\ \A n \in Nodes : art[n] = None
    BY DEF Init, IdleCoordinator
  <2>3. QED
    BY <2>1, <2>2 DEF Entries, VipOK, FwdOK, DeletesOwn, OwnEntry, CoOwnEntry
<1>2. Consistent /\ FwdInv => RegisteredIsForwarded
  <2> SUFFICES ASSUME Consistent, FwdInv, Quiet, NEW n \in Nodes, art[n] # None,
                      ~Contended(n)
               PROVE  Forwarded(n)
    BY DEF RegisteredIsForwarded, Quiet, Forwarded
  <2>1. ~ \E a \in APs : Works(a, n)
    BY DEF Contended
  <2>2. ~(co.pc \in SwitchPC /\ Head(co.todo).node = n)
    BY CoWorksOn DEF Contended
  <2>3. QED
    BY <2>1, <2>2 DEF FwdInv, Entries, FwdOK, Pending
<1>3. QED
  BY <1>1, <1>2, FwdInvStep, ConsistentAlways, PTL DEF Spec
===============================================================================

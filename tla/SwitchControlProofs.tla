-------------------------- MODULE SwitchControlProofs --------------------------
(***************************************************************************)
(* Theorems about SwitchControl for every set of access points, programs,  *)
(* keys and ports and every bound: the types, that a loop that ends has    *)
(* visited every access point, and that calls which do not overlap leave   *)
(* the broadcast group and the table entries as they were asked to be.     *)
(***************************************************************************)
EXTENDS SwitchControl, TLAPS

-------------------------------------------------------------------------------
(* The types, group by group.                                              *)

Calls ==
    [pc : {"idle", "dump", "parse", "update", "find", "add", "modify", "delete",
           "loop", "reset", "mgrp", "node", "ended"},
     op : {"none", "failed", "insert", "remove", "set", "unset"},
     sw : APs \cup {None}, arg : Ports \cup Keys \cup {None},
     val : Values \cup {None}, boot : Nat, snap : (SUBSET Ports) \cup {Bare},
     torn : BOOLEAN, handle : Nat, loop : BOOLEAN, size : Nat, pos : Nat,
     skip : APs \cup {None}, seen : SUBSET APs]

SwitchesType ==
    /\ table \in [APs -> [Keys -> [handle : Nat, value : Values \cup {None}]]]
    /\ handle \in [APs -> Nat] /\ boot \in [APs -> Nat]
    /\ group \in [APs -> (SUBSET Ports) \cup {Bare}]

ProgramsType ==
    /\ run \in [APs -> Nat]
    /\ order \in [Programs -> Seq(APs)]
    /\ conn \in [Programs -> [APs -> [ts : Nat, boot : Nat]]]
    /\ own \in [Managers -> Nat] /\ schema \in [Programs -> BOOLEAN]
    /\ listener \in [Programs -> [pc : {"wait", "load", "ended"},
                                  ap : APs \cup {None}, ts : Nat, boot : Nat,
                                  bound : BOOLEAN]]

HistoryType ==
    /\ ports \in [APs -> (SUBSET Ports) \cup {Bare}]
    /\ entries \in [APs -> [Keys -> Values \cup {None}]]
    /\ mixed \subseteq APs /\ mixedKeys \subseteq APs \X Keys
    /\ calls \in Nat /\ mishaps \in Nat
    /\ \A s \in APs : group[s] = Bare <=> ports[s] = Bare

MainType == main \in [Programs -> Calls]

\* What each step of a call knows of it, and that no instance reaches a later
\* start of a switch than there has been.
LoopShape(p, m) ==
    /\ m.arg \in Keys /\ m.size <= Len(order[p])
    /\ m.pos >= 1 /\ m.pos <= m.size + 1
    /\ m.seen = {order[p][i] : i \in 1 .. m.pos - 1}

Shape(p, m) ==
    /\ m.pc \in {"dump", "parse", "update"} => m.sw \in APs /\ m.arg \in Ports
    /\ m.pc \in {"find", "add", "modify", "delete"} => m.sw \in APs /\ m.arg \in Keys
    /\ m.pc = "update" => m.snap \notin {{}, Bare}
    /\ m.pc = "loop" => m.loop
    /\ m.pc \in {"reset", "mgrp", "node"} => p \in Managers /\ m.sw = p
    /\ m.sw \in APs => m.boot <= boot[m.sw]
    /\ m.loop => LoopShape(p, m)

Boots ==
    /\ \A p \in Programs, a \in APs : conn[p][a].boot <= boot[a]
    /\ \A a \in Managers : own[a] <= boot[a]
    /\ \A p \in Programs :
          listener[p].pc = "load" =>
              listener[p].ap \in APs /\ listener[p].boot <= boot[listener[p].ap]

TypeInv ==
    /\ SwitchesType /\ ProgramsType /\ HistoryType /\ MainType
    /\ Boots /\ \A p \in Programs : Shape(p, main[p])

LEMMA TypeInvImplies == TypeInv => TypeOK
  BY DEF TypeInv, SwitchesType, ProgramsType, HistoryType, MainType, Calls, TypeOK

\* Nobody is known and no call is under way.
LEMMA InitTypeInv == Init => TypeInv
<1> SUFFICES ASSUME Init
             PROVE  TypeInv
  OBVIOUS
<1>1. SwitchesType
  BY SwitchConstants DEF Init, SwitchesType, Empty, NoEntry, Values
<1>2. ProgramsType
  BY DEF Init, ProgramsType, Unknown, Waiting, Managers
<1>3. HistoryType
  BY SwitchConstants DEF Init, HistoryType
<1>4. MainType
  BY DEF Init, MainType, Calls, Idle
<1>5. Boots
  BY DEF Init, Boots, Unknown, Waiting, Managers
<1>6. \A p \in Programs : Shape(p, main[p])
  BY SwitchConstants DEF Init, Shape, Idle
<1>7. QED
  BY <1>1, <1>2, <1>3, <1>4, <1>5, <1>6 DEF TypeInv

\* A step of one program: its call goes to another state, and what it knows of
\* the access points may change.
LEMMA OneProgram ==
    ASSUME TypeInv, NEW p \in Programs, NEW n \in Calls, Become(p, n), Shape(p, n)',
           UNCHANGED boot, \A q \in Programs : q # p => order'[q] = order[q]
    PROVE  MainType' /\ \A q \in Programs : Shape(q, main[q])'
<1>1. MainType' /\ main'[p] = n /\ \A q \in Programs : q # p => main'[q] = main[q]
  BY DEF TypeInv, MainType, Become
<1>2. ASSUME NEW q \in Programs
      PROVE  Shape(q, main[q])'
  <2>1. CASE q = p
    BY <1>1, <2>1 DEF Shape, LoopShape
  <2>2. CASE q # p
    <3>1. PICK m : m = main[q] /\ main'[q] = m
      BY <1>1, <2>2
    <3>2. Shape(q, m)
      BY <3>1 DEF TypeInv
    <3>3. Shape(q, m)'
      BY <2>2, <3>2 DEF Shape, LoopShape
    <3>4. QED
      BY <3>1, <3>3 DEF Shape, LoopShape
  <2>3. QED
    BY <2>1, <2>2
<1>3. QED
  BY <1>1, <1>2

LEMMA OneCall ==
    ASSUME TypeInv, NEW p \in Programs, NEW n \in Calls, Become(p, n), Shape(p, n),
           UNCHANGED <<boot, order>>
    PROVE  MainType' /\ \A q \in Programs : Shape(q, main[q])'
<1>1. Shape(p, n)'
  BY DEF Shape, LoopShape
<1>2. QED
  BY <1>1, OneProgram

\* Where a call goes when it is over.
LEMMA Over ==
    ASSUME TypeInv, NEW p \in Programs, Return(p) \/ Raise(p)
    PROVE  \E n \in Calls : /\ Become(p, n) /\ Shape(p, n)
                            /\ n.pc \in {"loop", "idle", "ended"} /\ n.sw = None
<1>1. main[p] \in Calls /\ Shape(p, main[p])
  BY DEF TypeInv, MainType
<1>2. CASE Return(p) /\ main[p].loop
  <2> DEFINE n == [main[p] EXCEPT !.pc = "loop", !.sw = None, !.handle = 0]
  <2>1. /\ n \in Calls /\ n.loop /\ n.pc = "loop" /\ n.sw = None
        /\ n.arg = main[p].arg /\ n.size = main[p].size /\ n.pos = main[p].pos
        /\ n.seen = main[p].seen
    BY <1>1, <1>2 DEF Calls
  <2>2. Become(p, n)
    BY <1>2 DEF Return
  <2> HIDE DEF n
  <2>3. Shape(p, n)
    BY <1>1, <1>2, <2>1, SwitchConstants DEF Shape, LoopShape
  <2>4. QED
    BY <2>1, <2>2, <2>3
<1>3. CASE ~ (Return(p) /\ main[p].loop)
  <2> DEFINE failed == [Idle EXCEPT !.op = "failed"]
             ended == [Idle EXCEPT !.pc = "ended"]
  <2>1. Become(p, Idle) \/ Become(p, failed) \/ Become(p, ended)
    BY <1>3 DEF Return, Raise
  <2>2. /\ Idle \in Calls /\ Idle.pc = "idle" /\ Idle.sw = None /\ ~ Idle.loop
        /\ failed \in Calls /\ failed.pc = "idle" /\ failed.sw = None /\ ~ failed.loop
    BY DEF Idle, Calls
  <2>3. ended \in Calls /\ ended.pc = "ended" /\ ended.sw = None /\ ~ ended.loop
    BY DEF Idle, Calls
  <2> HIDE DEF failed, ended
  <2>4. Shape(p, Idle) /\ Shape(p, failed) /\ Shape(p, ended)
    BY <2>2, <2>3, SwitchConstants DEF Shape
  <2>5. QED
    BY <2>1, <2>2, <2>3, <2>4
<1>4. QED
  BY <1>2, <1>3

LEMMA ProgramsKept ==
    TypeInv /\ UNCHANGED <<boot, run, shared, listener>> => ProgramsType' /\ Boots'
  BY DEF TypeInv, ProgramsType, Boots, shared

LEMMA SwitchesKept ==
    TypeInv /\ UNCHANGED switches => SwitchesType'
  BY DEF TypeInv, SwitchesType, switches

-------------------------------------------------------------------------------
(* The steps of the main thread.                                           *)

LEMMA StartsType ==
    ASSUME TypeInv, NEW p \in Programs, CallStarts(p)
    PROVE  TypeInv'
<1>0. UNCHANGED <<switches, run, shared, listener, history, mishaps>> /\ calls' = calls + 1
  BY DEF CallStarts, StartPortCall, StartEntryCall, StartLoop
<1>1. SwitchesType' /\ ProgramsType' /\ Boots' /\ HistoryType' /\ UNCHANGED <<boot, order>>
  BY <1>0, SwitchesKept, ProgramsKept
  DEF TypeInv, HistoryType, switches, shared, history
<1>2. ASSUME NEW s \in APs, Reaches(p, s)
      PROVE  InstanceOf(p, s) \in Nat /\ InstanceOf(p, s) <= boot[s]
  BY <1>2 DEF Reaches, InstanceOf, TypeInv, ProgramsType, Boots, Managers
<1>3. ASSUME NEW s \in APs, NEW op \in {"insert", "remove"}, NEW port \in Ports,
             StartPortCall(p, s, op, port)
      PROVE  \E n \in Calls : Become(p, n) /\ Shape(p, n)
  <2> DEFINE n == [Idle EXCEPT !.pc = "dump", !.op = op, !.sw = s, !.arg = port,
                               !.boot = InstanceOf(p, s)]
  <2>1. InstanceOf(p, s) \in Nat /\ InstanceOf(p, s) <= boot[s] /\ Become(p, n)
    BY <1>2, <1>3 DEF StartPortCall
  <2>2. /\ n \in Calls /\ n.pc = "dump" /\ n.sw = s /\ n.arg = port
        /\ n.boot = InstanceOf(p, s) /\ ~ n.loop
    BY <2>1 DEF Calls, Idle
  <2> HIDE DEF n
  <2>3. Shape(p, n)
    BY <2>1, <2>2 DEF Shape
  <2>4. QED
    BY <2>1, <2>2, <2>3
<1>4. ASSUME NEW s \in APs, NEW k \in Keys, StartEntryCall(p, s, k)
      PROVE  \E n \in Calls : Become(p, n) /\ Shape(p, n)
  <2> DEFINE n == [Idle EXCEPT !.pc = "find", !.op = "set", !.sw = s, !.arg = k,
                               !.val = "port", !.boot = InstanceOf(p, s)]
  <2>1. InstanceOf(p, s) \in Nat /\ InstanceOf(p, s) <= boot[s] /\ Become(p, n)
    BY <1>2, <1>4 DEF StartEntryCall
  <2>2. /\ n \in Calls /\ n.pc = "find" /\ n.sw = s /\ n.arg = k
        /\ n.boot = InstanceOf(p, s) /\ ~ n.loop
    BY <2>1 DEF Calls, Idle, Values
  <2> HIDE DEF n
  <2>3. Shape(p, n)
    BY <2>1, <2>2 DEF Shape
  <2>4. QED
    BY <2>1, <2>2, <2>3
<1>5. ASSUME NEW op \in {"set", "unset"}, NEW k \in Keys, NEW skip \in APs \cup {None},
             StartLoop(p, op, k, skip)
      PROVE  \E n \in Calls : Become(p, n) /\ Shape(p, n)
  <2> DEFINE n == [Idle EXCEPT !.pc = "loop", !.op = op, !.arg = k,
                               !.val = IF op = "set" THEN "backbone" ELSE None,
                               !.loop = TRUE, !.size = Len(order[p]), !.skip = skip]
  <2>1. Len(order[p]) \in Nat /\ Become(p, n)
    BY <1>5 DEF StartLoop, TypeInv, ProgramsType
  <2>2. /\ n \in Calls /\ n.pc = "loop" /\ n.sw = None /\ n.arg = k
        /\ n.loop /\ n.size = Len(order[p]) /\ n.pos = 1 /\ n.seen = {}
    BY <2>1 DEF Calls, Idle, Values
  <2> HIDE DEF n
  <2>3. LoopShape(p, n)
    BY <2>1, <2>2 DEF LoopShape
  <2>4. Shape(p, n)
    BY <2>1, <2>2, <2>3, SwitchConstants DEF Shape
  <2>5. QED
    BY <2>1, <2>2, <2>4
<1>6. \E n \in Calls : Become(p, n) /\ Shape(p, n)
  BY <1>3, <1>4, <1>5 DEF CallStarts
<1>7. QED
  BY <1>1, <1>6, OneCall DEF TypeInv

\* The steps of a call that reads: its switch, the dump, the loop, the entry.
LEMMA ReadsType ==
    ASSUME TypeInv, NEW p \in Programs,
           MCDump(p) \/ ParseDump(p) \/ LoopStep(p) \/ Find(p)
    PROVE  TypeInv'
<1>0. /\ UNCHANGED <<switches, run, shared, listener, ports, entries, bounds>>
      /\ UNCHANGED <<boot, order, group>>
  BY DEF MCDump, ParseDump, LoopStep, Find, history, switches, shared
<1>1. SwitchesType' /\ ProgramsType' /\ Boots'
  BY <1>0, SwitchesKept, ProgramsKept
<1>2. main[p] \in Calls /\ Shape(p, main[p])
  BY DEF TypeInv, MainType
<1>3. CASE MCDump(p)
  <2>1. main[p].sw \in APs
    BY <1>2, <1>3 DEF MCDump, Shape
  <2>2. mixed' \subseteq APs /\ UNCHANGED mixedKeys
    BY <1>3, <2>1 DEF MCDump, TypeInv, HistoryType
  <2>3. HistoryType'
    BY <1>0, <2>2 DEF TypeInv, HistoryType, bounds
  <2>4. CASE Return(p)
    BY <1>0, <1>1, <2>3, <2>4, Over, OneCall DEF TypeInv
  <2>5. CASE Become(p, [main[p] EXCEPT !.pc = "parse", !.snap = group[main[p].sw]])
    <3> DEFINE n == [main[p] EXCEPT !.pc = "parse", !.snap = group[main[p].sw]]
    <3>1. group[main[p].sw] \in (SUBSET Ports) \cup {Bare}
      BY <2>1 DEF TypeInv, SwitchesType
    <3>2. /\ n \in Calls /\ n.pc = "parse" /\ n.sw = main[p].sw /\ n.arg = main[p].arg
          /\ n.boot = main[p].boot /\ n.loop = main[p].loop /\ n.size = main[p].size
          /\ n.pos = main[p].pos /\ n.seen = main[p].seen
      BY <1>2, <3>1 DEF Calls
    <3> HIDE DEF n
    <3>3. Shape(p, n)
      BY <1>2, <1>3, <3>2 DEF MCDump, Shape, LoopShape
    <3>4. Become(p, n)
      BY <2>5 DEF n
    <3>5. QED
      BY <1>0, <1>1, <2>3, <3>2, <3>3, <3>4, OneCall DEF TypeInv
  <2>6. QED
    BY <1>3, <2>4, <2>5 DEF MCDump
<1>4. CASE ParseDump(p)
  <2>1. HistoryType'
    BY <1>0, <1>4 DEF ParseDump, TypeInv, HistoryType, history, bounds
  <2>2. CASE Return(p) \/ Raise(p)
    BY <1>0, <1>1, <2>1, <2>2, Over, OneCall DEF TypeInv
  <2>3. CASE /\ ~ Unreadable(p) /\ ~ NothingToUpdate(p)
             /\ Become(p, [main[p] EXCEPT !.pc = "update"])
    <3> DEFINE n == [main[p] EXCEPT !.pc = "update"]
    <3>1. /\ n \in Calls /\ n.pc = "update" /\ n.sw = main[p].sw /\ n.arg = main[p].arg
          /\ n.boot = main[p].boot /\ n.loop = main[p].loop /\ n.size = main[p].size
          /\ n.pos = main[p].pos /\ n.seen = main[p].seen /\ n.snap = main[p].snap
      BY <1>2 DEF Calls
    <3> HIDE DEF n
    <3>2. Shape(p, n)
      BY <1>2, <1>4, <2>3, <3>1 DEF ParseDump, Unreadable, NothingToUpdate, Shape, LoopShape
    <3>3. Become(p, n)
      BY <2>3 DEF n
    <3>4. QED
      BY <1>0, <1>1, <2>1, <3>1, <3>2, <3>3, OneCall DEF TypeInv
  <2>4. QED
    BY <1>4, <2>2, <2>3 DEF ParseDump
<1>5. CASE LoopStep(p)
  <2>1. HistoryType'
    BY <1>0, <1>5 DEF LoopStep, TypeInv, HistoryType, history, bounds
  <2>2. CASE Raise(p)
    BY <1>0, <1>1, <2>1, <2>2, Over, OneCall DEF TypeInv
  <2>3. CASE Become(p, Idle)
    <3>1. Idle \in Calls /\ Shape(p, Idle)
      BY SwitchConstants DEF Idle, Calls, Shape
    <3>2. QED
      BY <1>0, <1>1, <2>1, <2>3, <3>1, OneCall DEF TypeInv
  <2>4. CASE /\ Len(order[p]) = main[p].size /\ main[p].pos <= main[p].size
             /\ Visit(p, order[p][main[p].pos])
    <3>1. /\ order[p] \in Seq(APs) /\ main[p].pos \in 1 .. Len(order[p])
          /\ main[p].pc = "loop" /\ main[p].loop /\ LoopShape(p, main[p])
      <4>1. main[p].pc = "loop" /\ main[p].loop /\ LoopShape(p, main[p])
        BY <1>2, <1>5 DEF LoopStep, Shape
      <4>2. order[p] \in Seq(APs)
        BY DEF TypeInv, ProgramsType
      <4>3. main[p].pos \in Nat /\ main[p].pos >= 1
        BY <1>2, <4>1 DEF LoopShape, Calls
      <4>4. main[p].pos <= Len(order[p])
        BY <2>4
      <4>5. QED
        BY <4>1, <4>2, <4>3, <4>4
    <3>2. PICK s \in APs : s = order[p][main[p].pos]
      BY <3>1
    <3> DEFINE next == [main[p] EXCEPT !.pos = @ + 1, !.seen = @ \cup {s}]
    <3>3. /\ next \in Calls /\ next.pc = "loop" /\ next.sw = main[p].sw
          /\ next.arg = main[p].arg /\ next.boot = main[p].boot /\ next.loop
          /\ next.size = main[p].size /\ next.pos = main[p].pos + 1
          /\ next.seen = main[p].seen \cup {s}
      <4>1. main[p].pos + 1 \in Nat /\ main[p].seen \cup {s} \in SUBSET APs
        BY <1>2 DEF Calls
      <4>2. QED
        BY <1>2, <3>1, <4>1 DEF Calls
    <3>4. LoopShape(p, next)
      <4>1. 1 .. next.pos - 1 = (1 .. main[p].pos - 1) \cup {main[p].pos}
        BY <3>1, <3>3
      <4>2. next.seen = {order[p][i] : i \in 1 .. next.pos - 1}
        BY <3>1, <3>2, <3>3, <4>1 DEF LoopShape
      <4>3. next.pos >= 1 /\ next.pos <= next.size + 1
        BY <1>2, <2>4, <3>1, <3>3 DEF Calls
      <4>4. QED
        BY <3>1, <3>3, <4>2, <4>3 DEF LoopShape
    <3> HIDE DEF next
    <3>5. CASE Become(p, next)
      <4>1. Shape(p, next)
        BY <1>2, <3>3, <3>4 DEF Shape
      <4>2. QED
        BY <1>0, <1>1, <2>1, <3>3, <3>5, <4>1, OneCall DEF TypeInv
    <3>6. CASE Become(p, [next EXCEPT !.pc = "find", !.sw = s, !.boot = conn[p][s].boot])
      <4> DEFINE n == [next EXCEPT !.pc = "find", !.sw = s, !.boot = conn[p][s].boot]
      <4>1. conn[p][s].boot \in Nat /\ conn[p][s].boot <= boot[s]
        BY DEF TypeInv, ProgramsType, Boots
      <4>2. /\ n \in Calls /\ n.pc = "find" /\ n.sw = s /\ n.boot = conn[p][s].boot
            /\ n.arg = next.arg /\ n.loop = next.loop /\ n.size = next.size
            /\ n.pos = next.pos /\ n.seen = next.seen
        BY <3>3, <4>1 DEF Calls
      <4>3. Become(p, n)
        BY <3>6
      <4> HIDE DEF n
      <4>4. Shape(p, n)
        BY <3>3, <3>4, <4>1, <4>2 DEF Shape, LoopShape
      <4>5. QED
        BY <1>0, <1>1, <2>1, <4>2, <4>3, <4>4, OneCall DEF TypeInv
    <3>7. QED
      BY <2>4, <3>2, <3>5, <3>6 DEF Visit, next
  <2>5. Len(order[p]) \in Nat
    BY DEF TypeInv, ProgramsType
  <2>6. QED
    BY <1>2, <1>5, <2>2, <2>3, <2>4, <2>5 DEF LoopStep, Calls
<1>6. CASE Find(p)
  <2>1. main[p].sw \in APs /\ main[p].arg \in Keys
    BY <1>2, <1>6 DEF Find, Shape
  <2>2. mixedKeys' \subseteq APs \X Keys /\ UNCHANGED mixed
    BY <1>6, <2>1 DEF Find, TypeInv, HistoryType
  <2>3. HistoryType'
    BY <1>0, <2>2 DEF TypeInv, HistoryType, bounds
  <2>4. CASE Return(p)
    BY <1>0, <1>1, <2>3, <2>4, Over, OneCall DEF TypeInv
  <2>5. ASSUME NEW pc \in {"add", "modify", "delete"}, NEW h \in Nat,
               Become(p, [main[p] EXCEPT !.handle = h, !.pc = pc])
        PROVE  TypeInv'
    <3> DEFINE n == [main[p] EXCEPT !.handle = h, !.pc = pc]
    <3>1. /\ n \in Calls /\ n.pc = pc /\ n.sw = main[p].sw /\ n.arg = main[p].arg
          /\ n.boot = main[p].boot /\ n.loop = main[p].loop /\ n.size = main[p].size
          /\ n.pos = main[p].pos /\ n.seen = main[p].seen
      BY <1>2 DEF Calls
    <3>2. Become(p, n)
      BY <2>5
    <3> HIDE DEF n
    <3>3. Shape(p, n)
      BY <1>2, <2>1, <3>1 DEF Shape, LoopShape
    <3>4. QED
      BY <1>0, <1>1, <2>3, <3>1, <3>2, <3>3, OneCall DEF TypeInv
  <2>6. table[main[p].sw][main[p].arg].handle \in Nat
    BY <2>1 DEF TypeInv, SwitchesType
  <2>7. QED
    BY <1>6, <2>4, <2>5, <2>6 DEF Find
<1>7. QED
  BY <1>3, <1>4, <1>5, <1>6

\* The steps that write: the group, an entry.
LEMMA WritesType ==
    ASSUME TypeInv, NEW p \in Programs, MCUpdate(p) \/ WriteEntry(p)
    PROVE  TypeInv'
<1>0. /\ UNCHANGED <<boot, run, shared, listener, mixed, mixedKeys, bounds>>
      /\ Return(p) /\ UNCHANGED <<boot, order>>
  BY DEF MCUpdate, WriteEntry, shared
<1>1. ProgramsType' /\ Boots' /\ MainType' /\ \A q \in Programs : Shape(q, main[q])'
  BY <1>0, ProgramsKept, Over, OneCall
<1>2. main[p] \in Calls /\ Shape(p, main[p])
  BY DEF TypeInv, MainType
<1>3. CASE MCUpdate(p)
  <2>1. /\ main[p].sw \in APs /\ main[p].arg \in Ports
        /\ main[p].snap \in SUBSET Ports
    BY <1>2, <1>3 DEF MCUpdate, Shape, Calls
  <2> DEFINE list == Changed(p, main[p].snap)
  <2>2. CASE UNCHANGED <<group, ports>>
    BY <1>0, <1>1, <1>3, <2>2
    DEF MCUpdate, TypeInv, SwitchesType, HistoryType, bounds
  <2>3. CASE /\ group[main[p].sw] \notin {{}, Bare}
             /\ group' = [group EXCEPT ![main[p].sw] = list]
             /\ ports' = [ports EXCEPT ![main[p].sw] = Changed(p, @)]
    <3>1. list \in SUBSET Ports /\ list # Bare
      BY <2>1, SwitchConstants DEF Changed, Bare
    <3>2. Changed(p, ports[main[p].sw]) \in SUBSET Ports
          /\ Changed(p, ports[main[p].sw]) # Bare
      BY <2>1, <2>3, SwitchConstants DEF Changed, Bare, TypeInv, HistoryType
    <3>3. SwitchesType'
      BY <1>0, <1>3, <2>1, <2>3, <3>1 DEF MCUpdate, TypeInv, SwitchesType
    <3>4. HistoryType'
      BY <1>0, <1>3, <2>1, <2>3, <3>1, <3>2
      DEF MCUpdate, TypeInv, SwitchesType, HistoryType, bounds
    <3>5. QED
      BY <1>1, <3>3, <3>4 DEF TypeInv
  <2>4. QED
    BY <1>3, <2>2, <2>3 DEF MCUpdate
<1>4. CASE WriteEntry(p)
  <2>1. /\ main[p].sw \in APs /\ main[p].arg \in Keys
        /\ main[p].val \in Values \cup {None} /\ UNCHANGED <<group, ports>>
    BY <1>2, <1>4 DEF WriteEntry, Shape, Calls
  <2>2. CASE UNCHANGED <<table, handle, entries>>
    BY <1>0, <1>1, <2>1, <2>2 DEF TypeInv, SwitchesType, HistoryType, bounds
  <2>3. ASSUME NEW e \in [handle : Nat, value : Values \cup {None}],
               NEW h \in Nat, NEW v \in Values \cup {None},
               table' = [table EXCEPT ![main[p].sw][main[p].arg] = e],
               handle' = [handle EXCEPT ![main[p].sw] = h],
               entries' = [entries EXCEPT ![main[p].sw][main[p].arg] = v]
        PROVE  TypeInv'
    <3>1. SwitchesType'
      BY <1>0, <2>1, <2>3 DEF TypeInv, SwitchesType
    <3>2. HistoryType'
      BY <1>0, <2>1, <2>3 DEF TypeInv, HistoryType, bounds
    <3>3. QED
      BY <1>1, <3>1, <3>2 DEF TypeInv
  <2>4. handle[main[p].sw] \in Nat /\ handle[main[p].sw] + 1 \in Nat
    BY <2>1 DEF TypeInv, SwitchesType
  <2>5. ASSUME NEW e \in [handle : Nat, value : Values \cup {None}]
        PROVE  Written(main[p].pc, e, main[p].handle, handle[main[p].sw], main[p].val)
                   \in [handle : Nat, value : Values \cup {None}]
    BY <2>1, <2>4 DEF Written, NoEntry
  <2>6. table[main[p].sw][main[p].arg] \in [handle : Nat, value : Values \cup {None}]
    BY <2>1 DEF TypeInv, SwitchesType
  <2>7. QED
    <3>1. CASE ~ Answered(p)
      BY <1>4, <2>2, <3>1 DEF WriteEntry
    <3>2. CASE Answered(p)
      BY <1>4, <2>1, <2>3, <2>4, <2>5, <2>6, <3>2 DEF WriteEntry
    <3>3. QED
      BY <3>1, <3>2
<1>5. QED
  BY <1>3, <1>4

-------------------------------------------------------------------------------
(* Starts and discovery.                                                   *)

LEMMA ClearType ==
    ASSUME TypeInv, NEW s \in APs, Clear(s), UNCHANGED <<calls, handle>>,
           boot' \in [APs -> Nat], mishaps' \in Nat
    PROVE  SwitchesType' /\ HistoryType'
<1>1. SwitchesType'
  BY DEF TypeInv, SwitchesType, Clear, Empty, NoEntry
<1>2. mixed' \subseteq APs /\ mixedKeys' \subseteq APs \X Keys
  BY DEF TypeInv, HistoryType, Clear
<1>3. QED
  BY <1>1, <1>2, SwitchConstants DEF TypeInv, SwitchesType, HistoryType, Clear

\* initialize_program, of a manager at its own switch.
LEMMA SetupType ==
    ASSUME TypeInv, NEW a \in Managers, ResetState(a) \/ CreateGroup(a)
    PROVE  TypeInv'
<1>0. /\ UNCHANGED <<handle, boot, run, shared, listener, bounds>> /\ UNCHANGED order
      /\ a \in Programs /\ a \in APs
  BY DEF ResetState, CreateGroup, shared, Managers
<1>1. ProgramsType' /\ Boots'
  BY <1>0, ProgramsKept
<1>2. main[a] \in Calls /\ Shape(a, main[a])
  BY <1>0 DEF TypeInv, MainType
<1>3. ASSUME NEW pc \in {"mgrp", "node"}, Become(a, [main[a] EXCEPT !.pc = pc]),
             main[a].pc \in {"reset", "mgrp"}
      PROVE  MainType' /\ \A q \in Programs : Shape(q, main[q])'
  <2> DEFINE n == [main[a] EXCEPT !.pc = pc]
  <2>1. /\ n \in Calls /\ n.pc = pc /\ n.sw = main[a].sw /\ n.arg = main[a].arg
        /\ n.boot = main[a].boot /\ n.loop = main[a].loop /\ n.size = main[a].size
        /\ n.pos = main[a].pos /\ n.seen = main[a].seen
    BY <1>2 DEF Calls
  <2>2. Become(a, n)
    BY <1>3
  <2> HIDE DEF n
  <2>3. Shape(a, n)
    BY <1>2, <1>3, <2>1 DEF Shape, LoopShape
  <2>4. QED
    BY <1>0, <2>1, <2>2, <2>3, OneCall
<1>4. ASSUME Become(a, Idle)
      PROVE  MainType' /\ \A q \in Programs : Shape(q, main[q])'
  <2>1. Idle \in Calls /\ Shape(a, Idle)
    BY SwitchConstants DEF Idle, Calls, Shape
  <2>2. QED
    BY <1>0, <1>4, <2>1, OneCall
<1>5. CASE ResetState(a)
  <2>1. MainType' /\ \A q \in Programs : Shape(q, main[q])'
    BY <1>3, <1>5 DEF ResetState
  <2>2. SwitchesType' /\ HistoryType'
    <3>1. CASE Clear(a)
      BY <1>0, <3>1, ClearType DEF bounds, TypeInv, SwitchesType, HistoryType
    <3>2. CASE UNCHANGED <<table, group, history>>
      BY <1>0, <3>2 DEF bounds, TypeInv, SwitchesType, HistoryType, history
    <3>3. QED
      BY <1>5, <3>1, <3>2 DEF ResetState
  <2>3. QED
    BY <1>1, <2>1, <2>2 DEF TypeInv
<1>6. CASE CreateGroup(a)
  <2>1. /\ UNCHANGED <<table, entries, mixed, mixedKeys>>
        /\ \/ main[a].pc = "mgrp" /\ Become(a, [main[a] EXCEPT !.pc = "node"])
           \/ main[a].pc = "node" /\ Become(a, Idle)
        /\ \/ UNCHANGED <<group, ports>>
           \/ \E set \in {Bare, {Backbone}} : /\ group' = [group EXCEPT ![a] = set]
                                              /\ ports' = [ports EXCEPT ![a] = set]
    BY <1>6 DEF CreateGroup
  <2>2. MainType' /\ \A q \in Programs : Shape(q, main[q])'
    BY <1>3, <1>4, <2>1
  <2>3. \A set \in {Bare, {Backbone}} : set \in (SUBSET Ports) \cup {Bare}
    BY SwitchConstants
  <2>4. SwitchesType' /\ HistoryType'
    <3>1. CASE UNCHANGED <<group, ports>>
      BY <1>0, <2>1, <3>1 DEF TypeInv, SwitchesType, HistoryType, bounds
    <3>2. ASSUME NEW set \in {Bare, {Backbone}}, group' = [group EXCEPT ![a] = set],
                 ports' = [ports EXCEPT ![a] = set]
          PROVE  SwitchesType' /\ HistoryType'
      <4>1. SwitchesType'
        BY <1>0, <2>1, <2>3, <3>2 DEF TypeInv, SwitchesType
      <4>2. HistoryType'
        BY <1>0, <2>1, <2>3, <3>2 DEF TypeInv, SwitchesType, HistoryType, bounds
      <4>3. QED
        BY <4>1, <4>2
    <3>3. QED
      BY <2>1, <3>1, <3>2
  <2>5. QED
    BY <1>1, <2>2, <2>4 DEF TypeInv
<1>7. QED
  BY <1>5, <1>6

\* A line the listener prints.
LEMMA PrintsType ==
    ASSUME TypeInv, NEW p \in Programs, Prints(p)
    PROVE  \E n \in Calls :
               /\ Become(p, n) /\ Shape(p, n) /\ n.pc = main[p].pc /\ n.sw = main[p].sw
               /\ n.loop = main[p].loop /\ n.arg = main[p].arg /\ n.size = main[p].size
               /\ n.pos = main[p].pos /\ n.seen = main[p].seen
               /\ n.boot = main[p].boot /\ n.snap = main[p].snap
               /\ n.handle = main[p].handle
<1>1. PICK torn \in BOOLEAN : main' = [main EXCEPT ![p].torn = @ \/ torn]
  BY DEF Prints
<1>2. main[p] \in Calls /\ Shape(p, main[p])
  BY DEF TypeInv, MainType
<1> DEFINE n == [main[p] EXCEPT !.torn = main[p].torn \/ torn]
<1>3. Become(p, n)
  BY <1>1 DEF Become
<1>4. (main[p].torn \/ torn) \in BOOLEAN
  OBVIOUS
<1>5. /\ n \in Calls /\ n.pc = main[p].pc /\ n.sw = main[p].sw /\ n.arg = main[p].arg
      /\ n.boot = main[p].boot /\ n.loop = main[p].loop /\ n.size = main[p].size
      /\ n.pos = main[p].pos /\ n.seen = main[p].seen /\ n.snap = main[p].snap
      /\ n.handle = main[p].handle
  BY <1>2, <1>4 DEF Calls
<1> HIDE DEF n
<1>6. Shape(p, n)
  BY <1>2, <1>5 DEF Shape, LoopShape
<1>7. QED
  BY <1>3, <1>5, <1>6

\* One more access point at the end does not change what a loop has seen.
LEMMA LoopGrows ==
    ASSUME TypeInv, NEW p \in Programs, NEW n \in Calls, Shape(p, n), UNCHANGED boot,
           NEW a \in APs, order'[p] \in {order[p], Append(order[p], a)}
    PROVE  Shape(p, n)'
<1>1. order[p] \in Seq(APs)
  BY DEF TypeInv, ProgramsType
<1>2. /\ Len(order[p]) \in Nat /\ Len(order'[p]) >= Len(order[p]) /\ Len(order'[p]) \in Nat
      /\ \A i \in 1 .. Len(order[p]) : order'[p][i] = order[p][i]
  BY <1>1
<1>3. ASSUME LoopShape(p, n)
      PROVE  LoopShape(p, n)'
  <2>1. n.size \in Nat /\ n.pos \in Nat
    BY DEF Calls
  <2>2. /\ n.arg \in Keys /\ n.size <= Len(order[p]) /\ n.pos >= 1 /\ n.pos <= n.size + 1
        /\ n.seen = {order[p][i] : i \in 1 .. n.pos - 1}
    BY <1>3 DEF LoopShape
  <2>3. \A i \in 1 .. n.pos - 1 : i \in 1 .. Len(order[p])
    BY <1>2, <2>1, <2>2
  <2>4. n.seen = {order'[p][i] : i \in 1 .. n.pos - 1}
    BY <1>2, <2>2, <2>3
  <2>5. n.size <= Len(order'[p])
    BY <1>2, <2>1, <2>2
  <2>6. QED
    BY <2>2, <2>4, <2>5 DEF LoopShape
<1>4. QED
  BY <1>3 DEF Shape

LEMMA ListenerType ==
    ASSUME TypeInv, NEW p \in Programs, HearAny(p) \/ Listen(p) \/ Disturb(p)
    PROVE  TypeInv'
<1>0. /\ listener[p] \in [pc : {"wait", "load", "ended"}, ap : APs \cup {None}, ts : Nat,
                          boot : Nat, bound : BOOLEAN]
      /\ listener[p].pc = "load" =>
             listener[p].ap \in APs /\ listener[p].boot <= boot[listener[p].ap]
  BY DEF TypeInv, ProgramsType, Boots
<1>1. ASSUME UNCHANGED switches, UNCHANGED history, calls' = calls, mishaps' \in Nat
      PROVE  SwitchesType' /\ HistoryType' /\ UNCHANGED boot
  BY <1>1 DEF TypeInv, SwitchesType, HistoryType, switches, history
<1>2. ASSUME NEW a \in APs, NEW ts \in Nat, Hear(p, a, ts)
      PROVE  TypeInv'
  <2>1. /\ listener' = [listener EXCEPT ![p] = [pc |-> "load", ap |-> a, ts |-> ts,
                                                boot |-> boot[a], bound |-> TRUE]]
        /\ schema' = [schema EXCEPT ![p] = FALSE]
        /\ UNCHANGED <<switches, run, order, conn, own, main, history, bounds>>
    BY <1>2 DEF Hear
  <2>2. SwitchesType' /\ HistoryType' /\ UNCHANGED boot
    BY <1>1, <2>1 DEF bounds, TypeInv, HistoryType
  <2>3. boot[a] \in Nat
    BY DEF TypeInv, SwitchesType
  <2>4. ProgramsType'
    <3>1. schema' \in [Programs -> BOOLEAN]
      BY <2>1 DEF TypeInv, ProgramsType
    <3>2. QED
      BY <2>1, <2>3, <3>1 DEF TypeInv, ProgramsType
  <2>5. Boots'
    <3>1. /\ \A q \in Programs, b \in APs : conn'[q][b].boot <= boot'[b]
          /\ \A b \in Managers : own'[b] <= boot'[b]
      BY <2>1, <2>2 DEF TypeInv, Boots
    <3>2. ASSUME NEW q \in Programs, listener'[q].pc = "load"
          PROVE  listener'[q].ap \in APs /\ listener'[q].boot <= boot[listener'[q].ap]
      <4>1. CASE q = p
        <5>1. listener'[p] = [pc |-> "load", ap |-> a, ts |-> ts,
                              boot |-> boot[a], bound |-> TRUE]
          BY <2>1 DEF TypeInv, ProgramsType
        <5>2. listener'[p].ap = a /\ listener'[p].boot = boot[a]
          BY <5>1
        <5>3. QED
          BY <2>3, <4>1, <5>2
      <4>2. CASE q # p
        BY <2>1, <3>2, <4>2 DEF TypeInv, ProgramsType, Boots
      <4>3. QED
        BY <4>1, <4>2
    <3>3. QED
      BY <2>2, <3>1, <3>2 DEF Boots
  <2>6. MainType' /\ \A q \in Programs : Shape(q, main[q])'
    BY <2>1, <2>2 DEF TypeInv, MainType, Shape, LoopShape
  <2>7. QED
    BY <2>2, <2>4, <2>5, <2>6 DEF TypeInv
<1>3. ASSUME NEW l \in [pc : {"wait", "ended"}, ap : APs \cup {None}, ts : Nat,
                        boot : Nat, bound : BOOLEAN],
             listener' = [listener EXCEPT ![p] = l] \/ UNCHANGED listener,
             Prints(p) \/ UNCHANGED main,
             UNCHANGED <<switches, run, shared, history, calls>>, mishaps' = mishaps + 1
      PROVE  TypeInv'
  <2>1. SwitchesType' /\ HistoryType' /\ UNCHANGED <<boot, order>>
    BY <1>1, <1>3 DEF TypeInv, HistoryType, shared
  <2>2. ProgramsType'
    BY <1>3 DEF TypeInv, ProgramsType, shared
  <2>3. Boots'
    BY <1>3, <2>1 DEF TypeInv, ProgramsType, Boots, shared
  <2>4. MainType' /\ \A q \in Programs : Shape(q, main[q])'
    <3>1. CASE Prints(p)
      BY <2>1, <3>1, PrintsType, OneCall
    <3>2. CASE UNCHANGED main
      BY <2>1, <3>2 DEF TypeInv, MainType, Shape, LoopShape
    <3>3. QED
      BY <1>3, <3>1, <3>2
  <2>5. QED
    BY <2>1, <2>2, <2>3, <2>4 DEF TypeInv
<1>4. CASE Disturb(p)
  <2>1. \E pc \in {"wait", "ended"}, b \in BOOLEAN :
            /\ \/ listener' = [listener EXCEPT ![p].pc = pc, ![p].bound = b]
               \/ listener[p].pc = "wait" /\ listener' = [listener EXCEPT ![p].bound = b]
               \/ listener' = [listener EXCEPT ![p].pc = pc]
               \/ UNCHANGED listener
            /\ Prints(p) \/ UNCHANGED main
            /\ UNCHANGED <<switches, run, shared, history, calls>> /\ mishaps' = mishaps + 1
    BY <1>4 DEF Disturb, OtherDatagram, ConnectFails
  <2>2. PICK l \in [pc : {"wait", "ended"}, ap : APs \cup {None}, ts : Nat,
                    boot : Nat, bound : BOOLEAN] :
            listener' = [listener EXCEPT ![p] = l] \/ UNCHANGED listener
    <3>1. PICK pc \in {"wait", "ended"}, b \in BOOLEAN :
            \/ listener' = [listener EXCEPT ![p].pc = pc, ![p].bound = b]
            \/ listener[p].pc = "wait" /\ listener' = [listener EXCEPT ![p].bound = b]
            \/ listener' = [listener EXCEPT ![p].pc = pc]
            \/ UNCHANGED listener
      BY <2>1
    <3> DEFINE L == [pc : {"wait", "ended"}, ap : APs \cup {None}, ts : Nat,
                     boot : Nat, bound : BOOLEAN]
               l1 == [listener[p] EXCEPT !.pc = pc, !.bound = b]
               l2 == [listener[p] EXCEPT !.bound = b]
               l3 == [listener[p] EXCEPT !.pc = pc]
    <3>2. l1 \in L /\ l3 \in L /\ (listener[p].pc = "wait" => l2 \in L)
      BY <1>0
    <3>3. \/ listener' = [listener EXCEPT ![p] = l1] \/ listener' = [listener EXCEPT ![p] = l3]
          \/ listener[p].pc = "wait" /\ listener' = [listener EXCEPT ![p] = l2]
          \/ UNCHANGED listener
      BY <3>1
    <3> HIDE DEF L, l1, l2, l3
    <3>4. \E l \in L : listener' = [listener EXCEPT ![p] = l] \/ UNCHANGED listener
      BY <3>2, <3>3
    <3>5. QED
      BY <3>4 DEF L
  <2>3. QED
    BY <1>3, <2>1, <2>2
<1>5. CASE Store(p)
  <2>1. /\ listener[p].ap \in APs /\ listener[p].ts \in Nat /\ listener[p].boot \in Nat
        /\ listener[p].boot <= boot[listener[p].ap]
    BY <1>0, <1>5 DEF Store
  <2>2. PICK l \in [ts : Nat, boot : Nat] :
            /\ l.boot = listener[p].boot
            /\ conn' = [conn EXCEPT ![p][listener[p].ap] = l]
    BY <1>5, <2>1 DEF Store
  <2>3. /\ schema' = [schema EXCEPT ![p] = TRUE]
        /\ listener' = [listener EXCEPT ![p] = [Waiting EXCEPT !.bound = TRUE]]
        /\ UNCHANGED <<switches, run, own, history, bounds>> /\ Prints(p)
        /\ \/ order' = [order EXCEPT ![p] = order[p]]
           \/ order' = [order EXCEPT ![p] = Append(order[p], listener[p].ap)]
    BY <1>5 DEF Store
  <2>4. SwitchesType' /\ HistoryType' /\ UNCHANGED boot
    BY <1>1, <2>3 DEF bounds, TypeInv, HistoryType
  <2>5. /\ order' \in [Programs -> Seq(APs)]
        /\ order'[p] \in {order[p], Append(order[p], listener[p].ap)}
        /\ \A q \in Programs : q # p => order'[q] = order[q]
    <3>1. order \in [Programs -> Seq(APs)] /\ Append(order[p], listener[p].ap) \in Seq(APs)
      BY <2>1 DEF TypeInv, ProgramsType
    <3>2. QED
      BY <2>3, <3>1
  <2>6. listener' \in [Programs -> [pc : {"wait", "load", "ended"}, ap : APs \cup {None},
                                    ts : Nat, boot : Nat, bound : BOOLEAN]]
    BY <2>3 DEF Waiting, TypeInv, ProgramsType
  <2>7. ProgramsType'
    <3>1. schema' \in [Programs -> BOOLEAN]
      BY <2>3 DEF TypeInv, ProgramsType
    <3>2. conn' \in [Programs -> [APs -> [ts : Nat, boot : Nat]]]
      BY <2>1, <2>2 DEF TypeInv, ProgramsType
    <3>3. QED
      BY <2>3, <2>5, <2>6, <3>1, <3>2 DEF TypeInv, ProgramsType
  <2>8. Boots'
    <3>1. \A q \in Programs, a \in APs : conn'[q][a].boot <= boot[a]
      BY <2>1, <2>2 DEF TypeInv, ProgramsType, Boots
    <3>2. \A q \in Programs : listener'[q].pc = "load" => listener'[q] = listener[q]
      BY <2>3 DEF Waiting, TypeInv, ProgramsType
    <3>3. QED
      BY <2>3, <2>4, <3>1, <3>2 DEF TypeInv, Boots
  <2>9. MainType' /\ \A q \in Programs : Shape(q, main[q])'
    <3>1. PICK n \in Calls : Become(p, n) /\ Shape(p, n)
      BY <2>3, PrintsType
    <3>2. Shape(p, n)'
      BY <2>1, <2>4, <2>5, <3>1, LoopGrows
    <3>3. QED
      BY <2>4, <2>5, <3>1, <3>2, OneProgram
  <2>10. QED
    BY <2>4, <2>7, <2>8, <2>9 DEF TypeInv
<1>6. \A a \in APs : run[a] \in Nat
  BY DEF TypeInv, ProgramsType
<1>7. CASE HearAny(p)
  BY <1>2, <1>6, <1>7 DEF HearAny
<1>8. QED
  BY <1>4, <1>5, <1>7 DEF Listen
\* A new run of a program or of a switch.
LEMMA RestartsType ==
    ASSUME TypeInv,
           \/ \E a \in Managers : RestartManager(a)
           \/ \E p \in Programs \ APs : RestartCoordinator(p)
           \/ \E s \in APs : RestartSwitch(s)
    PROVE  TypeInv'
<1>1. ASSUME NEW p \in Programs, Forget(p), UNCHANGED <<switches, history, calls>>,
             run' \in [APs -> Nat], own' \in [Managers -> Nat],
             \A a \in Managers : own'[a] <= boot[a],
             NEW b \in BOOLEAN, schema' = [schema EXCEPT ![p] = b],
             mishaps' = mishaps + 1,
             NEW n \in Calls, Become(p, n), ~ n.loop, n.pc \in {"idle", "reset"},
             n.pc = "reset" => p \in Managers /\ n.sw = p,
             n.sw \in APs => n.boot <= boot[n.sw]
      PROVE  TypeInv'
  <2>1. SwitchesType' /\ HistoryType' /\ UNCHANGED boot
    BY <1>1 DEF TypeInv, SwitchesType, HistoryType, switches, history
  <2>2. ProgramsType'
    <3>1. order' \in [Programs -> Seq(APs)] /\ schema' \in [Programs -> BOOLEAN]
      BY <1>1 DEF Forget, TypeInv, ProgramsType
    <3>2. conn' \in [Programs -> [APs -> [ts : Nat, boot : Nat]]]
      BY <1>1 DEF Forget, Unknown, TypeInv, ProgramsType
    <3>3. listener' \in [Programs -> [pc : {"wait", "load", "ended"},
                                      ap : APs \cup {None}, ts : Nat, boot : Nat,
                                      bound : BOOLEAN]]
      BY <1>1 DEF Forget, Waiting, TypeInv, ProgramsType
    <3>4. QED
      BY <1>1, <3>1, <3>2, <3>3 DEF ProgramsType
  <2>3. Boots'
    <3>1. \A a \in APs : boot[a] \in Nat
      BY DEF TypeInv, SwitchesType
    <3>2. \A q \in Programs, a \in APs : conn'[q][a].boot <= boot[a]
      BY <1>1, <3>1 DEF Forget, Unknown, TypeInv, ProgramsType, Boots
    <3>3. \A q \in Programs : listener'[q].pc = "load" => listener'[q] = listener[q]
      BY <1>1 DEF Forget, Waiting, TypeInv, ProgramsType
    <3>4. QED
      BY <1>1, <2>1, <3>2, <3>3 DEF TypeInv, Boots
  <2>4. Shape(p, n)'
    BY <1>1, <2>1 DEF Shape
  <2>5. \A q \in Programs : q # p => order'[q] = order[q]
    BY <1>1 DEF Forget, TypeInv, ProgramsType
  <2>6. MainType' /\ \A q \in Programs : Shape(q, main[q])'
    BY <1>1, <2>1, <2>4, <2>5, OneProgram
  <2>7. QED
    BY <2>1, <2>2, <2>3, <2>6 DEF TypeInv
<1>2. ASSUME NEW a \in Managers, RestartManager(a)
      PROVE  TypeInv'
  <2>1. a \in Programs /\ a \in APs /\ boot[a] \in Nat
    BY DEF Managers, TypeInv, SwitchesType
  <2>2. PICK b \in {0, boot[a]} :
            /\ own' = [own EXCEPT ![a] = b]
            /\ schema' = [schema EXCEPT ![a] = b # 0]
            /\ Become(a, [Idle EXCEPT !.pc = "reset", !.sw = a, !.boot = b])
    BY <1>2 DEF RestartManager
  <2> DEFINE n == [Idle EXCEPT !.pc = "reset", !.sw = a, !.boot = b]
  <2>3. b \in Nat /\ b <= boot[a]
    BY <2>1
  <2>4. n \in Calls /\ n.pc = "reset" /\ n.sw = a /\ n.boot = b /\ ~ n.loop
    BY <2>1, <2>3 DEF Calls, Idle
  <2> HIDE DEF n
  <2>5. Become(a, n)
    BY <2>2 DEF n
  <2>6. run' \in [APs -> Nat] /\ own' \in [Managers -> Nat]
    <3>1. run' = [run EXCEPT ![a] = @ + 1] /\ run \in [APs -> Nat]
      BY <1>2 DEF RestartManager, TypeInv, ProgramsType
    <3>2. run' \in [APs -> Nat]
      <4>1. run[a] + 1 \in Nat
        BY <2>1, <3>1
      <4>2. run' = [run EXCEPT ![a] = run[a] + 1]
        BY <3>1
      <4>3. QED
        BY <3>1, <4>1, <4>2
    <3>3. own' \in [Managers -> Nat]
      BY <2>2, <2>3 DEF TypeInv, ProgramsType
    <3>4. QED
      BY <3>2, <3>3
  <2>7. \A c \in Managers : own'[c] <= boot[c]
    BY <2>2, <2>3 DEF TypeInv, ProgramsType, Boots
  <2>8. PICK c \in BOOLEAN : schema' = [schema EXCEPT ![a] = c]
    BY <2>2
  <2>9. QED
    BY <1>1, <1>2, <2>1, <2>3, <2>4, <2>5, <2>6, <2>7, <2>8 DEF RestartManager
<1>3. ASSUME NEW p \in Programs \ APs, RestartCoordinator(p)
      PROVE  TypeInv'
  <2>1. Idle \in Calls /\ Idle.pc = "idle" /\ Idle.sw = None /\ ~ Idle.loop
    BY DEF Idle, Calls
  <2>2. /\ run' \in [APs -> Nat] /\ own' \in [Managers -> Nat]
        /\ \A a \in Managers : own'[a] <= boot[a]
    BY <1>3 DEF RestartCoordinator, TypeInv, ProgramsType, Boots
  <2>3. /\ Forget(p) /\ Become(p, Idle) /\ schema' = [schema EXCEPT ![p] = FALSE]
        /\ UNCHANGED <<switches, history, calls>> /\ mishaps' = mishaps + 1
    BY <1>3 DEF RestartCoordinator
  <2>4. QED
    BY <1>1, <2>1, <2>2, <2>3, SwitchConstants
<1>4. ASSUME NEW s \in APs, RestartSwitch(s)
      PROVE  TypeInv'
  <2>1. /\ boot' = [boot EXCEPT ![s] = @ + 1] /\ Clear(s) /\ mishaps' = mishaps + 1
        /\ UNCHANGED <<handle, run, shared, listener, main, calls>>
    BY <1>4 DEF RestartSwitch
  <2>2. boot' \in [APs -> Nat] /\ \A a \in APs : boot[a] \in Nat /\ boot[a] <= boot'[a]
    BY <2>1 DEF TypeInv, SwitchesType
  <2>3. SwitchesType' /\ HistoryType'
    BY <2>1, <2>2, ClearType DEF TypeInv, HistoryType
  <2>4. ProgramsType'
    BY <2>1 DEF TypeInv, ProgramsType, shared
  <2>5. Boots'
    <3>1. ASSUME NEW q \in Programs, NEW a \in APs
          PROVE  conn'[q][a].boot <= boot'[a]
      BY <2>1, <2>2 DEF TypeInv, ProgramsType, Boots, shared
    <3>2. ASSUME NEW a \in Managers
          PROVE  own'[a] <= boot'[a]
      BY <2>1, <2>2 DEF TypeInv, ProgramsType, Boots, shared, Managers
    <3>3. ASSUME NEW q \in Programs, listener'[q].pc = "load"
          PROVE  listener'[q].ap \in APs /\ listener'[q].boot <= boot'[listener'[q].ap]
      BY <2>1, <2>2, <3>3 DEF TypeInv, ProgramsType, Boots
    <3>4. QED
      BY <3>1, <3>2, <3>3 DEF Boots
  <2>6. ASSUME NEW q \in Programs
        PROVE  Shape(q, main[q])'
    <3>1. main[q] \in Calls /\ Shape(q, main[q])
      BY DEF TypeInv, MainType
    <3>2. PICK m \in Calls : m = main[q]
      BY <3>1
    <3>3. UNCHANGED <<order, main>>
      BY <2>1 DEF shared
    <3>4. m.sw \in APs => m.boot <= boot'[m.sw]
      BY <2>2, <3>1, <3>2 DEF Shape, Calls
    <3>5. Shape(q, m)'
      BY <3>1, <3>2, <3>3, <3>4 DEF Shape, LoopShape
    <3>6. QED
      BY <3>2, <3>3, <3>5 DEF Shape, LoopShape
  <2>7. QED
    BY <2>1, <2>3, <2>4, <2>5, <2>6 DEF TypeInv, MainType
<1>5. QED
  BY <1>2, <1>3, <1>4

-------------------------------------------------------------------------------
(* Every step.                                                             *)

LEMMA TypeInvNext == TypeInv /\ [Next]_vars => TypeInv'
<1> SUFFICES ASSUME TypeInv, [Next]_vars
             PROVE  TypeInv'
  OBVIOUS
<1>1. ASSUME NEW p \in Programs, MainStep(p)
      PROVE  TypeInv'
  BY <1>1, ReadsType, WritesType DEF MainStep
<1>2. ASSUME NEW p \in Programs, CallStarts(p)
      PROVE  TypeInv'
  BY <1>2, StartsType
<1>3. ASSUME NEW p \in Programs, HearAny(p) \/ Listen(p) \/ Disturb(p)
      PROVE  TypeInv'
  BY <1>3, ListenerType
<1>4. ASSUME NEW a \in Managers, ResetState(a) \/ CreateGroup(a)
      PROVE  TypeInv'
  BY <1>4, SetupType
<1>5. CASE UNCHANGED vars
  <2>1. UNCHANGED <<table, handle, group, boot, run, order, conn, own, schema, listener,
                    main, ports, entries, mixed, mixedKeys, calls, mishaps>>
    BY <1>5 DEF vars, switches, shared, history, bounds
  <2>2. SwitchesType' /\ HistoryType' /\ ProgramsType' /\ Boots' /\ MainType'
    BY <2>1 DEF TypeInv, SwitchesType, HistoryType, ProgramsType, Boots, MainType
  <2>3. ASSUME NEW q \in Programs
        PROVE  Shape(q, main[q])'
    BY <2>1 DEF TypeInv, Shape, LoopShape
  <2>4. QED
    BY <2>2, <2>3 DEF TypeInv
<1>6. QED
  BY <1>1, <1>2, <1>3, <1>4, <1>5, RestartsType DEF Next

LEMMA TypeInvariant == Spec => []TypeInv
  BY InitTypeInv, TypeInvNext, PTL DEF Spec

\* The switches, the threads of every program and what they share keep their
\* types through every interleaving of calls, discoveries and restarts
\* (bmv2_thrift_lib.py, node_discovery.py).
THEOREM TypeCorrect == Spec => []TypeOK
  BY TypeInvariant, TypeInvImplies, PTL

-------------------------------------------------------------------------------
(* Loops.                                                                  *)

\* How a step of the main thread leaves a loop.
LEMMA LoopLeft ==
    ASSUME TypeInv, NEW p \in Programs, main[p].pc = "loop", LoopStep(p), main'[p] = Idle
    PROVE  Known(p) \subseteq main[p].seen
<1>1. /\ main[p] \in Calls /\ LoopShape(p, main[p]) /\ order[p] \in Seq(APs)
      /\ main \in [Programs -> Calls]
  BY DEF TypeInv, MainType, ProgramsType, Shape
<1>2. CASE Raise(p)
  <2>1. main'[p] \in {[Idle EXCEPT !.pc = "ended"], [Idle EXCEPT !.op = "failed"]}
    BY <1>1, <1>2 DEF Raise, Become
  <2>2. main'[p].pc = "ended" \/ main'[p].op = "failed"
    BY <2>1 DEF Idle
  <2>3. QED
    BY <2>2 DEF Idle
<1>3. CASE main[p].pos > main[p].size /\ Len(order[p]) = main[p].size
  <2>1. main[p].pos \in Nat /\ main[p].size \in Nat
    BY <1>1 DEF Calls
  <2>2. 1 .. Len(order[p]) \subseteq 1 .. main[p].pos - 1
    BY <1>3, <2>1
  <2>3. QED
    BY <1>1, <2>2 DEF LoopShape, Known
<1>4. CASE Visit(p, order[p][main[p].pos])
  <2>1. PICK s : s = order[p][main[p].pos]
    OBVIOUS
  <2> DEFINE next == [main[p] EXCEPT !.pos = @ + 1, !.seen = @ \cup {s}]
             there == [next EXCEPT !.pc = "find", !.sw = s, !.boot = conn[p][s].boot]
  <2>2. main'[p] = next \/ main'[p] = there
    BY <1>1, <1>4, <2>1 DEF Visit, Become
  <2>3. next.pc = "loop" /\ there.pc = "find"
    BY <1>1 DEF Calls
  <2> HIDE DEF next, there
  <2>4. main'[p].pc # "idle"
    BY <2>2, <2>3
  <2>5. QED
    BY <2>4 DEF Idle
<1>5. QED
  BY <1>1, <1>2, <1>3, <1>4 DEF LoopStep

\* Only the loop's own step, or a restart, leads from a loop to the idle state.
LEMMA LoopEnds ==
    ASSUME TypeInv, [Next]_vars, NEW p \in Programs, main[p].pc = "loop",
           main'[p] = Idle, order'[p] # << >>
    PROVE  Known(p) \subseteq main[p].seen
<1>0. main \in [Programs -> Calls] /\ main[p] # Idle
  BY DEF TypeInv, MainType, Idle
<1>1. ASSUME NEW q \in Programs, NEW n, Become(q, n)
      PROVE  q = p /\ n = Idle
  BY <1>0, <1>1 DEF Become
<1>2. ASSUME NEW q \in Programs, MainStep(q)
      PROVE  Known(p) \subseteq main[p].seen
  <2>1. CASE q = p
    <3>1. LoopStep(p)
      BY <1>2, <2>1 DEF MainStep, MCDump, ParseDump, MCUpdate, Find, WriteEntry
    <3>2. QED
      BY <3>1, LoopLeft
  <2>2. CASE q # p
    <3>1. \E n : Become(q, n)
      BY <1>2 DEF MainStep, MCDump, ParseDump, MCUpdate, LoopStep, Visit, Find,
                  WriteEntry, Return, Raise
    <3>2. QED
      BY <1>1, <2>2, <3>1
  <2>3. QED
    BY <2>1, <2>2
<1>3. ASSUME NEW q \in Programs, CallStarts(q)
      PROVE  FALSE
  <2>1. main[q].pc = "idle" /\ \E n : Become(q, n)
    BY <1>3 DEF CallStarts, StartPortCall, StartEntryCall, StartLoop
  <2>2. QED
    BY <1>1, <2>1
<1>4. ASSUME NEW q \in Programs, HearAny(q) \/ Listen(q) \/ Disturb(q)
      PROVE  FALSE
  <2>1. UNCHANGED main \/ Prints(q)
    BY <1>4 DEF HearAny, Hear, Listen, Store, Disturb, OtherDatagram, ConnectFails
  <2>2. CASE Prints(q)
    <3>1. PICK n \in Calls : Become(q, n) /\ n.pc = main[q].pc
      BY <2>2, PrintsType
    <3>2. q = p /\ n = Idle
      BY <1>1, <3>1
    <3>3. QED
      BY <3>1, <3>2 DEF Idle
  <2>3. QED
    BY <1>0, <2>1, <2>2
<1>5. ASSUME NEW a \in Managers, RestartManager(a) \/ ResetState(a) \/ CreateGroup(a)
      PROVE  FALSE
  <2>1. a \in Programs
    BY DEF Managers
  <2>2. CASE RestartManager(a)
    <3>1. PICK b : Become(a, [Idle EXCEPT !.pc = "reset", !.sw = a, !.boot = b])
      BY <2>2 DEF RestartManager
    <3> DEFINE n == [Idle EXCEPT !.pc = "reset", !.sw = a, !.boot = b]
    <3>2. n.pc = "reset" /\ Idle.pc = "idle"
      BY DEF Idle
    <3> HIDE DEF n
    <3>3. Become(a, n)
      BY <3>1 DEF n
    <3>4. n = Idle
      BY <1>1, <2>1, <3>3
    <3>5. QED
      BY <3>2, <3>4
  <2>3. CASE ResetState(a) \/ CreateGroup(a)
    <3>1. main[a].pc # "loop" /\ \E n : Become(a, n)
      BY <2>3 DEF ResetState, CreateGroup
    <3>2. QED
      BY <1>1, <2>1, <3>1
  <2>4. QED
    BY <1>5, <2>2, <2>3
<1>6. ASSUME NEW q \in Programs \ APs, RestartCoordinator(q)
      PROVE  FALSE
  <2>1. Become(q, Idle) /\ order' = [order EXCEPT ![q] = << >>]
    BY <1>6 DEF RestartCoordinator, Forget
  <2>2. q = p
    BY <1>1, <2>1
  <2>3. QED
    BY <2>1, <2>2 DEF TypeInv, ProgramsType
<1>7. CASE UNCHANGED vars \/ \E s \in APs : RestartSwitch(s)
  BY <1>0, <1>7 DEF RestartSwitch, vars
<1>8. QED
  BY <1>2, <1>3, <1>4, <1>5, <1>6, <1>7 DEF Next

\* A loop over get_aps_dict() that ends without an exception has visited every
\* access point known at its end, whatever the listener inserts meanwhile
\* (coordinator.py and ap_manager.py, their loops; node_discovery.py).
THEOREM LoopsAreComplete == Spec => LoopIsComplete
<1>1. TypeInv /\ [Next]_vars =>
          [\A p \in Programs :
              main[p].pc = "loop" /\ main'[p] = Idle /\ order'[p] # << >>
                  => Known(p) \subseteq main[p].seen]_vars
  BY LoopEnds
<1>2. QED
  BY <1>1, TypeInvariant, PTL DEF Spec, LoopIsComplete

-------------------------------------------------------------------------------
(* Read, then update.  A program whose call goes to the state n knows no   *)
(* more of the group, or of the entry, than it did before.                 *)

GroupQuiet(q, n) ==
    /\ n.pc \in {"parse", "update"} =>
           /\ main[q].pc \in {"parse", "update"}
           /\ n.sw = main[q].sw /\ n.boot = main[q].boot /\ n.snap = main[q].snap
    /\ n.pc \in {"mgrp", "node"} =>
           /\ main[q].pc \in {"mgrp", "node"}
           /\ n.sw = main[q].sw /\ n.boot = main[q].boot

EntryQuiet(q, n) ==
    n.pc \in {"add", "modify", "delete"} =>
        /\ main[q].pc = n.pc /\ n.sw = main[q].sw /\ n.arg = main[q].arg
        /\ n.boot = main[q].boot /\ n.handle = main[q].handle

\* Everybody is quiet but the readers: mc_dump, the look-up of an entry, and
\* the reset of the switch.
AllQuiet ==
    \A q \in Programs :
        /\ GroupQuiet(q, main'[q]) \/ MCDump(q) \/ (q \in Managers /\ ResetState(q))
        /\ EntryQuiet(q, main'[q]) \/ Find(q)

LEMMA OneQuiet ==
    ASSUME TypeInv, NEW p \in Programs, NEW n \in Calls, Become(p, n),
           GroupQuiet(p, n) \/ MCDump(p) \/ (p \in Managers /\ ResetState(p)),
           EntryQuiet(p, n) \/ Find(p)
    PROVE  AllQuiet
<1>1. main'[p] = n /\ \A q \in Programs : q # p => main'[q] = main[q]
  BY DEF TypeInv, MainType, Become
<1>2. \A q \in Programs : GroupQuiet(q, main[q]) /\ EntryQuiet(q, main[q])
  BY DEF GroupQuiet, EntryQuiet
<1>3. ASSUME NEW q \in Programs, q # p
      PROVE  GroupQuiet(q, main'[q]) /\ EntryQuiet(q, main'[q])
  BY <1>1, <1>2, <1>3
<1>4. GroupQuiet(p, main'[p]) \/ MCDump(p) \/ (p \in Managers /\ ResetState(p))
  BY <1>1
<1>5. EntryQuiet(p, main'[p]) \/ Find(p)
  BY <1>1
<1>6. QED
  BY <1>3, <1>4, <1>5 DEF AllQuiet

\* A call that is in none of these states knows nothing.
LEMMA Knowing ==
    ASSUME NEW q \in Programs, NEW n \in Calls
    PROVE  /\ n.pc \notin {"parse", "update", "mgrp", "node"} => GroupQuiet(q, n)
           /\ n.pc \notin {"add", "modify", "delete"} => EntryQuiet(q, n)
  BY DEF GroupQuiet, EntryQuiet

LEMMA MainQuiet ==
    ASSUME TypeInv, NEW p \in Programs, MainStep(p)
    PROVE  AllQuiet
<1>1. main[p] \in Calls
  BY DEF TypeInv, MainType
<1>2. ASSUME Return(p) \/ Raise(p)
      PROVE  AllQuiet
  BY <1>2, Over, Knowing, OneQuiet
<1>3. CASE MCDump(p)
  <2>1. CASE Become(p, [main[p] EXCEPT !.pc = "parse", !.snap = group[main[p].sw]])
    <3> DEFINE n == [main[p] EXCEPT !.pc = "parse", !.snap = group[main[p].sw]]
    <3>1. main[p].sw \in APs
      BY <1>3 DEF MCDump, TypeInv, Shape
    <3>2. n \in Calls /\ n.pc = "parse"
      BY <1>1, <3>1 DEF Calls, TypeInv, SwitchesType
    <3>3. Become(p, n)
      BY <2>1
    <3> HIDE DEF n
    <3>4. QED
      BY <1>3, <3>2, <3>3, Knowing, OneQuiet
  <2>2. QED
    BY <1>2, <1>3, <2>1 DEF MCDump
<1>4. CASE ParseDump(p)
  <2>1. CASE Become(p, [main[p] EXCEPT !.pc = "update"])
    <3> DEFINE n == [main[p] EXCEPT !.pc = "update"]
    <3>1. /\ n \in Calls /\ n.pc = "update" /\ n.sw = main[p].sw
          /\ n.boot = main[p].boot /\ n.snap = main[p].snap
      BY <1>1 DEF Calls
    <3>2. Become(p, n)
      BY <2>1
    <3> HIDE DEF n
    <3>3. GroupQuiet(p, n)
      BY <1>4, <3>1 DEF GroupQuiet, ParseDump
    <3>4. QED
      BY <3>1, <3>2, <3>3, Knowing, OneQuiet
  <2>2. QED
    BY <1>2, <1>4, <2>1 DEF ParseDump
<1>5. CASE LoopStep(p)
  <2>1. Idle \in Calls /\ Idle.pc = "idle"
    BY DEF Idle, Calls
  <2>2. CASE /\ Len(order[p]) = main[p].size /\ main[p].pos <= main[p].size
             /\ Visit(p, order[p][main[p].pos])
    <3>1. PICK n : Become(p, n) /\ n = main'[p]
      BY <2>2 DEF Visit, Become, TypeInv, MainType
    <3>2. PICK s : s = order[p][main[p].pos]
      OBVIOUS
    <3> DEFINE next == [main[p] EXCEPT !.pos = @ + 1, !.seen = @ \cup {s}]
               there == [next EXCEPT !.pc = "find", !.sw = s, !.boot = conn[p][s].boot]
    <3>3. n = next \/ n = there
      BY <1>1, <2>2, <3>1, <3>2 DEF Visit, Become, TypeInv, MainType
    <3>4. next.pc = "loop" /\ there.pc = "find"
      BY <1>1, <1>5 DEF Calls, LoopStep
    <3> HIDE DEF next, there
    <3>5. n.pc \in {"loop", "find"}
      BY <3>3, <3>4
    <3>6. n \in Calls
      BY <1>5, <3>1, ReadsType DEF TypeInv, MainType
    <3>7. QED
      BY <3>1, <3>5, <3>6, Knowing, OneQuiet
  <2>3. CASE Become(p, Idle)
    BY <2>1, <2>3, Knowing, OneQuiet
  <2>4. main[p].pos \in Nat /\ main[p].size \in Nat
    BY <1>1 DEF Calls
  <2>5. QED
    BY <1>2, <1>5, <2>2, <2>3, <2>4 DEF LoopStep
<1>6. CASE Find(p)
  <2>1. CASE Return(p)
    BY <1>2, <2>1
  <2>2. CASE ~ Return(p)
    <3> DEFINE e == table[main[p].sw][main[p].arg]
               pc == IF e = NoEntry THEN "add"
                     ELSE IF main[p].op = "set" THEN "modify" ELSE "delete"
               n == [main[p] EXCEPT !.handle = e.handle, !.pc = pc]
    <3>1. Become(p, n)
      BY <1>6, <2>2 DEF Find
    <3>2. n.pc \in {"add", "modify", "delete"} /\ Become(p, n)
      BY <1>1, <3>1 DEF Calls
    <3> HIDE DEF n
    <3>3. main'[p] = n
      BY <3>2 DEF Become, TypeInv, MainType
    <3>4. n \in Calls
      BY <1>6, <3>3, ReadsType DEF TypeInv, MainType
    <3>5. QED
      BY <1>6, <3>2, <3>3, <3>4, Knowing, OneQuiet
  <2>3. QED
    BY <2>1, <2>2
<1>7. CASE MCUpdate(p) \/ WriteEntry(p)
  BY <1>2, <1>7 DEF MCUpdate, WriteEntry
<1>8. QED
  BY <1>3, <1>4, <1>5, <1>6, <1>7 DEF MainStep

LEMMA NextQuiet ==
    ASSUME TypeInv, [Next]_vars
    PROVE  AllQuiet
<1>0. ASSUME UNCHANGED main
      PROVE  AllQuiet
  BY <1>0 DEF AllQuiet, GroupQuiet, EntryQuiet
<1>1. ASSUME NEW p \in Programs, MainStep(p)
      PROVE  AllQuiet
  BY <1>1, MainQuiet
<1>2. ASSUME NEW p \in Programs, NEW n \in Calls, Become(p, n),
             n.pc \in {"idle", "dump", "find", "loop", "reset"}
      PROVE  AllQuiet
  BY <1>2, Knowing, OneQuiet
<1>3. ASSUME NEW p \in Programs, NEW pc \in {"dump", "find", "loop", "reset"},
             NEW n, n.pc = pc, Become(p, n), TypeInv'
      PROVE  AllQuiet
  <2>1. n \in Calls
    BY <1>3 DEF Become, TypeInv, MainType
  <2>2. QED
    BY <1>2, <1>3, <2>1
<1>4. ASSUME NEW p \in Programs, CallStarts(p)
      PROVE  AllQuiet
  <2>0. TypeInv'
    BY <1>4, StartsType
  <2>1. ASSUME NEW s \in APs, NEW op \in {"insert", "remove"}, NEW port \in Ports,
               StartPortCall(p, s, op, port)
        PROVE  AllQuiet
    <3> DEFINE n == [Idle EXCEPT !.pc = "dump", !.op = op, !.sw = s, !.arg = port,
                                 !.boot = InstanceOf(p, s)]
    <3>1. Become(p, n) /\ n.pc = "dump"
      BY <2>1 DEF StartPortCall, Idle
    <3> HIDE DEF n
    <3>2. QED
      BY <1>3, <2>0, <3>1
  <2>2. ASSUME NEW s \in APs, NEW k \in Keys, StartEntryCall(p, s, k)
        PROVE  AllQuiet
    <3> DEFINE n == [Idle EXCEPT !.pc = "find", !.op = "set", !.sw = s, !.arg = k,
                                 !.val = "port", !.boot = InstanceOf(p, s)]
    <3>1. Become(p, n) /\ n.pc = "find"
      BY <2>2 DEF StartEntryCall, Idle
    <3> HIDE DEF n
    <3>2. QED
      BY <1>3, <2>0, <3>1
  <2>3. ASSUME NEW op, NEW k \in Keys, NEW skip, StartLoop(p, op, k, skip)
        PROVE  AllQuiet
    <3> DEFINE n == [Idle EXCEPT !.pc = "loop", !.op = op, !.arg = k,
                         !.val = IF op = "set" THEN "backbone" ELSE None,
                         !.loop = TRUE, !.size = Len(order[p]), !.skip = skip]
    <3>1. Become(p, n) /\ n.pc = "loop"
      BY <2>3 DEF StartLoop, Idle
    <3> HIDE DEF n
    <3>2. QED
      BY <1>3, <2>0, <3>1
  <2>4. QED
    BY <1>4, <2>1, <2>2, <2>3 DEF CallStarts
<1>5. ASSUME NEW p \in Programs, HearAny(p) \/ Listen(p) \/ Disturb(p)
      PROVE  AllQuiet
  <2>1. UNCHANGED main \/ Prints(p)
    BY <1>5 DEF HearAny, Hear, Listen, Store, Disturb, OtherDatagram, ConnectFails
  <2>2. CASE Prints(p)
    <3>1. PICK n \in Calls :
              /\ Become(p, n) /\ n.pc = main[p].pc /\ n.sw = main[p].sw
              /\ n.arg = main[p].arg /\ n.boot = main[p].boot
              /\ n.snap = main[p].snap /\ n.handle = main[p].handle
      BY <2>2, PrintsType
    <3>2. GroupQuiet(p, n) /\ EntryQuiet(p, n)
      BY <3>1 DEF GroupQuiet, EntryQuiet
    <3>3. QED
      BY <3>1, <3>2, OneQuiet
  <2>3. QED
    BY <1>0, <2>1, <2>2
<1>6. ASSUME NEW a \in Managers, RestartManager(a) \/ ResetState(a) \/ CreateGroup(a)
      PROVE  AllQuiet
  <2>0. a \in Programs /\ main[a] \in Calls /\ TypeInv'
    BY <1>6, RestartsType, SetupType DEF Managers, TypeInv, MainType
  <2>1. CASE RestartManager(a)
    <3>1. PICK b : Become(a, [Idle EXCEPT !.pc = "reset", !.sw = a, !.boot = b])
      BY <2>1 DEF RestartManager
    <3> DEFINE n == [Idle EXCEPT !.pc = "reset", !.sw = a, !.boot = b]
    <3>2. n.pc = "reset" /\ Become(a, n)
      BY <3>1 DEF Idle
    <3> HIDE DEF n
    <3>3. QED
      BY <1>3, <2>0, <3>2
  <2>2. ASSUME NEW pc \in {"mgrp", "node"}, Become(a, [main[a] EXCEPT !.pc = pc]),
               \/ pc = "mgrp" /\ ResetState(a)
               \/ pc = "node" /\ main[a].pc = "mgrp"
        PROVE  AllQuiet
    <3> DEFINE n == [main[a] EXCEPT !.pc = pc]
    <3>1. /\ n \in Calls /\ n.pc = pc /\ n.sw = main[a].sw /\ n.boot = main[a].boot
          /\ Become(a, n)
      BY <2>0, <2>2 DEF Calls
    <3> HIDE DEF n
    <3>2. EntryQuiet(a, n)
      BY <2>0, <3>1, Knowing
    <3>3. GroupQuiet(a, n) \/ ResetState(a)
      BY <2>2, <3>1 DEF GroupQuiet
    <3>4. QED
      BY <2>0, <3>1, <3>2, <3>3, OneQuiet
  <2>3. Idle \in Calls /\ Idle.pc = "idle"
    BY DEF Idle, Calls
  <2>4. CASE ResetState(a)
    BY <2>2, <2>4 DEF ResetState
  <2>5. CASE CreateGroup(a)
    <3>1. \/ main[a].pc = "mgrp" /\ Become(a, [main[a] EXCEPT !.pc = "node"])
          \/ Become(a, Idle)
      BY <2>5 DEF CreateGroup
    <3>2. QED
      BY <1>2, <2>0, <2>2, <2>3, <3>1
  <2>6. QED
    BY <1>6, <2>1, <2>4, <2>5
<1>7. ASSUME NEW p \in Programs \ APs, RestartCoordinator(p)
      PROVE  AllQuiet
  <2>1. Idle \in Calls /\ Idle.pc = "idle" /\ Become(p, Idle)
    BY <1>7 DEF RestartCoordinator, Idle, Calls
  <2>2. QED
    BY <1>2, <2>1
<1>8. CASE UNCHANGED vars \/ \E s \in APs : RestartSwitch(s)
  BY <1>0, <1>8 DEF RestartSwitch, vars
<1>9. QED
  BY <1>1, <1>4, <1>5, <1>6, <1>7, <1>8 DEF Next

-------------------------------------------------------------------------------
(* The broadcast group.  What a call that is about to update it has read   *)
(* is what it is, unless the call was overlapped; a manager that sets it   *)
(* up finds no node.                                                       *)

GroupRead(p) ==
    LET m == main[p]
    IN  m.pc \in {"parse", "update"} /\ Reached(p) /\ m.sw \notin mixed =>
            m.snap = group[m.sw] \/ m.snap \in {{}, Bare}

GroupStands == \A s \in APs \ mixed : group[s] = ports[s]

OneUpdater ==
    \A s \in APs \ mixed, p, q \in Programs :
        UpdatesGroup(p, s) /\ UpdatesGroup(q, s) => p = q

NoNodeYet ==
    \A a \in Managers :
        main[a].pc \in {"mgrp", "node"} /\ Reached(a) => group[a] \in {{}, Bare}

GroupInv ==
    GroupStands /\ OneUpdater /\ (\A p \in Programs : GroupRead(p)) /\ NoNodeYet

LEMMA InitGroupInv == Init => GroupInv
  BY DEF Init, GroupInv, GroupStands, OneUpdater, GroupRead, NoNodeYet, UpdatesGroup,
         Idle, Managers

\* Who is quiet knows what it knew.
LEMMA QuietUpdates ==
    ASSUME \A q \in Programs : GroupQuiet(q, main'[q]), NEW q \in Programs
    PROVE  /\ \A s : UpdatesGroup(q, s)' => UpdatesGroup(q, s)
           /\ main'[q].pc \in {"parse", "update", "mgrp", "node"} =>
                  main'[q].sw = main[q].sw /\ main'[q].boot = main[q].boot
  BY DEF GroupQuiet, UpdatesGroup

LEMMA GroupKept ==
    ASSUME TypeInv, GroupInv, UNCHANGED <<group, boot, ports, mixed>>,
           \A q \in Programs : GroupQuiet(q, main'[q])
    PROVE  GroupInv'
<1>1. GroupStands'
  BY DEF GroupInv, GroupStands
<1>2. OneUpdater'
  BY QuietUpdates DEF GroupInv, OneUpdater
<1>3. ASSUME NEW p \in Programs
      PROVE  GroupRead(p)'
  BY DEF GroupInv, GroupRead, GroupQuiet, Reached
<1>4. NoNodeYet'
  BY DEF GroupInv, NoNodeYet, GroupQuiet, Reached, Managers
<1>5. QED
  BY <1>1, <1>2, <1>3, <1>4 DEF GroupInv

\* mc_dump reads the group; whoever had read it before is overlapped.
LEMMA DumpKeepsGroup ==
    ASSUME TypeInv, GroupInv, NEW p \in Programs, MCDump(p)
    PROVE  GroupInv'
<1>0. /\ UNCHANGED <<group, boot, ports>> /\ main[p] \in Calls /\ main[p].sw \in APs
      /\ main \in [Programs -> Calls]
  BY DEF MCDump, switches, TypeInv, MainType, Shape
<1>1. CASE Return(p) /\ UNCHANGED mixed
  <2>1. \A q \in Programs : GroupQuiet(q, main'[q])
    <3>1. PICK n \in Calls : Become(p, n) /\ n.pc \in {"loop", "idle", "ended"}
      BY <1>1, Over
    <3>2. GroupQuiet(p, n) /\ \A q \in Programs : GroupQuiet(q, main[q])
      BY <3>1, Knowing DEF GroupQuiet
    <3>3. QED
      BY <1>0, <3>1, <3>2 DEF Become
  <2>2. QED
    BY <1>0, <1>1, <2>1, GroupKept
<1>2. CASE /\ Reached(p)
           /\ Become(p, [main[p] EXCEPT !.pc = "parse", !.snap = group[main[p].sw]])
           /\ mixed' = IF \E q \in Programs \ {p} : UpdatesGroup(q, main[p].sw)
                       THEN mixed \cup {main[p].sw} ELSE mixed
  <2> DEFINE n == [main[p] EXCEPT !.pc = "parse", !.snap = group[main[p].sw]]
  <2>1. /\ n.pc = "parse" /\ n.sw = main[p].sw /\ n.boot = main[p].boot
        /\ n.snap = group[main[p].sw]
    BY <1>0 DEF Calls
  <2>2. main'[p] = n /\ \A q \in Programs : q # p => main'[q] = main[q]
    BY <1>0, <1>2 DEF Become
  <2> HIDE DEF n
  <2>3. GroupStands'
    BY <1>0, <1>2 DEF GroupInv, GroupStands
  <2>4. ASSUME NEW s \in APs \ mixed', NEW q \in Programs, NEW r \in Programs,
               UpdatesGroup(q, s)', UpdatesGroup(r, s)'
        PROVE  q = r
    <3>1. CASE s = main[p].sw
      BY <1>2, <2>2, <2>4, <3>1 DEF UpdatesGroup
    <3>2. CASE s # main[p].sw
      BY <1>2, <2>1, <2>2, <2>4, <3>2 DEF UpdatesGroup, GroupInv, OneUpdater
    <3>3. QED
      BY <3>1, <3>2
  <2>5. ASSUME NEW q \in Programs
        PROVE  GroupRead(q)'
    <3>1. CASE q = p
      BY <1>0, <2>1, <2>2, <3>1 DEF GroupRead
    <3>2. CASE q # p
      BY <1>0, <1>2, <2>2, <3>2 DEF GroupRead, Reached, GroupInv
    <3>3. QED
      BY <3>1, <3>2
  <2>6. NoNodeYet'
    BY <1>0, <2>1, <2>2 DEF GroupInv, NoNodeYet, Reached, Managers
  <2>7. QED
    BY <2>3, <2>4, <2>5, <2>6 DEF GroupInv, OneUpdater
<1>3. QED
  BY <1>1, <1>2 DEF MCDump

\* The switch is cleared by its manager or by a start of its own: a call that
\* has read it is overtaken.
LEMMA ClearKeepsGroup ==
    ASSUME TypeInv, GroupInv, NEW s \in APs, Clear(s),
           \A t \in APs : t # s => boot'[t] = boot[t],
           \A q \in Programs : \/ main'[q] = main[q]
                               \/ /\ q = s /\ main'[q].pc = "mgrp"
                                  /\ main'[q].sw = s
    PROVE  GroupInv'
<1>1. /\ group' = [group EXCEPT ![s] = {}] /\ ports' = [ports EXCEPT ![s] = {}]
      /\ group \in [APs -> (SUBSET Ports) \cup {Bare}]
      /\ ports \in [APs -> (SUBSET Ports) \cup {Bare}]
  BY DEF Clear, TypeInv, SwitchesType, HistoryType
<1>2. /\ \A t \in APs : t # s => (t \in mixed' <=> t \in mixed)
      /\ s \in mixed' <=> \E q \in Programs : UpdatesGroup(q, s)
  BY DEF Clear
<1>3. GroupStands'
  BY <1>1, <1>2 DEF GroupInv, GroupStands
<1>4. \A q \in Programs, t \in APs : UpdatesGroup(q, t)' => UpdatesGroup(q, t)
  BY DEF UpdatesGroup
<1>5. OneUpdater'
  BY <1>2, <1>4 DEF GroupInv, OneUpdater
<1>6. ASSUME NEW q \in Programs, main'[q].pc \in {"parse", "update"}, Reached(q)',
             main'[q].sw \notin mixed'
      PROVE  main'[q].snap = group'[main'[q].sw] \/ main'[q].snap \in {{}, Bare}
  <2>1. main'[q] = main[q] /\ main[q].sw \in APs
    BY <1>6 DEF TypeInv, Shape
  <2>2. UpdatesGroup(q, main[q].sw)
    BY <1>6, <2>1 DEF UpdatesGroup
  <2>3. main[q].sw # s /\ main[q].sw \notin mixed
    BY <1>2, <1>6, <2>1, <2>2
  <2>4. Reached(q) /\ group'[main[q].sw] = group[main[q].sw]
    BY <1>1, <1>6, <2>1, <2>3 DEF Reached
  <2>5. QED
    BY <1>6, <2>1, <2>3, <2>4 DEF GroupInv, GroupRead
<1>7. ASSUME NEW a \in Managers, main'[a].pc \in {"mgrp", "node"}, Reached(a)'
      PROVE  group'[a] \in {{}, Bare}
  <2>1. CASE a = s
    BY <1>1, <2>1
  <2>2. CASE a # s
    <3>1. main'[a] = main[a] /\ main[a].sw = a /\ a \in APs /\ a \in Programs
      BY <1>7, <2>2 DEF Managers, TypeInv, Shape
    <3>2. Reached(a)
      BY <1>7, <2>2, <3>1 DEF Reached
    <3>3. QED
      BY <1>1, <1>7, <2>2, <3>1, <3>2 DEF GroupInv, NoNodeYet
  <2>3. QED
    BY <2>1, <2>2
<1>8. QED
  BY <1>3, <1>5, <1>6, <1>7 DEF GroupInv, GroupRead, NoNodeYet

\* mc_node_update writes what was read and changed: the group had not moved.
LEMMA UpdateKeepsGroup ==
    ASSUME TypeInv, GroupInv, NEW p \in Programs, MCUpdate(p),
           \A q \in Programs : GroupQuiet(q, main'[q])
    PROVE  GroupInv'
<1>0. /\ UNCHANGED <<boot, mixed>> /\ main[p].pc = "update" /\ main[p].sw \in APs
      /\ main[p].snap \notin {{}, Bare} /\ Return(p)
  BY DEF MCUpdate, TypeInv, Shape
<1>1. CASE UNCHANGED <<group, ports>>
  BY <1>0, <1>1, GroupKept
<1>2. CASE /\ Reached(p) /\ group[main[p].sw] \notin {{}, Bare}
           /\ group' = [group EXCEPT ![main[p].sw] = Changed(p, main[p].snap)]
           /\ ports' = [ports EXCEPT ![main[p].sw] = Changed(p, ports[main[p].sw])]
  <2>1. PICK s \in APs : s = main[p].sw
    BY <1>0
  <2>2. /\ group' = [group EXCEPT ![s] = Changed(p, main[p].snap)]
        /\ ports' = [ports EXCEPT ![s] = Changed(p, ports[s])]
        /\ group \in [APs -> (SUBSET Ports) \cup {Bare}]
        /\ ports \in [APs -> (SUBSET Ports) \cup {Bare}]
        /\ Reached(p) /\ UpdatesGroup(p, s) /\ group[s] \notin {{}, Bare}
    BY <1>0, <1>2, <2>1 DEF TypeInv, SwitchesType, HistoryType, UpdatesGroup
  <2>3. s \notin mixed => main[p].snap = group[s] /\ group[s] = ports[s]
    BY <1>0, <2>1, <2>2 DEF GroupInv, GroupRead, GroupStands
  <2>4. GroupStands'
    BY <1>0, <2>2, <2>3 DEF GroupInv, GroupStands
  <2>5. OneUpdater'
    BY <1>0, QuietUpdates DEF GroupInv, OneUpdater
  <2>6. main'[p].pc \notin {"parse", "update"}
    <3>1. PICK n \in Calls : Become(p, n) /\ n.pc \in {"loop", "idle", "ended"}
      BY <1>0, Over
    <3>2. QED
      BY <3>1 DEF Become, TypeInv, MainType
  <2>7. ASSUME NEW q \in Programs, main'[q].pc \in {"parse", "update"}, Reached(q)',
               main'[q].sw \notin mixed'
        PROVE  main'[q].snap = group'[main'[q].sw] \/ main'[q].snap \in {{}, Bare}
    <3>1. /\ main[q].pc \in {"parse", "update"} /\ main'[q].sw = main[q].sw
          /\ main'[q].boot = main[q].boot /\ main'[q].snap = main[q].snap
      BY <2>7 DEF GroupQuiet
    <3>2. main[q].sw \in APs /\ Reached(q) /\ main[q].sw \notin mixed
      BY <1>0, <2>7, <3>1 DEF Reached, TypeInv, Shape
    <3>3. main[q].sw # s
      BY <2>2, <2>6, <2>7, <3>1, <3>2 DEF GroupInv, OneUpdater, UpdatesGroup
    <3>4. QED
      BY <2>2, <3>1, <3>2, <3>3 DEF GroupInv, GroupRead
  <2>8. ASSUME NEW a \in Managers, main'[a].pc \in {"mgrp", "node"}, Reached(a)'
        PROVE  group'[a] \in {{}, Bare}
    <3>1. a \in APs /\ a \in Programs
      BY DEF Managers
    <3>2. group[a] \in {{}, Bare}
      BY <1>0, <2>8, <3>1 DEF GroupInv, NoNodeYet, GroupQuiet, Reached
    <3>3. QED
      BY <2>2, <3>1, <3>2
  <2>9. QED
    BY <2>4, <2>5, <2>7, <2>8 DEF GroupInv, GroupRead, NoNodeYet
<1>3. QED
  BY <1>1, <1>2 DEF MCUpdate

\* The group and its node are created where there were none: a dump read before
\* shows no port list.
LEMMA SetupKeepsGroup ==
    ASSUME TypeInv, GroupInv, NEW a \in Managers, CreateGroup(a),
           \A q \in Programs : GroupQuiet(q, main'[q])
    PROVE  GroupInv'
<1>0. /\ UNCHANGED <<boot, mixed>> /\ a \in APs /\ a \in Programs /\ main[a].sw = a
      /\ main[a].pc \in {"mgrp", "node"} /\ main \in [Programs -> Calls]
  BY DEF CreateGroup, Managers, TypeInv, Shape, MainType
<1>1. CASE UNCHANGED <<group, ports>>
  BY <1>0, <1>1, GroupKept
<1>2. CASE Reached(a)
  <2>1. group[a] \in {{}, Bare}
    BY <1>0, <1>2 DEF GroupInv, NoNodeYet
  <2>2. \/ /\ main[a].pc = "mgrp"
           /\ group' = [group EXCEPT ![a] = Bare] /\ ports' = [ports EXCEPT ![a] = Bare]
        \/ /\ main[a].pc = "node" /\ Become(a, Idle)
           /\ group' = [group EXCEPT ![a] = {Backbone}]
           /\ ports' = [ports EXCEPT ![a] = {Backbone}]
    BY <1>2 DEF CreateGroup
  <2>3. /\ group \in [APs -> (SUBSET Ports) \cup {Bare}]
        /\ ports \in [APs -> (SUBSET Ports) \cup {Bare}]
    BY DEF TypeInv, SwitchesType, HistoryType
  <2>4. /\ \A t \in APs : t # a => group'[t] = group[t] /\ ports'[t] = ports[t]
        /\ group'[a] = ports'[a]
    BY <1>0, <2>2, <2>3
  <2>5. GroupStands'
    BY <1>0, <2>4 DEF GroupInv, GroupStands
  <2>6. OneUpdater'
    BY <1>0, QuietUpdates DEF GroupInv, OneUpdater
  <2>7. ASSUME NEW q \in Programs, main'[q].pc \in {"parse", "update"}, Reached(q)',
               main'[q].sw \notin mixed'
        PROVE  main'[q].snap = group'[main'[q].sw] \/ main'[q].snap \in {{}, Bare}
    <3>1. /\ main[q].pc \in {"parse", "update"} /\ main'[q].sw = main[q].sw
          /\ main'[q].boot = main[q].boot /\ main'[q].snap = main[q].snap
      BY <2>7 DEF GroupQuiet
    <3>2. main[q].sw \in APs /\ Reached(q) /\ main[q].sw \notin mixed
      BY <1>0, <2>7, <3>1 DEF Reached, TypeInv, Shape
    <3>3. main[q].snap = group[main[q].sw] \/ main[q].snap \in {{}, Bare}
      BY <3>1, <3>2 DEF GroupInv, GroupRead
    <3>4. QED
      BY <2>1, <2>4, <3>1, <3>2, <3>3
  <2>8. ASSUME NEW b \in Managers, main'[b].pc \in {"mgrp", "node"}, Reached(b)'
        PROVE  group'[b] \in {{}, Bare}
    <3>1. b \in APs /\ b \in Programs
      BY DEF Managers
    <3>2. group[b] \in {{}, Bare}
      BY <1>0, <2>8, <3>1 DEF GroupInv, NoNodeYet, GroupQuiet, Reached
    <3>3. CASE b # a
      BY <2>4, <3>1, <3>2, <3>3
    <3>4. CASE b = a
      <4>1. main[a].pc = "mgrp"
        BY <1>0, <2>2, <2>8, <3>4 DEF Become, Idle
      <4>2. QED
        BY <1>0, <2>2, <2>3, <3>4, <4>1
    <3>5. QED
      BY <3>3, <3>4
  <2>9. QED
    BY <2>5, <2>6, <2>7, <2>8 DEF GroupInv, GroupRead, NoNodeYet
<1>3. QED
  BY <1>1, <1>2 DEF CreateGroup

LEMMA GroupInvNext == TypeInv /\ GroupInv /\ [Next]_vars => GroupInv'
<1> SUFFICES ASSUME TypeInv, GroupInv, [Next]_vars
             PROVE  GroupInv'
  OBVIOUS
<1>1. CASE \E p \in Programs : MCDump(p)
  BY <1>1, DumpKeepsGroup
<1>2. ASSUME NEW a \in Managers, ResetState(a)
      PROVE  GroupInv'
  <2>0. /\ a \in APs /\ a \in Programs /\ main[a].sw = a /\ main \in [Programs -> Calls]
        /\ UNCHANGED boot /\ Become(a, [main[a] EXCEPT !.pc = "mgrp"])
    BY <1>2 DEF ResetState, Managers, TypeInv, Shape, MainType
  <2>1. /\ \A q \in Programs : q # a => main'[q] = main[q]
        /\ main'[a].pc = "mgrp" /\ main'[a].sw = a /\ main'[a].boot = main[a].boot
    BY <2>0 DEF Become, Calls
  <2>2. CASE Clear(a)
    BY <2>0, <2>1, <2>2, ClearKeepsGroup
  <2>3. CASE ~ Reached(a) /\ UNCHANGED <<group, history>>
    <3>1. UNCHANGED <<group, ports, mixed>>
      BY <2>3 DEF history
    <3>2. GroupStands'
      BY <3>1 DEF GroupInv, GroupStands
    <3>3. \A q \in Programs : \A t : UpdatesGroup(q, t)' => UpdatesGroup(q, t)
      BY <2>1 DEF UpdatesGroup
    <3>4. OneUpdater'
      BY <3>1, <3>3 DEF GroupInv, OneUpdater
    <3>5. \A q \in Programs : GroupRead(q)'
      BY <2>0, <2>1, <3>1 DEF GroupInv, GroupRead, Reached
    <3>6. NoNodeYet'
      BY <2>0, <2>1, <2>3, <3>1 DEF GroupInv, NoNodeYet, Reached, Managers
    <3>7. QED
      BY <3>2, <3>4, <3>5, <3>6 DEF GroupInv
  <2>4. QED
    BY <1>2, <2>2, <2>3 DEF ResetState
<1>3. CASE /\ ~ \E p \in Programs : MCDump(p)
           /\ ~ \E a \in Managers : ResetState(a)
  <2>1. \A q \in Programs : GroupQuiet(q, main'[q])
    BY <1>3, NextQuiet DEF AllQuiet
  <2>2. CASE \E p \in Programs : MCUpdate(p)
    BY <2>1, <2>2, UpdateKeepsGroup
  <2>3. CASE \E a \in Managers : CreateGroup(a)
    BY <2>1, <2>3, SetupKeepsGroup
  <2>4. ASSUME NEW s \in APs, RestartSwitch(s)
        PROVE  GroupInv'
    <3>1. Clear(s) /\ UNCHANGED main /\ \A t \in APs : t # s => boot'[t] = boot[t]
      BY <2>4 DEF RestartSwitch, TypeInv, SwitchesType
    <3>2. QED
      BY <3>1, ClearKeepsGroup
  <2>5. CASE UNCHANGED <<group, boot, ports, mixed>>
    BY <2>1, <2>5, GroupKept
  <2>6. ASSUME NEW p \in Programs,
               \/ ParseDump(p) \/ LoopStep(p) \/ Find(p) \/ WriteEntry(p)
               \/ CallStarts(p) \/ HearAny(p) \/ Listen(p) \/ Disturb(p)
        PROVE  UNCHANGED <<group, boot, ports, mixed>>
    BY <2>6 DEF ParseDump, LoopStep, Find, WriteEntry, CallStarts, StartPortCall,
                StartEntryCall, StartLoop, HearAny, Hear, Listen, Store, Disturb,
                OtherDatagram, ConnectFails, switches, history
  <2>7. ASSUME \/ \E a \in Managers : RestartManager(a)
               \/ \E p \in Programs \ APs : RestartCoordinator(p)
               \/ UNCHANGED vars
        PROVE  UNCHANGED <<group, boot, ports, mixed>>
    BY <2>7 DEF RestartManager, RestartCoordinator, vars, switches, history
  <2>8. QED
    BY <1>3, <2>2, <2>3, <2>4, <2>5, <2>6, <2>7 DEF Next, MainStep
<1>4. QED
  BY <1>1, <1>2, <1>3

\* add_bmv2_swarm_broadcast_port and remove_bmv2_swarm_broadcast_port, of any
\* number of programs: unless calls overlap on a switch, or are overtaken by a
\* reset, its broadcast group has exactly the ports asked for.
THEOREM PortsAlwaysStand == Spec => []PortsStand
<1>1. GroupInv => PortsStand
  BY DEF GroupInv, GroupStands, PortsStand
<1>2. QED
  BY <1>1, InitGroupInv, GroupInvNext, TypeInvariant, PTL DEF Spec

-------------------------------------------------------------------------------
(* The entries of the table: one that is about to be added is not there,   *)
(* one that is about to be changed has the handle that was read.           *)

EntryRead(p) ==
    LET m == main[p]
        e == table[m.sw][m.arg]
    IN  m.pc \in {"add", "modify", "delete"} /\ Reached(p)
        /\ <<m.sw, m.arg>> \notin mixedKeys =>
            IF m.pc = "add" THEN e = NoEntry ELSE e # NoEntry /\ e.handle = m.handle

EntryStands ==
    \A s \in APs, k \in Keys :
        <<s, k>> \notin mixedKeys => table[s][k].value = entries[s][k]

OneWriter ==
    \A s \in APs, k \in Keys, p, q \in Programs :
        <<s, k>> \notin mixedKeys /\ UpdatesEntry(p, s, k) /\ UpdatesEntry(q, s, k)
            => p = q

EntryInv == EntryStands /\ OneWriter /\ \A p \in Programs : EntryRead(p)

LEMMA InitEntryInv == Init => EntryInv
  BY DEF Init, EntryInv, EntryStands, OneWriter, EntryRead, UpdatesEntry, Idle, Empty,
         NoEntry

LEMMA EntriesKept ==
    ASSUME TypeInv, EntryInv, UNCHANGED <<table, boot, entries, mixedKeys>>,
           \A q \in Programs : EntryQuiet(q, main'[q])
    PROVE  EntryInv'
<1>1. EntryStands'
  BY DEF EntryInv, EntryStands
<1>2. OneWriter'
  BY DEF EntryInv, OneWriter, EntryQuiet, UpdatesEntry
<1>3. ASSUME NEW p \in Programs
      PROVE  EntryRead(p)'
  BY DEF EntryInv, EntryRead, EntryQuiet, Reached
<1>4. QED
  BY <1>1, <1>2, <1>3 DEF EntryInv

\* table_dump_entry_from_key reads the entry.
LEMMA FindKeepsEntries ==
    ASSUME TypeInv, EntryInv, NEW p \in Programs, Find(p)
    PROVE  EntryInv'
<1>0. /\ UNCHANGED <<table, boot, entries>> /\ main[p] \in Calls
      /\ main[p].sw \in APs /\ main[p].arg \in Keys /\ main \in [Programs -> Calls]
  BY DEF Find, switches, TypeInv, MainType, Shape
<1>1. CASE Return(p) /\ UNCHANGED mixedKeys
  <2>1. \A q \in Programs : EntryQuiet(q, main'[q])
    <3>1. PICK n \in Calls : Become(p, n) /\ n.pc \in {"loop", "idle", "ended"}
      BY <1>1, Over
    <3>2. EntryQuiet(p, n) /\ \A q \in Programs : EntryQuiet(q, main[q])
      BY <3>1, Knowing DEF EntryQuiet
    <3>3. QED
      BY <1>0, <3>1, <3>2 DEF Become
  <2>2. QED
    BY <1>0, <1>1, <2>1, EntriesKept
<1>2. PICK s \in APs, k \in Keys : s = main[p].sw /\ k = main[p].arg
  BY <1>0
<1>3. CASE ~ Return(p)
  <2> DEFINE e == table[s][k]
             pc == IF e = NoEntry THEN "add"
                   ELSE IF main[p].op = "set" THEN "modify" ELSE "delete"
             n == [main[p] EXCEPT !.handle = e.handle, !.pc = pc]
  <2>1. /\ Become(p, n)
        /\ mixedKeys' = IF \E q \in Programs \ {p} : UpdatesEntry(q, s, k)
                        THEN mixedKeys \cup {<<s, k>>} ELSE mixedKeys
    BY <1>2, <1>3 DEF Find
  <2>2. e \in [handle : Nat, value : Values \cup {None}]
    BY DEF TypeInv, SwitchesType
  <2>3. /\ n.pc = pc /\ n.sw = s /\ n.arg = k /\ n.boot = main[p].boot
        /\ n.handle = e.handle
    BY <1>0, <1>2 DEF Calls
  <2>4. IF n.pc = "add" THEN e = NoEntry ELSE e # NoEntry
    BY <2>3
  <2> HIDE DEF n, pc
  <2>5. main'[p] = n /\ \A q \in Programs : q # p => main'[q] = main[q]
    BY <1>0, <2>1 DEF Become
  <2>6. EntryStands'
    BY <1>0, <2>1 DEF EntryInv, EntryStands
  <2>7. ASSUME NEW t \in APs, NEW j \in Keys, NEW q \in Programs, NEW r \in Programs,
               <<t, j>> \notin mixedKeys', UpdatesEntry(q, t, j)', UpdatesEntry(r, t, j)'
        PROVE  q = r
    <3>1. CASE t = s /\ j = k
      BY <2>1, <2>5, <2>7, <3>1 DEF UpdatesEntry
    <3>2. CASE t # s \/ j # k
      BY <2>1, <2>3, <2>5, <2>7, <3>2 DEF UpdatesEntry, EntryInv, OneWriter
    <3>3. QED
      BY <3>1, <3>2
  <2>8. ASSUME NEW q \in Programs
        PROVE  EntryRead(q)'
    <3>1. CASE q = p
      BY <1>0, <2>3, <2>4, <2>5, <3>1 DEF EntryRead
    <3>2. CASE q # p
      BY <1>0, <2>1, <2>5, <3>2 DEF EntryRead, Reached, EntryInv
    <3>3. QED
      BY <3>1, <3>2
  <2>9. QED
    BY <2>6, <2>7, <2>8 DEF EntryInv, OneWriter
<1>4. CASE Return(p) /\ ~ UNCHANGED mixedKeys
  <2>1. Return(p) /\ Answered(p)
    BY <1>4 DEF Find
  <2> DEFINE e == table[s][k]
             pc == IF e = NoEntry THEN "add"
                   ELSE IF main[p].op = "set" THEN "modify" ELSE "delete"
             n == [main[p] EXCEPT !.handle = e.handle, !.pc = pc]
  <2>2. Become(p, n)
    BY <1>2, <1>4 DEF Find
  <2>3. n.pc \in {"add", "modify", "delete"}
    BY <1>0 DEF Calls
  <2> HIDE DEF n, pc
  <2>4. PICK m \in Calls : Become(p, m) /\ m.pc \in {"loop", "idle", "ended"}
    BY <2>1, Over
  <2>5. m = n
    BY <1>0, <2>2, <2>4 DEF Become
  <2>6. QED
    BY <2>3, <2>4, <2>5
<1>5. QED
  BY <1>1, <1>3, <1>4

\* Another program that has read an entry before the switch is cleared is
\* overtaken.
LEMMA ClearKeepsEntries ==
    ASSUME TypeInv, EntryInv, NEW s \in APs, Clear(s),
           \A t \in APs : t # s => boot'[t] = boot[t],
           \A q \in Programs : main'[q] = main[q] \/ main'[q].pc = "mgrp"
    PROVE  EntryInv'
<1>1. /\ table' = [table EXCEPT ![s] = Empty]
      /\ entries' = [entries EXCEPT ![s] = [k \in Keys |-> None]]
      /\ table \in [APs -> [Keys -> [handle : Nat, value : Values \cup {None}]]]
      /\ entries \in [APs -> [Keys -> Values \cup {None}]]
  BY DEF Clear, TypeInv, SwitchesType, HistoryType
<1>2. ASSUME NEW t \in APs, NEW k \in Keys
      PROVE  /\ t # s => (<<t, k>> \in mixedKeys' <=> <<t, k>> \in mixedKeys)
             /\ t = s => (<<t, k>> \in mixedKeys' <=>
                              \E q \in Programs : UpdatesEntry(q, t, k))
  BY DEF Clear
<1>3. ASSUME NEW t \in APs, NEW k \in Keys, <<t, k>> \notin mixedKeys'
      PROVE  table'[t][k].value = entries'[t][k]
  <2>1. CASE t = s
    BY <1>1, <2>1 DEF Empty, NoEntry
  <2>2. CASE t # s
    BY <1>1, <1>2, <1>3, <2>2 DEF EntryInv, EntryStands
  <2>3. QED
    BY <2>1, <2>2
<1>4. \A q \in Programs, t \in APs, k \in Keys :
          UpdatesEntry(q, t, k)' => UpdatesEntry(q, t, k)
  BY DEF UpdatesEntry
<1>5. OneWriter'
  BY <1>2, <1>4 DEF EntryInv, OneWriter
<1>6. ASSUME NEW q \in Programs, main'[q].pc \in {"add", "modify", "delete"},
             Reached(q)', <<main'[q].sw, main'[q].arg>> \notin mixedKeys'
      PROVE  EntryRead(q)'
  <2>1. main'[q] = main[q] /\ main[q].sw \in APs /\ main[q].arg \in Keys
    BY <1>6 DEF TypeInv, Shape
  <2>2. UpdatesEntry(q, main[q].sw, main[q].arg)
    BY <1>6, <2>1 DEF UpdatesEntry
  <2>3. main[q].sw # s /\ <<main[q].sw, main[q].arg>> \notin mixedKeys
    BY <1>2, <1>6, <2>1, <2>2
  <2>4. Reached(q) /\ table'[main[q].sw] = table[main[q].sw]
    BY <1>1, <1>6, <2>1, <2>3 DEF Reached
  <2>5. QED
    BY <1>6, <2>1, <2>3, <2>4 DEF EntryInv, EntryRead
<1>7. QED
  BY <1>3, <1>5, <1>6 DEF EntryInv, EntryStands, EntryRead

\* The command has the effect it was given for: the entry had not moved.
LEMMA WriteKeepsEntries ==
    ASSUME TypeInv, EntryInv, NEW p \in Programs, WriteEntry(p),
           \A q \in Programs : EntryQuiet(q, main'[q])
    PROVE  EntryInv'
<1>0. /\ UNCHANGED <<boot, mixedKeys>> /\ main[p] \in Calls /\ Return(p)
      /\ main[p].sw \in APs /\ main[p].arg \in Keys
      /\ main[p].pc \in {"add", "modify", "delete"}
  BY DEF WriteEntry, TypeInv, Shape, MainType
<1>1. CASE UNCHANGED <<table, entries>>
  BY <1>0, <1>1, EntriesKept
<1>2. CASE Answered(p)
  <2>1. PICK s \in APs, k \in Keys : s = main[p].sw /\ k = main[p].arg
    BY <1>0
  <2>2. PICK old \in [handle : Nat, value : Values \cup {None}] : old = table[s][k]
    BY DEF TypeInv, SwitchesType
  <2> DEFINE e == Written(main[p].pc, old, main[p].handle, handle[s], main[p].val)
             v == IF main[p].pc = "delete" THEN None ELSE main[p].val
  <2>3. /\ table' = [table EXCEPT ![s][k] = e] /\ entries' = [entries EXCEPT ![s][k] = v]
        /\ table \in [APs -> [Keys -> [handle : Nat, value : Values \cup {None}]]]
        /\ entries \in [APs -> [Keys -> Values \cup {None}]]
    BY <1>2, <2>1, <2>2 DEF WriteEntry, TypeInv, SwitchesType, HistoryType
  <2>4. /\ table'[s][k] = e /\ entries'[s][k] = v
        /\ \A t \in APs, j \in Keys :
              t # s \/ j # k => table'[t][j] = table[t][j] /\ entries'[t][j] = entries[t][j]
    BY <2>3
  <2>5. ASSUME <<s, k>> \notin mixedKeys
        PROVE  e.value = v
    <3>1. IF main[p].pc = "add" THEN old = NoEntry
          ELSE old # NoEntry /\ old.handle = main[p].handle
      BY <1>0, <1>2, <2>1, <2>2, <2>5 DEF EntryInv, EntryRead, Answered
    <3>2. CASE main[p].pc = "add"
      BY <3>1, <3>2 DEF Written
    <3>3. CASE main[p].pc = "modify"
      BY <3>1, <3>3 DEF Written
    <3>4. CASE main[p].pc = "delete"
      BY <3>1, <3>4 DEF Written, NoEntry
    <3>5. QED
      BY <1>0, <3>2, <3>3, <3>4
  <2> HIDE DEF e, v
  <2>6. ASSUME NEW t \in APs, NEW j \in Keys, <<t, j>> \notin mixedKeys
        PROVE  table'[t][j].value = entries'[t][j]
    BY <2>4, <2>5, <2>6 DEF EntryInv, EntryStands
  <2>7. OneWriter'
    BY <1>0 DEF EntryInv, OneWriter, EntryQuiet, UpdatesEntry
  <2>8. main'[p].pc \notin {"add", "modify", "delete"}
    <3>1. PICK n \in Calls : Become(p, n) /\ n.pc \in {"loop", "idle", "ended"}
      BY <1>0, Over
    <3>2. QED
      BY <3>1 DEF Become, TypeInv, MainType
  <2>9. ASSUME NEW q \in Programs, main'[q].pc \in {"add", "modify", "delete"},
               Reached(q)', <<main'[q].sw, main'[q].arg>> \notin mixedKeys'
        PROVE  EntryRead(q)'
    <3>1. /\ main[q].pc = main'[q].pc /\ main'[q].sw = main[q].sw
          /\ main'[q].arg = main[q].arg /\ main'[q].boot = main[q].boot
          /\ main'[q].handle = main[q].handle
      BY <2>9 DEF EntryQuiet
    <3>2. /\ main[q].sw \in APs /\ main[q].arg \in Keys /\ Reached(q)
          /\ <<main[q].sw, main[q].arg>> \notin mixedKeys
      BY <1>0, <2>9, <3>1 DEF Reached, TypeInv, Shape
    <3>3. main[q].sw # s \/ main[q].arg # k
      BY <1>0, <2>1, <2>8, <2>9, <3>1, <3>2 DEF EntryInv, OneWriter, UpdatesEntry
    <3>4. table'[main[q].sw][main[q].arg] = table[main[q].sw][main[q].arg]
      BY <2>4, <3>2, <3>3
    <3>5. QED
      BY <2>9, <3>1, <3>2, <3>4 DEF EntryInv, EntryRead
  <2>10. QED
    BY <1>0, <2>6, <2>7, <2>9 DEF EntryInv, EntryStands, EntryRead
<1>3. QED
  BY <1>1, <1>2 DEF WriteEntry

LEMMA EntryInvNext == TypeInv /\ EntryInv /\ [Next]_vars => EntryInv'
<1> SUFFICES ASSUME TypeInv, EntryInv, [Next]_vars
             PROVE  EntryInv'
  OBVIOUS
<1>1. CASE \E p \in Programs : Find(p)
  BY <1>1, FindKeepsEntries
<1>2. CASE ~ \E p \in Programs : Find(p)
  <2>1. \A q \in Programs : EntryQuiet(q, main'[q])
    BY <1>2, NextQuiet DEF AllQuiet
  <2>2. CASE \E p \in Programs : WriteEntry(p)
    BY <2>1, <2>2, WriteKeepsEntries
  <2>3. ASSUME NEW a \in Managers, ResetState(a)
        PROVE  EntryInv'
    <3>1. /\ a \in APs /\ a \in Programs /\ main \in [Programs -> Calls]
          /\ UNCHANGED boot /\ Become(a, [main[a] EXCEPT !.pc = "mgrp"])
      BY <2>3 DEF ResetState, Managers, TypeInv, MainType
    <3>2. \A q \in Programs : main'[q] = main[q] \/ main'[q].pc = "mgrp"
      BY <3>1 DEF Become, Calls
    <3>3. CASE Clear(a)
      BY <3>1, <3>2, <3>3, ClearKeepsEntries
    <3>4. CASE UNCHANGED <<table, history>>
      BY <2>1, <3>1, <3>4, EntriesKept DEF history
    <3>5. QED
      BY <2>3, <3>3, <3>4 DEF ResetState
  <2>4. ASSUME NEW s \in APs, RestartSwitch(s)
        PROVE  EntryInv'
    <3>1. Clear(s) /\ UNCHANGED main /\ \A t \in APs : t # s => boot'[t] = boot[t]
      BY <2>4 DEF RestartSwitch, TypeInv, SwitchesType
    <3>2. QED
      BY <3>1, ClearKeepsEntries
  <2>5. CASE UNCHANGED <<table, boot, entries, mixedKeys>>
    BY <2>1, <2>5, EntriesKept
  <2>6. ASSUME NEW p \in Programs,
               \/ MCDump(p) \/ ParseDump(p) \/ MCUpdate(p) \/ LoopStep(p)
               \/ CallStarts(p) \/ HearAny(p) \/ Listen(p) \/ Disturb(p)
        PROVE  UNCHANGED <<table, boot, entries, mixedKeys>>
    BY <2>6 DEF MCDump, ParseDump, MCUpdate, LoopStep, CallStarts, StartPortCall,
                StartEntryCall, StartLoop, HearAny, Hear, Listen, Store, Disturb,
                OtherDatagram, ConnectFails, switches, history
  <2>7. ASSUME \/ \E a \in Managers : RestartManager(a) \/ CreateGroup(a)
               \/ \E p \in Programs \ APs : RestartCoordinator(p)
               \/ UNCHANGED vars
        PROVE  UNCHANGED <<table, boot, entries, mixedKeys>>
    BY <2>7 DEF RestartManager, CreateGroup, RestartCoordinator, vars, switches, history
  <2>8. QED
    BY <1>2, <2>2, <2>3, <2>4, <2>5, <2>6, <2>7 DEF Next, MainStep
<1>3. QED
  BY <1>1, <1>2

\* add_entry_to_bmv2 and delete_forwarding_entry_from_bmv2, of any number of
\* programs, with switches and managers restarting: unless calls overlap on an
\* entry, it is what the last command carried out made it.
THEOREM EntriesAlwaysStand == Spec => []EntriesStand
<1>1. EntryInv => EntriesStand
  BY DEF EntryInv, EntryStands, EntriesStand
<1>2. QED
  BY <1>1, InitEntryInv, EntryInvNext, TypeInvariant, PTL DEF Spec
===============================================================================

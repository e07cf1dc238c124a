-------------------------- MODULE NodeHeartbeatProofs --------------------------
(***************************************************************************)
(* Theorems about NodeHeartbeat for every number of processes and every    *)
(* chain length: the types, that a stop is final, and that a process sends *)
(* heartbeats of the chain whose public key the server holds.              *)
(***************************************************************************)
EXTENDS NodeHeartbeat, TLAPS

-------------------------------------------------------------------------------
(* The types, group by group, and who waits for what.                      *)

Senders ==
    [pc : {"off", "load", "generate", "register", "await", "beat"},
     chain : Keys \cup {0}, pub : Keys \cup {0}, next : 1 .. (ChainLength + 1),
     term : BOOLEAN, orphan : BOOLEAN]

\* Only the client of a node manager keeps a chain file and registers itself.
Sender(n) ==
    /\ n.pc \in {"generate", "register", "await"} => IsManager
    /\ n.pc = "generate" => n.chain \in Keys
    /\ n.pc = "await" => n.pub \in Keys

SendersType == proc \in [Procs -> Senders] /\ \A x \in Procs : Sender(proc[x])

DiskType == disk \in [chain : Keys \cup {0}, pub : Keys \cup {0}]

ControlType ==
    /\ launcher \in {"manager", "supervisor"}
    /\ lpc \in {"wait", "stopping", "deaf", "read", "await", "start", "down"}
    /\ hb \in Procs \cup {0}
    /\ target \in 0 .. 2 /\ goal \in 0 .. 2 /\ runningFor \in 0 .. 2
    /\ lpc \in {"wait", "stopping", "deaf"} => IsManager
    /\ lpc \in {"read", "await", "start"} => ~ IsManager
    /\ lpc \in {"await", "start"} => disk.pub \in Keys
    /\ overtaken \in BOOLEAN /\ mishaps \in Nat

NetworkType ==
    /\ tcp \in [pc : {"idle", "check"}, who : Procs \cup {0, Sup}]
    /\ late \subseteq Keys /\ sent \in [chain : Keys \cup {0}, index : 0 .. ChainLength]
    /\ tcp.pc = "idle" => tcp.who = 0
    /\ tcp.who \in Procs => proc[tcp.who].pc = "await"
    /\ tcp.who = Sup => lpc = "await"

TypeInv == RegistryType /\ SendersType /\ DiskType /\ ControlType /\ NetworkType

LEMMA TypeInvImplies == TypeInv => TypeOK
  BY DEF TypeInv, SendersType, DiskType, ControlType, NetworkType, Senders, TypeOK

LEMMA InitTypeInv == Init => TypeInv
<1> SUFFICES ASSUME Init
             PROVE  TypeInv
  OBVIOUS
<1>1. RegistryType
  BY RegistryConstants DEF Init, RegistryInit, RegistryType
<1>2. SendersType
  BY RegistryConstants DEF Init, SendersType, Senders, Sender, Off
<1>3. DiskType
  BY DEF Init, DiskType, NoFile
<1>4. ControlType
  <2>1. \/ lpc = "wait" /\ launcher = "manager"
        \/ lpc = "read" /\ launcher = "supervisor"
    BY DEF Init, Start
  <2>2. /\ hb = 0 /\ target = 0 /\ goal = 0 /\ runningFor = 0 /\ overtaken = FALSE
        /\ mishaps = 0
    BY DEF Init
  <2>3. 0 \in 0 .. 2 /\ 0 \in Nat
    OBVIOUS
  <2>4. QED
    BY <2>1, <2>2, <2>3 DEF ControlType, IsManager
<1>5. NetworkType
  BY RegistryConstants, NodeConstants DEF Init, NetworkType, NoHandler, Nothing
<1>6. QED
  BY <1>1, <1>2, <1>3, <1>4, <1>5 DEF TypeInv

Loading == [Off EXCEPT !.pc = "load"]

LEMMA OffType ==
    ASSUME TypeInv
    PROVE  /\ Off \in Senders /\ Off.pc = "off" /\ Off.next = 1 /\ Sender(Off)
           /\ Loading \in Senders /\ Loading.pc = "load" /\ Loading.next = 1
           /\ ~ Loading.orphan /\ Sender(Loading)
<1>1. 1 \in 1 .. (ChainLength + 1)
  BY RegistryConstants
<1>2. Off \in Senders /\ Off.pc = "off" /\ Off.next = 1 /\ ~ Off.orphan
  BY <1>1 DEF Off, Senders
<1>3. /\ Loading \in Senders /\ Loading.pc = "load" /\ Loading.next = 1
      /\ ~ Loading.orphan
  BY <1>2 DEF Loading, Senders
<1>4. QED
  BY <1>2, <1>3 DEF Sender

\* One process goes to another state.
LEMMA OneSender ==
    ASSUME TypeInv, NEW x \in Procs, NEW n \in Senders, Sender(n), Become(x, n),
           UNCHANGED launcher
    PROVE  /\ SendersType' /\ proc'[x] = n
           /\ \A y \in Procs : y # x => proc'[y] = proc[y]
<1>1. /\ proc' \in [Procs -> Senders] /\ proc'[x] = n
      /\ \A y \in Procs : y # x => proc'[y] = proc[y]
  BY DEF Become, TypeInv, SendersType
<1>2. Sender(n)'
  BY DEF Sender, IsManager
<1>3. ASSUME NEW y \in Procs
      PROVE  Sender(proc[y])'
  BY <1>1, <1>2 DEF TypeInv, SendersType, Sender, IsManager
<1>4. QED
  BY <1>1, <1>3 DEF SendersType

LEMMA SendersKept ==
    TypeInv /\ UNCHANGED <<launcher, proc>> => SendersType'
  BY DEF TypeInv, SendersType, Sender, IsManager

LEMMA RegistryKept ==
    TypeInv /\ UNCHANGED registry => RegistryType'
  BY DEF TypeInv, RegistryType, registry, entry

LEMMA NetworkKept ==
    ASSUME TypeInv, UNCHANGED <<network, lpc>>,
           \A x \in Procs : proc[x].pc = "await" => proc'[x].pc = "await"
    PROVE  NetworkType'
  BY DEF TypeInv, NetworkType, network

LEMMA ControlKept ==
    ASSUME TypeInv, UNCHANGED <<control, disk, overtaken>>, mishaps' \in Nat
    PROVE  ControlType'
  BY DEF TypeInv, ControlType, control, IsManager

-------------------------------------------------------------------------------
(* The sender processes.                                                   *)

\* A new chain is a key.
LEMMA FreshIsKey == \A g : Fresh(g) => g \in Keys
  BY DEF Fresh, Free

LEMMA SenderType ==
    ASSUME TypeInv, NEW x \in Procs, ProcStep(x) \/ SendFails(x)
    PROVE  TypeInv'
<1>0. /\ proc[x] \in Senders /\ Sender(proc[x]) /\ disk.pub \in Keys \cup {0}
      /\ disk.chain \in Keys \cup {0} /\ 0 \notin Keys
  BY NodeConstants DEF TypeInv, SendersType, DiskType
<1>1. /\ UNCHANGED <<registry, control, tcp, late, overtaken>> /\ mishaps' \in Nat
      /\ UNCHANGED launcher /\ UNCHANGED lpc
  <2>1. /\ UNCHANGED <<registry, control, tcp, late, overtaken>>
        /\ mishaps' = mishaps \/ mishaps' = mishaps + 1
    BY DEF ProcStep, Load, WritePublicKey, SendKey, SendHeartbeat, EndOfLoop, SendFails,
           network
  <2>2. mishaps \in Nat
    BY DEF TypeInv, ControlType
  <2>3. QED
    BY <2>1, <2>2 DEF control
<1>2. RegistryType'
  BY <1>1, RegistryKept
<1>3. ASSUME NEW n \in Senders, Sender(n), Become(x, n), proc[x].pc # "await",
             UNCHANGED <<sent, disk>>
      PROVE  TypeInv'
  <2>1. /\ SendersType' /\ \A y \in Procs : proc[y].pc = "await" => proc'[y].pc = "await"
    BY <1>1, <1>3, OneSender
  <2>2. NetworkType'
    BY <1>1, <1>3, <2>1, NetworkKept DEF network
  <2>3. ControlType' /\ DiskType'
    BY <1>1, <1>3, ControlKept DEF TypeInv, DiskType
  <2>4. QED
    BY <1>2, <2>1, <2>2, <2>3 DEF TypeInv
<1>4. CASE Load(x)
  <2>1. proc[x].pc = "load" /\ UNCHANGED network
    BY <1>4 DEF Load
  <2>2. CASE disk.chain # 0
    <3> DEFINE pc == IF IsManager THEN "register" ELSE "beat"
               n == [proc[x] EXCEPT !.chain = disk.chain, !.pc = pc]
    <3>1. Become(x, n) /\ UNCHANGED disk
      BY <1>4, <2>2 DEF Load
    <3>2. n \in Senders /\ n.pc = pc
      BY <1>0 DEF Senders
    <3> HIDE DEF n
    <3>3. Sender(n)
      BY <3>2 DEF Sender
    <3>4. QED
      BY <1>3, <2>1, <3>1, <3>2, <3>3 DEF network
  <2>3. CASE disk.chain = 0
    <3>1. PICK g \in Keys :
              /\ disk' = [chain |-> g, pub |-> IF IsManager THEN disk.pub ELSE g]
              /\ Become(x, [proc[x] EXCEPT !.chain = g,
                                !.pc = IF IsManager THEN "generate" ELSE "beat"])
      BY <1>4, <2>3 DEF Load
    <3> DEFINE pc == IF IsManager THEN "generate" ELSE "beat"
               n == [proc[x] EXCEPT !.chain = g, !.pc = pc]
    <3>2. n \in Senders /\ n.pc = pc /\ n.chain = g
      BY <1>0 DEF Senders
    <3>3. Become(x, n)
      BY <3>1
    <3> HIDE DEF n
    <3>4. Sender(n)
      BY <3>2 DEF Sender
    <3>5. /\ SendersType' /\ \A y \in Procs : proc[y].pc = "await" => proc'[y].pc = "await"
      BY <1>1, <2>1, <3>2, <3>3, <3>4, OneSender
    <3>6. NetworkType'
      BY <1>1, <2>1, <3>5, NetworkKept
    <3>7. DiskType' /\ (~ IsManager => disk'.pub \in Keys)
      BY <1>0, <3>1 DEF DiskType
    <3>8. ControlType'
      BY <1>1, <3>7 DEF TypeInv, ControlType, control, IsManager
    <3>9. QED
      BY <1>2, <3>5, <3>6, <3>7, <3>8 DEF TypeInv
  <2>4. QED
    BY <2>2, <2>3
<1>5. CASE WritePublicKey(x)
  <2> DEFINE n == [proc[x] EXCEPT !.pc = "register"]
  <2>1. /\ proc[x].pc = "generate" /\ UNCHANGED network /\ Become(x, n)
        /\ disk' = [disk EXCEPT !.pub = proc[x].chain]
    BY <1>5 DEF WritePublicKey
  <2>2. proc[x].chain \in Keys /\ IsManager
    BY <1>0, <2>1 DEF Sender
  <2>3. n \in Senders /\ n.pc = "register"
    BY <1>0 DEF Senders
  <2> HIDE DEF n
  <2>4. Sender(n)
    BY <2>2, <2>3 DEF Sender
  <2>5. /\ SendersType' /\ \A y \in Procs : proc[y].pc = "await" => proc'[y].pc = "await"
    BY <1>1, <2>1, <2>3, <2>4, OneSender
  <2>6. NetworkType'
    BY <1>1, <2>1, <2>5, NetworkKept
  <2>7. DiskType' /\ disk'.pub \in Keys
    BY <2>1, <2>2 DEF TypeInv, DiskType
  <2>8. ControlType'
    BY <1>1, <2>7 DEF TypeInv, ControlType, control, IsManager
  <2>9. QED
    BY <1>2, <2>5, <2>6, <2>7, <2>8 DEF TypeInv
<1>6. CASE SendKey(x)
  <2>1. /\ proc[x].pc = "register" /\ UNCHANGED <<sent, disk>> /\ IsManager
    BY <1>0, <1>6 DEF SendKey, network, Sender
  <2>2. CASE disk.pub = 0
    BY <1>3, <1>6, <2>1, <2>2, OffType DEF SendKey
  <2>3. CASE disk.pub # 0
    <3> DEFINE n == [proc[x] EXCEPT !.pc = "await", !.pub = disk.pub]
    <3>1. n \in Senders /\ n.pc = "await" /\ n.pub = disk.pub
      BY <1>0 DEF Senders
    <3>2. Become(x, n)
      BY <1>6, <2>3 DEF SendKey
    <3> HIDE DEF n
    <3>3. Sender(n)
      BY <1>0, <2>1, <2>3, <3>1 DEF Sender
    <3>4. QED
      BY <1>3, <2>1, <3>1, <3>2, <3>3
  <2>4. QED
    BY <2>2, <2>3
<1>7. CASE SendHeartbeat(x)
  <2> DEFINE n == [proc[x] EXCEPT !.next = proc[x].next + 1]
  <2>1. /\ proc[x].pc = "beat" /\ proc[x].next <= ChainLength /\ Become(x, n)
        /\ sent' = [chain |-> proc[x].chain, index |-> proc[x].next]
        /\ UNCHANGED <<disk, tcp, late>>
    BY <1>7 DEF SendHeartbeat, GoesOn
  <2>2. proc[x].next \in 1 .. ChainLength /\ proc[x].next + 1 \in 1 .. (ChainLength + 1)
    BY <1>0, <2>1, RegistryConstants DEF Senders
  <2>3. n \in Senders /\ n.pc = "beat"
    BY <1>0, <2>1, <2>2 DEF Senders
  <2> HIDE DEF n
  <2>4. Sender(n)
    BY <2>3 DEF Sender
  <2>5. /\ SendersType' /\ \A y \in Procs : proc[y].pc = "await" => proc'[y].pc = "await"
    BY <1>1, <2>1, <2>3, <2>4, OneSender
  <2>6. sent' \in [chain : Keys \cup {0}, index : 0 .. ChainLength]
    BY <1>0, <2>1, <2>2, RegistryConstants DEF Senders
  <2>7. NetworkType'
    BY <1>1, <2>1, <2>5, <2>6 DEF TypeInv, NetworkType
  <2>8. ControlType' /\ DiskType'
    BY <1>1, <2>1, ControlKept DEF TypeInv, DiskType
  <2>9. QED
    BY <1>2, <2>5, <2>7, <2>8 DEF TypeInv
<1>8. CASE EndOfLoop(x) \/ SendFails(x)
  BY <1>3, <1>8, OffType DEF EndOfLoop, SendFails, network
<1>9. QED
  BY <1>4, <1>5, <1>6, <1>7, <1>8 DEF ProcStep

-------------------------------------------------------------------------------
(* Registrations and the server.                                           *)

LEMMA RegistrySteps ==
    ASSUME TypeInv,
           \/ \E k \in Keys : StoreKey(k)
           \/ Reset /\ heard' = "fresh"
           \/ Accept(sent.chain, sent.index) /\ heard' = "fresh"
           \/ DeclareDead /\ heard' = "fresh"
           \/ Age
    PROVE  RegistryType'
<1>1. RegistryType /\ sent.index \in 0 .. ChainLength
  BY DEF TypeInv, NetworkType
<1>2. CASE \E k \in Keys : StoreKey(k)
  BY <1>1, <1>2 DEF StoreKey, RegistryType
<1>3. CASE Reset /\ heard' = "fresh"
  BY <1>1, <1>3, RegistryConstants DEF Reset, Stored, RegistryType
<1>4. CASE Accept(sent.chain, sent.index) /\ heard' = "fresh"
  BY <1>1, <1>4 DEF Accept, Stored, RegistryType
<1>5. CASE DeclareDead /\ heard' = "fresh"
  BY <1>1, <1>5 DEF DeclareDead, Stored, RegistryType
<1>6. CASE Age
  BY <1>1, <1>6 DEF Age, RegistryType
<1>7. QED
  BY <1>2, <1>3, <1>4, <1>5, <1>6

\* Whoever awaits an answer offers a key.
LEMMA OfferIsKey ==
    ASSUME TypeInv, NEW w \in Registrants, Awaits(w)
    PROVE  /\ Offer(w) \in Keys
           /\ \/ w = Sup /\ w \notin Procs /\ lpc = "await" /\ ~ IsManager
              \/ w \in Procs /\ w # Sup /\ proc[w].pc = "await" /\ IsManager
<1>1. CASE IsManager
  <2>1. w \in Procs /\ w # Sup
    BY <1>1, NodeConstants DEF Registrants
  <2>2. proc[w].pc = "await" /\ proc[w].pub \in Keys
    BY <2>1 DEF Awaits, TypeInv, SendersType, Sender
  <2>3. QED
    BY <1>1, <2>1, <2>2 DEF Offer
<1>2. CASE ~ IsManager
  <2>1. w = Sup /\ w \notin Procs /\ lpc = "await"
    BY <1>2, NodeConstants DEF Registrants, Awaits
  <2>2. QED
    BY <1>2, <2>1 DEF Offer, TypeInv, ControlType
<1>3. QED
  BY <1>1, <1>2

LEMMA ServerType ==
    ASSUME TypeInv,
           \/ \E w \in Registrants : HandleKey(w)
           \/ \E k \in late : HandleLate(k)
           \/ Deliver \/ TimePasses \/ MonitorNotices
    PROVE  TypeInv'
<1>1. /\ UNCHANGED <<control, disk, proc, mishaps, sent>> /\ UNCHANGED <<launcher, lpc>>
      /\ overtaken' \in BOOLEAN
  BY DEF HandleKey, HandleLate, Deliver, TimePasses, MonitorNotices, control, network,
         TypeInv, ControlType
<1>2. SendersType' /\ DiskType'
  BY <1>1, SendersKept DEF TypeInv, DiskType
<1>3. ControlType'
  BY <1>1 DEF TypeInv, ControlType, control, IsManager
<1>4. ASSUME NEW w \in Registrants, HandleKey(w)
      PROVE  RegistryType' /\ NetworkType'
  <2>1. RegistryType'
    BY <1>4, OfferIsKey, RegistrySteps DEF HandleKey
  <2>2. tcp' = [pc |-> "check", who |-> w] /\ UNCHANGED late /\ w \in Procs \cup {Sup}
    BY <1>4 DEF HandleKey, Registrants
  <2>3. NetworkType'
    BY <1>1, <1>4, <2>2, OfferIsKey DEF HandleKey, TypeInv, NetworkType
  <2>4. QED
    BY <2>1, <2>3
<1>5. ASSUME NEW k \in late, HandleLate(k)
      PROVE  RegistryType' /\ NetworkType'
  <2>1. k \in Keys
    BY DEF TypeInv, NetworkType
  <2>2. RegistryType'
    BY <1>5, <2>1, RegistrySteps DEF HandleLate
  <2>3. tcp' = [pc |-> "check", who |-> 0] /\ late' \subseteq late
    BY <1>5 DEF HandleLate
  <2>4. NetworkType'
    BY <1>1, <2>3, NodeConstants DEF TypeInv, NetworkType
  <2>5. QED
    BY <2>2, <2>4
<1>6. ASSUME Deliver \/ TimePasses \/ MonitorNotices
      PROVE  RegistryType' /\ NetworkType'
  BY <1>1, <1>6, RegistrySteps, NetworkKept DEF Deliver, TimePasses, MonitorNotices
<1>7. QED
  BY <1>2, <1>3, <1>4, <1>5, <1>6 DEF TypeInv

\* An answer to the one who awaits it.
LEMMA AnswerType ==
    ASSUME TypeInv, NEW w \in Procs \cup {Sup}, NEW acked \in BOOLEAN, Answer(w, acked),
           w \in Procs => proc[w].pc = "await", w = Sup => lpc = "await",
           UNCHANGED <<disk, overtaken>>, mishaps' \in Nat
    PROVE  /\ SendersType' /\ ControlType' /\ DiskType' /\ UNCHANGED launcher
           /\ w \in Procs => /\ UNCHANGED lpc
                             /\ \A x \in Procs : x # w => proc'[x] = proc[x]
           /\ w = Sup => UNCHANGED proc
<1>1. CASE w = Sup
  <2>1. /\ lpc' = (IF acked THEN "start" ELSE "read") /\ goal' \in {0, goal}
        /\ UNCHANGED <<launcher, hb, target, runningFor, proc>>
    BY <1>1 DEF Answer
  <2>2. w \notin Procs
    BY <1>1, NodeConstants
  <2>3. SendersType' /\ DiskType'
    BY <2>1, SendersKept DEF TypeInv, DiskType
  <2>4. ControlType'
    <3>1. ~ IsManager /\ disk.pub \in Keys /\ goal' \in 0 .. 2
      BY <1>1, <2>1 DEF TypeInv, ControlType
    <3>2. QED
      BY <2>1, <3>1 DEF TypeInv, ControlType, IsManager
  <2>5. QED
    BY <2>1, <2>2, <2>3, <2>4
<1>2. CASE w # Sup
  <2>0. w \in Procs /\ proc[w] \in Senders /\ UNCHANGED control /\ UNCHANGED <<launcher, lpc>>
    BY <1>2 DEF Answer, TypeInv, SendersType, control
  <2> DEFINE n == [proc[w] EXCEPT !.pc = "beat", !.pub = 0]
  <2>1. n \in Senders /\ n.pc = "beat"
    BY <2>0 DEF Senders
  <2>2. Become(w, n) \/ Become(w, Off)
    BY <1>2 DEF Answer
  <2> HIDE DEF n
  <2>3. Sender(n)
    BY <2>1 DEF Sender
  <2>4. SendersType' /\ \A x \in Procs : x # w => proc'[x] = proc[x]
    BY <2>0, <2>1, <2>2, <2>3, OffType, OneSender
  <2>5. ControlType' /\ DiskType'
    BY <2>0, ControlKept DEF TypeInv, DiskType
  <2>6. QED
    BY <1>2, <2>0, <2>4, <2>5
<1>3. QED
  BY <1>1, <1>2

LEMMA AnswersType ==
    ASSUME TypeInv, CheckStatus \/ \E w \in Registrants : GiveUp(w)
    PROVE  TypeInv'
<1>1. CASE CheckStatus
  <2>1. RegistryType'
    BY <1>1, RegistrySteps, RegistryKept DEF CheckStatus
  <2>2. /\ UNCHANGED <<disk, late, sent, overtaken, mishaps>> /\ tcp' = NoHandler
        /\ tcp.who \in Procs \cup {0, Sup} /\ mishaps \in Nat
    BY <1>1 DEF CheckStatus, TypeInv, NetworkType, ControlType
  <2>3. NetworkType'
    BY <2>2, NodeConstants DEF TypeInv, NetworkType, NoHandler
  <2>4. CASE tcp.who = 0
    <3>1. UNCHANGED <<control, proc>> /\ UNCHANGED launcher
      BY <1>1, <2>4 DEF CheckStatus, control
    <3>2. SendersType' /\ ControlType' /\ DiskType'
      BY <2>2, <3>1, SendersKept, ControlKept DEF TypeInv, DiskType
    <3>3. QED
      BY <2>1, <2>3, <3>2 DEF TypeInv
  <2>5. CASE tcp.who # 0
    <3>1. /\ tcp.who \in Procs \cup {Sup} /\ Answer(tcp.who, TRUE)
          /\ tcp.who \in Procs => proc[tcp.who].pc = "await"
          /\ tcp.who = Sup => lpc = "await"
      BY <1>1, <2>2, <2>5 DEF CheckStatus, TypeInv, NetworkType
    <3>2. PICK w \in Procs \cup {Sup} : w = tcp.who
      BY <3>1
    <3>3. SendersType' /\ ControlType' /\ DiskType'
      BY <2>2, <3>1, <3>2, AnswerType
    <3>4. QED
      BY <2>1, <2>3, <3>3 DEF TypeInv
  <2>6. QED
    BY <2>4, <2>5
<1>2. ASSUME NEW w \in Registrants, GiveUp(w)
      PROVE  TypeInv'
  <2>1. /\ Awaits(w) /\ Answer(w, FALSE) /\ UNCHANGED <<registry, disk, sent, overtaken>>
        /\ late' \subseteq late \cup {Offer(w)}
        /\ mishaps' = mishaps \/ mishaps' = mishaps + 1
        /\ \/ tcp.who = w /\ tcp' = [tcp EXCEPT !.who = 0]
           \/ tcp.who # w /\ UNCHANGED tcp
    BY <1>2 DEF GiveUp
  <2>2. mishaps' \in Nat /\ RegistryType'
    BY <2>1, RegistryKept DEF TypeInv, ControlType
  <2>3. /\ Offer(w) \in Keys
        /\ \/ w = Sup /\ w \notin Procs /\ lpc = "await"
           \/ w \in Procs /\ w # Sup /\ proc[w].pc = "await"
    BY <2>1, OfferIsKey
  <2>4. /\ SendersType' /\ ControlType' /\ DiskType'
        /\ w \in Procs => /\ UNCHANGED lpc
                          /\ \A x \in Procs : x # w => proc'[x] = proc[x]
        /\ w = Sup => UNCHANGED proc
    BY <2>1, <2>2, <2>3, AnswerType
  <2>5. tcp' \in [pc : {"idle", "check"}, who : Procs \cup {0, Sup}]
    BY <2>1 DEF TypeInv, NetworkType
  <2>6. tcp'.who \in {0, tcp.who} /\ tcp'.who # w /\ tcp'.pc = tcp.pc
    BY <2>1, <2>3, NodeConstants DEF TypeInv, NetworkType
  <2>7. NetworkType'
    BY <2>1, <2>3, <2>4, <2>5, <2>6, NodeConstants DEF TypeInv, NetworkType
  <2>8. QED
    BY <2>2, <2>4, <2>7 DEF TypeInv
<1>3. QED
  BY <1>1, <1>2

-------------------------------------------------------------------------------
(* The launcher.                                                           *)

LEMMA NewProcessType ==
    ASSUME TypeInv, NEW x \in Procs, NewProcess(x), UNCHANGED launcher
    PROVE  /\ SendersType' /\ hb' = x /\ proc[x] = Off /\ proc'[x] = Loading
           /\ \A y \in Procs : y # x => proc'[y] = proc[y]
           /\ \A y \in Procs : proc[y].pc = "await" => proc'[y].pc = "await"
<1>1. Become(x, Loading) /\ proc[x] = Off /\ hb' = x
  BY DEF NewProcess, Loading
<1>2. QED
  BY <1>1, OffType, OneSender

LEMMA ManagerType ==
    ASSUME TypeInv, SetConfigOn \/ StopService \/ StopReturns \/ GoesDeaf
    PROVE  TypeInv'
<1>0. /\ IsManager /\ UNCHANGED <<registry, launcher, target, goal, runningFor, disk,
                                  network, overtaken>>
      /\ lpc \in {"wait", "stopping"} /\ mishaps' \in Nat
      /\ lpc' \in {"wait", "stopping", "deaf"}
  <2>1. mishaps \in Nat
    BY DEF TypeInv, ControlType
  <2>2. QED
    BY <2>1 DEF SetConfigOn, StopService, StopReturns, GoesDeaf
<1>1. RegistryType' /\ DiskType'
  BY <1>0, RegistryKept DEF TypeInv, DiskType
<1>2. ASSUME SendersType', hb' \in Procs \cup {0},
             \A y \in Procs : proc[y].pc = "await" => proc'[y].pc = "await"
      PROVE  TypeInv'
  <2>1. ControlType'
    BY <1>0, <1>2 DEF TypeInv, ControlType, IsManager
  <2>2. NetworkType'
    BY <1>0, <1>2 DEF TypeInv, NetworkType, network
  <2>3. QED
    BY <1>1, <1>2, <2>1, <2>2 DEF TypeInv
<1>3. CASE SetConfigOn
  <2>1. PICK x \in Procs : NewProcess(x)
    BY <1>3 DEF SetConfigOn
  <2>2. QED
    BY <1>0, <1>2, <2>1, NewProcessType
<1>4. CASE StopService
  <2>1. hb \in Procs /\ UNCHANGED hb /\ proc[hb] \in Senders /\ Sender(proc[hb])
    BY <1>4 DEF StopService, Runs, TypeInv, ControlType, SendersType
  <2>2. PICK x \in Procs : x = hb
    BY <2>1
  <2> DEFINE n == [proc[x] EXCEPT !.term = TRUE]
  <2>3. /\ n \in Senders /\ n.pc = proc[x].pc /\ n.chain = proc[x].chain
        /\ n.pub = proc[x].pub
    BY <2>1, <2>2 DEF Senders
  <2>4. Become(x, n) \/ (proc[x].pc = "load" /\ Become(x, Off))
    BY <1>4, <2>2 DEF StopService
  <2> HIDE DEF n
  <2>5. Sender(n)
    BY <2>1, <2>2, <2>3 DEF Sender
  <2>6. /\ SendersType'
        /\ \A y \in Procs : proc[y].pc = "await" => proc'[y].pc = "await"
    BY <1>0, <2>3, <2>4, <2>5, OffType, OneSender
  <2>7. QED
    BY <1>2, <2>1, <2>6
<1>5. CASE StopReturns \/ GoesDeaf
  <2>1. UNCHANGED proc /\ hb' \in {0, hb}
    BY <1>5 DEF StopReturns, GoesDeaf
  <2>2. QED
    BY <1>0, <1>2, <2>1, SendersKept DEF TypeInv, ControlType
<1>6. QED
  BY <1>3, <1>4, <1>5

\* The child of the supervisor is killed, or there is none.
LEMMA KilledType ==
    ASSUME TypeInv, proc' = Killed \/ UNCHANGED proc, UNCHANGED launcher
    PROVE  /\ SendersType'
           /\ \A x \in Procs : proc'[x] = proc[x] \/ proc'[x] = Off
           /\ proc' = Killed /\ hb # 0 => proc'[hb] = Off
           /\ \A x \in Procs : x # hb => proc'[x] = proc[x]
<1>1. CASE UNCHANGED proc
  <2>1. proc' = Killed /\ hb # 0 => proc'[hb] = Off
    BY DEF Killed, TypeInv, ControlType, SendersType
  <2>2. QED
    BY <1>1, <2>1, SendersKept
<1>2. CASE proc' = Killed /\ hb # 0
  <2>1. PICK x \in Procs : x = hb
    BY <1>2 DEF TypeInv, ControlType
  <2>2. Become(x, Off)
    BY <1>2, <2>1 DEF Killed, Become
  <2>3. QED
    BY <2>1, <2>2, OffType, OneSender
<1>3. QED
  BY <1>1, <1>2 DEF Killed

LEMMA SupervisorType ==
    ASSUME TypeInv, NEW t \in 0 .. 2,
           WriteState(t) \/ Leave \/ Prepare \/ StartChild
    PROVE  TypeInv'
<1>0. /\ ~ IsManager /\ UNCHANGED <<registry, launcher, network, overtaken, mishaps>>
      /\ 0 \in 0 .. 2
  BY DEF WriteState, Leave, Prepare, StartChild
<1>1. RegistryType'
  BY <1>0, RegistryKept
<1>2. \A x \in Procs : proc[x].pc # "await"
  BY <1>0 DEF TypeInv, SendersType, Sender
<1>3. ASSUME tcp.who = Sup => lpc' = "await"
      PROVE  NetworkType'
  BY <1>0, <1>2, <1>3 DEF TypeInv, NetworkType, network
<1>4. CASE WriteState(t)
  <2>1. target' = t /\ UNCHANGED <<lpc, hb, goal, runningFor, disk, proc>>
    BY <1>4 DEF WriteState
  <2>2. SendersType' /\ DiskType' /\ NetworkType'
    BY <1>0, <1>3, <2>1, SendersKept DEF TypeInv, DiskType, NetworkType
  <2>3. ControlType'
    BY <1>0, <2>1 DEF TypeInv, ControlType, IsManager
  <2>4. QED
    BY <1>1, <2>2, <2>3 DEF TypeInv
<1>5. CASE Leave
  <2>1. /\ lpc = "read" /\ UNCHANGED <<lpc, target, goal>> /\ proc' = Killed
        /\ hb' = 0 /\ runningFor' = 0 /\ disk' = NoFile
    BY <1>5 DEF Leave
  <2>2. SendersType' /\ DiskType' /\ NetworkType'
    BY <1>0, <1>3, <2>1, KilledType DEF TypeInv, DiskType, NoFile, NetworkType
  <2>3. ControlType'
    BY <1>0, <2>1 DEF TypeInv, ControlType, IsManager
  <2>4. QED
    BY <1>1, <2>2, <2>3 DEF TypeInv
<1>6. CASE Prepare
  <2>1. /\ lpc = "read" /\ lpc' = "await" /\ goal' = target /\ UNCHANGED target
        /\ proc' = Killed \/ UNCHANGED proc
        /\ hb' \in {0, hb} /\ runningFor' \in {0, runningFor}
    BY <1>6 DEF Prepare
  <2>2. PICK g \in Keys : disk' = [chain |-> g, pub |-> g]
    BY <1>6, FreshIsKey DEF Prepare
  <2>3. SendersType' /\ NetworkType'
    BY <1>0, <1>3, <2>1, KilledType
  <2>4. DiskType' /\ disk'.pub \in Keys
    BY <2>2 DEF DiskType
  <2>5. ControlType'
    BY <1>0, <2>1, <2>4 DEF TypeInv, ControlType, IsManager
  <2>6. QED
    BY <1>1, <2>3, <2>4, <2>5 DEF TypeInv
<1>7. CASE StartChild
  <2>1. /\ lpc = "start" /\ lpc' = "read" /\ goal' = 0 /\ runningFor' = goal
        /\ UNCHANGED <<target, disk>>
    BY <1>7 DEF StartChild
  <2>2. PICK x \in Procs : NewProcess(x)
    BY <1>7 DEF StartChild
  <2>3. SendersType' /\ hb' \in Procs \cup {0}
    BY <1>0, <2>2, NewProcessType
  <2>4. NetworkType'
    BY <1>3, <2>1 DEF TypeInv, NetworkType
  <2>5. ControlType' /\ DiskType'
    BY <1>0, <2>1, <2>3 DEF TypeInv, ControlType, DiskType, IsManager
  <2>6. QED
    BY <1>1, <2>3, <2>4, <2>5 DEF TypeInv
<1>8. QED
  BY <1>4, <1>5, <1>6, <1>7

LEMMA CrashType ==
    ASSUME TypeInv, Crash \/ Restart
    PROVE  TypeInv'
<1>1. CASE Crash
  <2>1. /\ lpc' = "down" /\ hb' = 0 /\ goal' = 0 /\ runningFor' = 0
        /\ overtaken' = TRUE /\ mishaps' = mishaps + 1
        /\ UNCHANGED <<registry, launcher, target, disk, late, sent>>
        /\ 0 \in 0 .. 2
    BY <1>1 DEF Crash
  <2>2. RegistryType' /\ DiskType'
    BY <2>1, RegistryKept DEF TypeInv, DiskType
  <2>3. ControlType'
    <3>1. mishaps' \in Nat /\ launcher' = launcher
      BY <2>1 DEF TypeInv, ControlType
    <3>2. QED
      BY <2>1, <3>1 DEF TypeInv, ControlType
  <2>4. CASE /\ proc' = [x \in Procs |-> IF proc[x] = Off THEN Off
                                         ELSE [proc[x] EXCEPT !.orphan = TRUE]]
             /\ tcp' = IF tcp.who = Sup THEN [tcp EXCEPT !.who = 0] ELSE tcp
    <3>1. ASSUME NEW x \in Procs
          PROVE  proc'[x] \in Senders /\ Sender(proc'[x]) /\ proc'[x].pc = proc[x].pc
      <4>1. proc[x] \in Senders /\ Sender(proc[x])
        BY DEF TypeInv, SendersType
      <4> DEFINE n == [proc[x] EXCEPT !.orphan = TRUE]
      <4>2. /\ n \in Senders /\ n.pc = proc[x].pc /\ n.chain = proc[x].chain
            /\ n.pub = proc[x].pub
        BY <4>1 DEF Senders
      <4>3. proc'[x] = proc[x] \/ proc'[x] = n
        BY <2>4
      <4> HIDE DEF n
      <4>4. Sender(n)
        BY <4>1, <4>2 DEF Sender
      <4>5. QED
        BY <4>1, <4>2, <4>3, <4>4
    <3>2. SendersType'
      <4>1. proc' \in [Procs -> Senders]
        BY <2>4, <3>1
      <4>2. QED
        BY <2>1, <3>1, <4>1 DEF SendersType, Sender, IsManager
    <3>3. NetworkType'
      <4>1. /\ tcp' \in [pc : {"idle", "check"}, who : Procs \cup {0, Sup}]
            /\ tcp'.pc = tcp.pc /\ tcp'.who \in {0, tcp.who} /\ tcp'.who # Sup
        BY <2>4, NodeConstants DEF TypeInv, NetworkType
      <4>2. QED
        BY <2>1, <3>1, <4>1, NodeConstants DEF TypeInv, NetworkType
    <3>4. QED
      BY <2>2, <2>3, <3>2, <3>3 DEF TypeInv
  <2>5. CASE proc' = [x \in Procs |-> Off] /\ tcp' = [tcp EXCEPT !.who = 0]
    <3>1. SendersType'
      BY <2>5, OffType DEF SendersType, Sender
    <3>2. NetworkType'
      BY <2>1, <2>5, NodeConstants DEF TypeInv, NetworkType
    <3>3. QED
      BY <2>2, <2>3, <3>1, <3>2 DEF TypeInv
  <2>6. QED
    BY <1>1, <2>4, <2>5 DEF Crash
<1>2. CASE Restart
  <2>1. /\ lpc = "down" /\ lpc' = Start[launcher]
        /\ UNCHANGED <<registry, launcher, hb, target, goal, runningFor, disk, proc,
                       network, overtaken, mishaps>>
    BY <1>2 DEF Restart
  <2>2. \/ launcher = "manager" /\ lpc' = "wait"
        \/ launcher = "supervisor" /\ lpc' = "read"
    BY <2>1 DEF Start, TypeInv, ControlType
  <2>3. RegistryType' /\ SendersType' /\ DiskType'
    BY <2>1, RegistryKept, SendersKept DEF TypeInv, DiskType
  <2>4. ControlType'
    BY <2>1, <2>2 DEF TypeInv, ControlType, IsManager
  <2>5. NetworkType'
    BY <2>1 DEF TypeInv, NetworkType, network
  <2>6. QED
    BY <2>3, <2>4, <2>5 DEF TypeInv
<1>3. QED
  BY <1>1, <1>2

LEMMA TypeInvNext == TypeInv /\ [Next]_vars => TypeInv'
<1> SUFFICES ASSUME TypeInv, [Next]_vars
             PROVE  TypeInv'
  OBVIOUS
<1>1. CASE UNCHANGED vars
  <2>1. /\ UNCHANGED <<registry, control, disk, proc, network, overtaken, mishaps>>
        /\ UNCHANGED <<launcher, lpc>>
    BY <1>1 DEF vars, control
  <2>2. mishaps' \in Nat
    BY <2>1 DEF TypeInv, ControlType
  <2>3. RegistryType' /\ SendersType' /\ DiskType' /\ ControlType' /\ NetworkType'
    BY <2>1, <2>2, RegistryKept, SendersKept, ControlKept, NetworkKept
    DEF TypeInv, DiskType
  <2>4. QED
    BY <2>3 DEF TypeInv
<1>2. CASE \E x \in Procs : ProcStep(x) \/ SendFails(x)
  BY <1>2, SenderType
<1>3. CASE \/ \E w \in Registrants : HandleKey(w)
           \/ \E k \in late : HandleLate(k)
           \/ Deliver \/ TimePasses \/ MonitorNotices
  BY <1>3, ServerType
<1>4. CASE CheckStatus \/ \E w \in Registrants : GiveUp(w)
  BY <1>4, AnswersType
<1>5. CASE SetConfigOn \/ StopService \/ StopReturns \/ GoesDeaf
  BY <1>5, ManagerType
<1>6. 0 \in 0 .. 2
  OBVIOUS
<1>7. CASE Leave \/ Prepare \/ StartChild \/ \E t \in 0 .. 2 : WriteState(t)
  BY <1>6, <1>7, SupervisorType
<1>8. CASE Crash \/ Restart
  BY <1>8, CrashType
<1>9. QED
  BY <1>1, <1>2, <1>3, <1>4, <1>5, <1>7, <1>8 DEF Next, LaunchStep, Commands

LEMMA TypeInvariant == Spec => []TypeInv
  BY InitTypeInv, TypeInvNext, PTL DEF Spec

\* The node manager, the supervisor, their processes and the server keep their
\* types through crashes and late registrations; whoever registers has a key to
\* offer (heartbeat_client.py, heartbeat_monitor.py).
THEOREM TypeCorrect == Spec => []TypeOK
  BY TypeInvariant, TypeInvImplies, PTL

-------------------------------------------------------------------------------
(* A stop is final: whoever is neither the launcher's process nor an       *)
(* orphan has been told to stop.                                           *)

Told ==
    \A x \in Procs :
        proc[x].pc # "off" /\ x # hb /\ ~ proc[x].orphan => proc[x].term

Stopping == lpc = "stopping" => hb # 0 /\ (proc[hb].pc = "off" \/ proc[hb].term)

Vacant == lpc \in {"await", "start"} => ~ Runs

LifeInv == Told /\ Stopping /\ Vacant

LEMMA InitLifeInv == Init => LifeInv
<1> SUFFICES ASSUME Init
             PROVE  LifeInv
  OBVIOUS
<1>1. \A x \in Procs : proc[x].pc = "off"
  BY DEF Init, Off
<1>2. lpc \notin {"stopping", "await", "start"}
  BY DEF Init, Start
<1>3. QED
  BY <1>1, <1>2 DEF LifeInv, Told, Stopping, Vacant

\* A process that goes on is the same one: the signal it got stays.
GoesOnAs(x) ==
    \/ proc'[x] = proc[x]
    \/ proc'[x].pc = "off"
    \/ /\ proc[x].pc # "off"
       /\ proc[x].term => proc'[x].term
       /\ proc[x].orphan => proc'[x].orphan

LEMMA LifeKept ==
    ASSUME TypeInv, LifeInv, UNCHANGED hb, \A x \in Procs : GoesOnAs(x),
           lpc' = "stopping" => lpc = "stopping",
           lpc' \in {"await", "start"} => lpc \in {"await", "start"}
    PROVE  LifeInv'
<1>1. hb \in Procs \cup {0}
  BY DEF TypeInv, ControlType
<1>2. Told'
  BY DEF LifeInv, Told, GoesOnAs
<1>3. Stopping'
  BY <1>1 DEF LifeInv, Stopping, GoesOnAs
<1>4. Vacant'
  BY <1>1 DEF LifeInv, Vacant, Runs, GoesOnAs
<1>5. QED
  BY <1>2, <1>3, <1>4 DEF LifeInv

LEMMA OneGoesOn ==
    ASSUME TypeInv, NEW x \in Procs, NEW n, Become(x, n),
           \/ n.pc = "off"
           \/ /\ proc[x].pc # "off"
              /\ proc[x].term => n.term
              /\ proc[x].orphan => n.orphan
    PROVE  \A y \in Procs : GoesOnAs(y)
<1>1. proc'[x] = n /\ \A y \in Procs : y # x => proc'[y] = proc[y]
  BY DEF Become, TypeInv, SendersType
<1>2. QED
  BY <1>1 DEF GoesOnAs

LEMMA OffGoesOn ==
    ASSUME TypeInv, NEW x \in Procs, Become(x, Off)
    PROVE  \A y \in Procs : GoesOnAs(y)
  BY OneGoesOn, OffType

\* What the sender's own steps do to it.
LEMMA SenderGoesOn ==
    ASSUME TypeInv, NEW x \in Procs, ProcStep(x) \/ SendFails(x)
    PROVE  /\ \A y \in Procs : GoesOnAs(y)
           /\ \A y \in Procs : proc'[y].next > proc[y].next => SendHeartbeat(y)
<1>0. proc[x] \in Senders /\ proc \in [Procs -> Senders]
  BY DEF TypeInv, SendersType
<1>1. ASSUME Become(x, Off)
      PROVE  /\ \A y \in Procs : GoesOnAs(y)
             /\ \A y \in Procs : ~ (proc'[y].next > proc[y].next)
  <2>1. Off.next = 1 /\ proc[x].next \in Nat /\ proc[x].next >= 1
    BY <1>0, OffType, RegistryConstants DEF Senders
  <2>2. \A y \in Procs : proc[y].next \in Nat
    BY <1>0, RegistryConstants DEF Senders
  <2>3. \A y \in Procs : IF y = x THEN proc'[y] = Off ELSE proc'[y] = proc[y]
    BY <1>0, <1>1 DEF Become
  <2>4. QED
    BY <1>1, <2>1, <2>2, <2>3, OffGoesOn
<1>2. ASSUME NEW n \in Senders, Become(x, n), proc[x].pc # "off",
             n.term = proc[x].term, n.orphan = proc[x].orphan,
             n.next = proc[x].next \/ SendHeartbeat(x)
      PROVE  /\ \A y \in Procs : GoesOnAs(y)
             /\ \A y \in Procs : proc'[y].next > proc[y].next => SendHeartbeat(y)
  <2>1. \A y \in Procs : proc[y].next \in Nat
    BY <1>0, RegistryConstants DEF Senders
  <2>2. \A y \in Procs : IF y = x THEN proc'[y] = n ELSE proc'[y] = proc[y]
    BY <1>0, <1>2 DEF Become
  <2>3. \A y \in Procs : proc'[y].next > proc[y].next => SendHeartbeat(y)
    BY <1>2, <2>1, <2>2
  <2>4. QED
    BY <1>2, <2>3, OneGoesOn
<1>3. ASSUME NEW pc \in {"generate", "register", "await", "beat"},
             NEW chain \in Keys \cup {0}, NEW pub \in Keys \cup {0},
             Become(x, [proc[x] EXCEPT !.pc = pc, !.chain = chain, !.pub = pub]),
             proc[x].pc # "off"
      PROVE  /\ \A y \in Procs : GoesOnAs(y)
             /\ \A y \in Procs : proc'[y].next > proc[y].next => SendHeartbeat(y)
  <2> DEFINE n == [proc[x] EXCEPT !.pc = pc, !.chain = chain, !.pub = pub]
  <2>1. /\ n \in Senders /\ n.term = proc[x].term /\ n.orphan = proc[x].orphan
        /\ n.next = proc[x].next
    BY <1>0 DEF Senders
  <2>2. Become(x, n)
    BY <1>3
  <2> HIDE DEF n
  <2>3. QED
    BY <1>2, <1>3, <2>1, <2>2
<1>4. CASE Load(x)
  <2>1. PICK pc \in {"register", "beat", "generate"}, chain \in Keys \cup {0} :
            Become(x, [proc[x] EXCEPT !.chain = chain, !.pc = pc])
    <3>1. disk.chain \in Keys \cup {0}
      BY DEF TypeInv, DiskType
    <3>2. PICK c \in Keys \cup {0} : c = disk.chain
      BY <3>1
    <3>3. CASE disk.chain # 0
      BY <1>4, <3>2, <3>3 DEF Load
    <3>4. CASE disk.chain = 0
      BY <1>4, <3>4 DEF Load
    <3>5. QED
      BY <3>3, <3>4
  <2>2. /\ proc[x].pub \in Keys \cup {0} /\ proc[x].pc # "off"
        /\ [proc[x] EXCEPT !.chain = chain, !.pc = pc] =
               [proc[x] EXCEPT !.pc = pc, !.chain = chain, !.pub = proc[x].pub]
    BY <1>0, <1>4 DEF Load, Senders
  <2>3. QED
    BY <1>3, <2>1, <2>2
<1>5. CASE WritePublicKey(x)
  <2>1. /\ proc[x].pub \in Keys \cup {0} /\ proc[x].chain \in Keys \cup {0}
        /\ proc[x].pc # "off"
        /\ [proc[x] EXCEPT !.pc = "register"] =
               [proc[x] EXCEPT !.pc = "register", !.chain = proc[x].chain,
                               !.pub = proc[x].pub]
    BY <1>0, <1>5 DEF WritePublicKey, Senders
  <2>2. QED
    BY <1>3, <1>5, <2>1 DEF WritePublicKey
<1>6. CASE SendKey(x)
  <2>1. disk.pub \in Keys \cup {0}
    BY DEF TypeInv, DiskType
  <2>2. /\ proc[x].chain \in Keys \cup {0} /\ proc[x].pc # "off"
        /\ [proc[x] EXCEPT !.pc = "await", !.pub = disk.pub] =
               [proc[x] EXCEPT !.pc = "await", !.chain = proc[x].chain, !.pub = disk.pub]
    BY <1>0, <1>6 DEF SendKey, Senders
  <2>3. QED
    BY <1>1, <1>3, <1>6, <2>1, <2>2 DEF SendKey
<1>7. CASE SendHeartbeat(x)
  <2> DEFINE n == [proc[x] EXCEPT !.next = proc[x].next + 1]
  <2>1. Become(x, n) /\ proc[x].pc # "off" /\ proc[x].next <= ChainLength
    BY <1>7 DEF SendHeartbeat, GoesOn
  <2>2. proc[x].next + 1 \in 1 .. (ChainLength + 1)
    BY <1>0, <2>1, RegistryConstants DEF Senders
  <2>3. n \in Senders /\ n.term = proc[x].term /\ n.orphan = proc[x].orphan
    BY <1>0, <2>2 DEF Senders
  <2> HIDE DEF n
  <2>4. QED
    BY <1>2, <1>7, <2>1, <2>3
<1>8. CASE EndOfLoop(x) \/ SendFails(x)
  BY <1>1, <1>8 DEF EndOfLoop, SendFails
<1>9. QED
  BY <1>4, <1>5, <1>6, <1>7, <1>8 DEF ProcStep

\* An answer is for a process that waits.
LEMMA AnswerGoesOn ==
    ASSUME TypeInv, NEW w \in Procs, NEW acked \in BOOLEAN, Answer(w, acked),
           proc[w].pc = "await"
    PROVE  /\ \A y \in Procs : GoesOnAs(y) /\ ~ (proc'[y].next > proc[y].next)
           /\ UNCHANGED <<hb, lpc>>
<1>0. /\ w # Sup /\ proc \in [Procs -> Senders] /\ proc[w] \in Senders
      /\ \A y \in Procs : proc[y].next \in Nat /\ proc[y].next >= 1
  BY NodeConstants, RegistryConstants DEF TypeInv, SendersType, Senders
<1> DEFINE n == [proc[w] EXCEPT !.pc = "beat", !.pub = 0]
<1>1. Become(w, n) \/ Become(w, Off)
  BY <1>0 DEF Answer
<1>2. n.term = proc[w].term /\ n.orphan = proc[w].orphan /\ n.next = proc[w].next
  BY <1>0 DEF Senders
<1> HIDE DEF n
<1>3. \A y \in Procs : GoesOnAs(y)
  BY <1>1, <1>2, OneGoesOn, OffGoesOn
<1>4. /\ proc'[w] = n \/ proc'[w] = Off
      /\ \A y \in Procs : y # w => proc'[y] = proc[y]
  BY <1>0, <1>1 DEF Become
<1>5. \A y \in Procs : ~ (proc'[y].next > proc[y].next)
  BY <1>0, <1>2, <1>4, OffType
<1>6. QED
  BY <1>0, <1>3, <1>5 DEF Answer, control

\* A new process for one that is not alive.
LEMMA NewProcessLife ==
    ASSUME TypeInv, LifeInv, ~ Runs, NEW x \in Procs, NewProcess(x),
           lpc' \in {"wait", "read"}, UNCHANGED launcher
    PROVE  LifeInv'
<1>1. /\ hb' = x /\ \A y \in Procs : y # x => proc'[y] = proc[y]
  BY NewProcessType
<1>2. Told'
  <2>1. SUFFICES ASSUME NEW y \in Procs, proc'[y].pc # "off", y # hb', ~ proc'[y].orphan
                 PROVE  proc'[y].term
    BY DEF Told
  <2>2. proc'[y] = proc[y] /\ y # hb
    BY <1>1, <2>1, NodeConstants DEF Runs
  <2>3. QED
    BY <2>1, <2>2 DEF LifeInv, Told
<1>3. QED
  BY <1>2 DEF LifeInv, Stopping, Vacant

LEMMA LifeInvNext == TypeInv /\ LifeInv /\ [Next]_vars => LifeInv'
<1> SUFFICES ASSUME TypeInv, LifeInv, [Next]_vars
             PROVE  LifeInv'
  OBVIOUS
<1>0. hb \in Procs \cup {0} /\ 0 \notin Procs
  BY NodeConstants DEF TypeInv, ControlType
<1>1. ASSUME UNCHANGED <<proc, hb, lpc>>
      PROVE  LifeInv'
  BY <1>1, LifeKept DEF GoesOnAs
<1>2. CASE \/ UNCHANGED vars \/ GoesDeaf \/ \E t \in 0 .. 2 : WriteState(t)
           \/ \E w \in Registrants : HandleKey(w)
           \/ \E k \in late : HandleLate(k)
           \/ Deliver \/ TimePasses \/ MonitorNotices
  <2>1. CASE GoesDeaf
    <3>1. UNCHANGED <<proc, hb>> /\ lpc' = "deaf"
      BY <2>1 DEF GoesDeaf
    <3>2. QED
      BY <3>1, LifeKept DEF GoesOnAs
  <2>2. CASE ~ GoesDeaf
    BY <1>1, <1>2, <2>2 DEF HandleKey, HandleLate, Deliver, TimePasses, MonitorNotices,
                            WriteState, vars, control
  <2>3. QED
    BY <2>1, <2>2
<1>3. CASE \E x \in Procs : ProcStep(x) \/ SendFails(x)
  <2>1. PICK x \in Procs : ProcStep(x) \/ SendFails(x)
    BY <1>3
  <2>2. UNCHANGED control
    BY <2>1 DEF ProcStep, Load, WritePublicKey, SendKey, SendHeartbeat, EndOfLoop, SendFails
  <2>3. QED
    BY <2>1, <2>2, SenderGoesOn, LifeKept DEF control
<1>4. ASSUME NEW w \in Procs \cup {Sup}, NEW acked \in BOOLEAN, Answer(w, acked),
             w \in Procs => proc[w].pc = "await", w = Sup => lpc = "await"
      PROVE  LifeInv'
  <2>1. CASE w \in Procs
    BY <1>4, <2>1, AnswerGoesOn, LifeKept
  <2>2. CASE w = Sup
    BY <1>4, <2>2, LifeKept DEF Answer, GoesOnAs
  <2>3. QED
    BY <2>1, <2>2
<1>5. CASE CheckStatus
  <2>1. CASE tcp.who = 0
    BY <1>1, <1>5, <2>1 DEF CheckStatus, control
  <2>2. CASE tcp.who # 0
    <3>1. /\ tcp.who \in Procs \cup {Sup} /\ Answer(tcp.who, TRUE)
          /\ tcp.who \in Procs => proc[tcp.who].pc = "await"
          /\ tcp.who = Sup => lpc = "await"
      BY <1>5, <2>2 DEF CheckStatus, TypeInv, NetworkType
    <3>2. PICK w \in Procs \cup {Sup} : w = tcp.who
      BY <3>1
    <3>3. QED
      BY <1>4, <3>1, <3>2
  <2>3. QED
    BY <2>1, <2>2
<1>6. CASE \E w \in Registrants : GiveUp(w)
  BY <1>4, <1>6, OfferIsKey DEF GiveUp
<1>7. CASE SetConfigOn
  BY <1>7, NewProcessLife DEF SetConfigOn
<1>8. CASE StartChild
  BY <1>8, NewProcessLife DEF StartChild, LifeInv, Vacant
<1>9. CASE StopService
  <2>1. /\ hb \in Procs /\ lpc' = "stopping" /\ UNCHANGED hb
        /\ proc \in [Procs -> Senders]
    BY <1>0, <1>9 DEF StopService, Runs, TypeInv, SendersType
  <2>2. PICK x \in Procs : x = hb
    BY <2>1
  <2> DEFINE n == [proc[x] EXCEPT !.term = TRUE]
  <2>3. n.term
    BY <2>1 DEF Senders
  <2>4. Become(x, n) \/ Become(x, Off)
    BY <1>9, <2>2 DEF StopService
  <2> HIDE DEF n
  <2>5. /\ proc'[x] = n \/ proc'[x] = Off
        /\ \A y \in Procs : y # x => proc'[y] = proc[y]
    BY <2>1, <2>4 DEF Become
  <2>6. proc'[x].pc = "off" \/ proc'[x].term
    BY <2>3, <2>5, OffType
  <2>7. Told' /\ Stopping'
    BY <1>0, <2>1, <2>2, <2>5, <2>6 DEF LifeInv, Told, Stopping
  <2>8. QED
    BY <2>1, <2>7 DEF LifeInv, Vacant
<1>10. CASE StopReturns
  <2>1. lpc = "stopping" /\ lpc' = "wait" /\ hb' = 0 /\ UNCHANGED proc
    BY <1>10 DEF StopReturns
  <2>2. Told'
    BY <1>0, <2>1 DEF LifeInv, Told, Stopping
  <2>3. QED
    BY <2>1, <2>2 DEF LifeInv, Stopping, Vacant
<1>11. CASE Leave \/ Prepare
  <2>1. /\ UNCHANGED launcher /\ lpc = "read" /\ lpc' \in {"read", "await"}
        /\ \/ proc' = Killed /\ hb' = 0
           \/ UNCHANGED <<proc, hb>> /\ ~ Runs
    BY <1>11 DEF Leave, Prepare
  <2>2. CASE proc' = Killed /\ hb' = 0
    <3>1. /\ hb # 0 => proc'[hb].pc = "off"
          /\ \A x \in Procs : x # hb => proc'[x] = proc[x]
      BY <2>1, <2>2, KilledType, OffType
    <3>2. Told'
      BY <1>0, <2>2, <3>1 DEF LifeInv, Told
    <3>3. QED
      BY <2>1, <2>2, <3>2 DEF LifeInv, Stopping, Vacant, Runs
  <2>3. CASE UNCHANGED <<proc, hb>> /\ ~ Runs
    BY <2>1, <2>3 DEF LifeInv, Told, Stopping, Vacant, Runs
  <2>4. QED
    BY <2>1, <2>2, <2>3
<1>12. CASE Crash
  <2>1. lpc' = "down" /\ hb' = 0
    BY <1>12 DEF Crash
  <2>2. ASSUME NEW x \in Procs
        PROVE  proc'[x].pc = "off" \/ proc'[x].orphan
    <3>1. proc[x] \in Senders
      BY DEF TypeInv, SendersType
    <3> DEFINE n == [proc[x] EXCEPT !.orphan = TRUE]
    <3>2. n.orphan
      BY <3>1 DEF Senders
    <3>3. proc'[x] = Off \/ proc'[x] = n
      BY <1>12 DEF Crash
    <3> HIDE DEF n
    <3>4. QED
      BY <3>2, <3>3, OffType
  <2>3. QED
    BY <2>1, <2>2 DEF LifeInv, Told, Stopping, Vacant
<1>13. CASE Restart
  <2>1. UNCHANGED <<proc, hb>> /\ lpc' \in {"wait", "read"}
    BY <1>13 DEF Restart, Start, TypeInv, ControlType
  <2>2. QED
    BY <2>1, LifeKept DEF GoesOnAs
<1>14. QED
  BY <1>2, <1>3, <1>5, <1>6, <1>7, <1>8, <1>9, <1>10, <1>11, <1>12, <1>13
  DEF Next, LaunchStep, Commands

\* Only the sending of a heartbeat moves the index a process sends next.
LEMMA OnlySendersAdvance ==
    ASSUME TypeInv, [Next]_vars, NEW x \in Procs, proc'[x].next > proc[x].next
    PROVE  SendHeartbeat(x)
<1>0. /\ proc \in [Procs -> Senders] /\ proc[x] \in Senders
      /\ \A y \in Procs : proc[y].next \in Nat /\ proc[y].next >= 1
  BY RegistryConstants DEF TypeInv, SendersType, Senders
<1>1. ASSUME \E y \in Procs : ProcStep(y) \/ SendFails(y)
      PROVE  SendHeartbeat(x)
  BY <1>1, SenderGoesOn
<1>2. ASSUME proc'[x] = proc[x] \/ proc'[x] = Off \/ proc'[x] = Loading
      PROVE  FALSE
  BY <1>0, <1>2, OffType
<1>3. ASSUME NEW n, n.next = proc[x].next, proc'[x] = n
      PROVE  FALSE
  BY <1>0, <1>3
<1>4. ASSUME NEW w \in Procs, NEW acked \in BOOLEAN, Answer(w, acked), proc[w].pc = "await"
      PROVE  FALSE
  BY <1>4, AnswerGoesOn
<1>5. CASE CheckStatus \/ \E w \in Registrants : GiveUp(w)
  <2>1. ASSUME UNCHANGED proc
        PROVE  FALSE
    BY <1>2, <2>1
  <2>2. CASE CheckStatus
    <3>1. CASE tcp.who \in Procs
      <4>1. PICK w \in Procs : w = tcp.who
        BY <3>1
      <4>2. Answer(w, TRUE) /\ proc[w].pc = "await"
        BY <2>2, <4>1, NodeConstants DEF CheckStatus, TypeInv, NetworkType
      <4>3. QED
        BY <1>4, <4>2
    <3>2. CASE tcp.who \notin Procs
      BY <2>1, <2>2, <3>2 DEF CheckStatus, Answer, TypeInv, NetworkType
    <3>3. QED
      BY <3>1, <3>2
  <2>3. ASSUME NEW w \in Registrants, GiveUp(w)
        PROVE  FALSE
    <3>1. Awaits(w) /\ Answer(w, FALSE)
      BY <2>3 DEF GiveUp
    <3>2. CASE w \in Procs
      BY <1>4, <3>1, <3>2, OfferIsKey
    <3>3. CASE w = Sup
      BY <2>1, <3>1, <3>3 DEF Answer
    <3>4. QED
      BY <3>1, <3>2, <3>3, OfferIsKey
  <2>4. QED
    BY <1>5, <2>2, <2>3
<1>6. CASE SetConfigOn \/ StartChild
  <2>1. PICK y \in Procs : NewProcess(y) /\ UNCHANGED launcher
    BY <1>6 DEF SetConfigOn, StartChild
  <2>2. proc'[x] = proc[x] \/ proc'[x] = Loading
    BY <2>1, NewProcessType
  <2>3. QED
    BY <1>2, <2>2
<1>7. CASE StopService
  <2>1. PICK y \in Procs : y = hb
    BY <1>7 DEF StopService, Runs, TypeInv, ControlType
  <2> DEFINE n == [proc[y] EXCEPT !.term = TRUE]
  <2>2. n.next = proc[y].next
    BY <1>0 DEF Senders
  <2>3. Become(y, n) \/ Become(y, Off)
    BY <1>7, <2>1 DEF StopService
  <2> HIDE DEF n
  <2>4. /\ proc'[y] = n \/ proc'[y] = Off
        /\ y # x => proc'[x] = proc[x]
    BY <1>0, <2>3 DEF Become
  <2>5. QED
    BY <1>2, <1>3, <2>2, <2>4
<1>8. CASE Leave \/ Prepare
  <2>1. proc'[x] = proc[x] \/ proc'[x] = Off
    BY <1>8, KilledType DEF Leave, Prepare
  <2>2. QED
    BY <1>2, <2>1
<1>9. CASE Crash
  <2> DEFINE n == [proc[x] EXCEPT !.orphan = TRUE]
  <2>1. n.next = proc[x].next
    BY <1>0 DEF Senders
  <2>2. proc'[x] = Off \/ proc'[x] = n
    BY <1>9 DEF Crash
  <2> HIDE DEF n
  <2>3. QED
    BY <1>2, <1>3, <2>1, <2>2
<1>10. CASE \/ UNCHANGED vars \/ GoesDeaf \/ \E t \in 0 .. 2 : WriteState(t)
            \/ \E w \in Registrants : HandleKey(w)
            \/ \E k \in late : HandleLate(k)
            \/ Deliver \/ TimePasses \/ MonitorNotices
            \/ StopReturns \/ Restart
  <2>1. UNCHANGED proc
    BY <1>10 DEF HandleKey, HandleLate, Deliver, TimePasses, MonitorNotices, WriteState,
                 GoesDeaf, StopReturns, Restart, vars
  <2>2. QED
    BY <1>2, <2>1
<1>11. QED
  BY <1>1, <1>5, <1>6, <1>7, <1>8, <1>9, <1>10 DEF Next, LaunchStep, Commands

\* Only the process the launcher holds, or one whose launcher was killed, sends
\* heartbeats: a stop is final although the wait for it may time out, or the
\* signal comes while the process registers (node_manager.py, heartbeat_client.py).
THEOREM StopIsFinal == Spec => StoppedSendsNothing
<1>1. TypeInv /\ LifeInv /\ [Next]_vars =>
          [\A x \in Procs :
              proc'[x].next > proc[x].next => x = hb \/ proc[x].orphan]_vars
  BY OnlySendersAdvance DEF SendHeartbeat, GoesOn, LifeInv, Told
<1>2. QED
  BY <1>1, TypeInvariant, InitLifeInv, LifeInvNext, PTL DEF Spec, StoppedSendsNothing

-------------------------------------------------------------------------------
(* The chain of a sender and the key of the server, as long as no late     *)
(* registration was handled and the launcher has not ended.                *)

\* The client of a node manager: one chain, kept in a file for good.
OneChain ==
    /\ disk.pub \in {0, disk.chain} /\ key \subseteq {disk.chain}
    /\ \A x \in Procs :
          /\ proc[x].pc \in {"generate", "register", "await", "beat"} =>
                 proc[x].chain = disk.chain /\ disk.chain # 0
          /\ proc[x].pc = "await" => proc[x].pub = disk.chain
          /\ proc[x].pc = "beat" => key = {disk.chain}
    /\ tcp.who # 0 => key = {disk.chain}

\* The children of a supervisor: one at a time, of a chain that is registered
\* before the child is there, and replaced only when it is not.
NewChain ==
    /\ disk.chain = disk.pub
    /\ \A x \in Procs :
          /\ proc[x].pc # "off" => x = hb
          /\ proc[x].pc = "load" => disk.chain # 0 /\ key = {disk.chain}
          /\ proc[x].pc = "beat" => key = {proc[x].chain}
    /\ tcp.who # 0 \/ lpc = "start" => key = {disk.chain}

VerifiedInv ==
    ~ overtaken => /\ lpc # "down" /\ \A x \in Procs : ~ proc[x].orphan
                   /\ IF IsManager THEN OneChain ELSE NewChain

LEMMA InitVerifiedInv == Init => VerifiedInv
<1> SUFFICES ASSUME Init
             PROVE  VerifiedInv
  OBVIOUS
<1>1. \A x \in Procs : proc[x].pc = "off" /\ ~ proc[x].orphan
  BY DEF Init, Off
<1>2. lpc \notin {"down", "start"}
  BY DEF Init, Start
<1>3. disk.chain = 0 /\ disk.pub = 0 /\ key = {} /\ tcp.who = 0
  BY DEF Init, RegistryInit, NoFile, NoHandler
<1>4. QED
  BY <1>1, <1>2, <1>3 DEF VerifiedInv, OneChain, NewChain

\* A step that changes neither the key, the files, the processes nor who is
\* registering.
LEMMA VerifiedKept ==
    ASSUME VerifiedInv, UNCHANGED <<key, disk, proc, launcher>>, UNCHANGED overtaken,
           IsManager \/ UNCHANGED hb,
           tcp'.who \in {0, tcp.who}, lpc' = lpc \/ lpc' \notin {"down", "start"}
    PROVE  VerifiedInv'
  BY DEF VerifiedInv, OneChain, NewChain, IsManager

LEMMA SenderVerified ==
    ASSUME TypeInv, VerifiedInv, NEW x \in Procs, ProcStep(x) \/ SendFails(x)
    PROVE  VerifiedInv'
<1>0. /\ proc[x] \in Senders /\ Sender(proc[x]) /\ proc \in [Procs -> Senders]
      /\ 0 \notin Keys /\ UNCHANGED <<launcher, hb, lpc, key, tcp, overtaken>>
  <2>1. UNCHANGED <<registry, control, tcp, overtaken>>
    BY DEF ProcStep, Load, WritePublicKey, SendKey, SendHeartbeat, EndOfLoop, SendFails,
           network
  <2>2. QED
    BY <2>1, NodeConstants DEF TypeInv, SendersType, control, registry, entry
<1> SUFFICES ASSUME ~ overtaken
             PROVE  VerifiedInv'
  BY <1>0 DEF VerifiedInv
<1>1. /\ lpc # "down" /\ ~ proc[x].orphan
      /\ IsManager => OneChain
      /\ ~ IsManager => NewChain /\ (proc[x].pc # "off" => x = hb)
  BY DEF VerifiedInv, NewChain
<1>2. ASSUME NEW n \in Senders, Become(x, n), ~ n.orphan, UNCHANGED disk,
             \/ n.pc = "off"
             \/ IsManager /\ n.pc = "register" /\ n.chain = disk.chain /\ disk.chain # 0
             \/ /\ IsManager /\ n.pc = "await" /\ n.chain = disk.chain /\ disk.chain # 0
                /\ n.pub = disk.chain
             \/ /\ ~ IsManager /\ n.pc = "beat" /\ key = {n.chain} /\ x = hb
             \/ n.pc = proc[x].pc /\ n.chain = proc[x].chain /\ n.pub = proc[x].pub
      PROVE  VerifiedInv'
  <2>1. proc'[x] = n /\ \A y \in Procs : y # x => proc'[y] = proc[y]
    BY <1>0, <1>2 DEF Become
  <2>2. \A y \in Procs : ~ proc'[y].orphan
    BY <1>2, <2>1 DEF VerifiedInv
  <2>3. IsManager => OneChain'
    BY <1>0, <1>1, <1>2, <2>1 DEF OneChain
  <2>4. ~ IsManager => NewChain'
    BY <1>0, <1>1, <1>2, <2>1 DEF NewChain
  <2>5. QED
    BY <1>0, <1>1, <2>2, <2>3, <2>4 DEF VerifiedInv, IsManager
<1>3. CASE Load(x) /\ disk.chain # 0
  <2> DEFINE pc == IF IsManager THEN "register" ELSE "beat"
             n == [proc[x] EXCEPT !.chain = disk.chain, !.pc = pc]
  <2>1. Become(x, n) /\ UNCHANGED disk /\ proc[x].pc = "load"
    BY <1>3 DEF Load
  <2>2. disk.chain \in Keys \cup {0}
    BY DEF TypeInv, DiskType
  <2>3. n \in Senders /\ n.pc = pc /\ n.chain = disk.chain /\ ~ n.orphan
    BY <1>0, <1>1, <2>2 DEF Senders
  <2> HIDE DEF n
  <2>4. ~ IsManager => key = {disk.chain} /\ x = hb
    BY <1>1, <2>1 DEF NewChain
  <2>5. QED
    BY <1>2, <1>3, <2>1, <2>3, <2>4
<1>4. CASE Load(x) /\ disk.chain = 0
  <2>1. proc[x].pc = "load"
    BY <1>4 DEF Load
  <2>2. IsManager
    BY <1>1, <1>4, <2>1 DEF NewChain
  <2>3. PICK g \in Keys :
            /\ disk' = [chain |-> g, pub |-> disk.pub]
            /\ Become(x, [proc[x] EXCEPT !.chain = g, !.pc = "generate"])
    BY <1>4, <2>2, FreshIsKey DEF Load
  <2> DEFINE n == [proc[x] EXCEPT !.chain = g, !.pc = "generate"]
  <2>4. n \in Senders /\ n.pc = "generate" /\ n.chain = g /\ ~ n.orphan
    BY <1>0, <1>1 DEF Senders
  <2>5. Become(x, n)
    BY <2>3
  <2> HIDE DEF n
  <2>6. proc'[x] = n /\ \A y \in Procs : y # x => proc'[y] = proc[y]
    BY <1>0, <2>5 DEF Become
  <2>7. key = {}
    BY <1>0, <1>1, <1>4, <2>2 DEF OneChain, TypeInv, RegistryType
  <2>8. /\ disk.pub = 0 /\ tcp.who = 0
        /\ \A y \in Procs : proc[y].pc \notin {"generate", "register", "await", "beat"}
    BY <1>1, <1>4, <2>2, <2>7 DEF OneChain
  <2>9. disk'.pub = 0 /\ disk'.chain = g /\ g # 0
    BY <1>0, <2>3, <2>8
  <2>10. OneChain'
    BY <1>0, <2>4, <2>6, <2>7, <2>8, <2>9 DEF OneChain
  <2>11. \A y \in Procs : ~ proc'[y].orphan
    BY <2>4, <2>6 DEF VerifiedInv
  <2>12. QED
    BY <1>0, <1>1, <2>2, <2>10, <2>11 DEF VerifiedInv, IsManager
<1>5. CASE WritePublicKey(x)
  <2> DEFINE n == [proc[x] EXCEPT !.pc = "register"]
  <2>1. /\ proc[x].pc = "generate" /\ Become(x, n)
        /\ disk' = [disk EXCEPT !.pub = proc[x].chain]
    BY <1>5 DEF WritePublicKey
  <2>2. /\ n.pc = "register" /\ n.chain = proc[x].chain /\ ~ n.orphan
    BY <1>0, <1>1 DEF Senders
  <2> HIDE DEF n
  <2>3. proc'[x] = n /\ \A y \in Procs : y # x => proc'[y] = proc[y]
    BY <1>0, <2>1 DEF Become
  <2>4. IsManager /\ proc[x].chain = disk.chain /\ disk.chain # 0
    BY <1>0, <1>1, <2>1 DEF Sender, OneChain
  <2>5. disk'.chain = disk.chain /\ disk'.pub = disk.chain
    BY <2>1, <2>4 DEF TypeInv, DiskType
  <2>6. OneChain'
    BY <1>0, <1>1, <2>2, <2>3, <2>4, <2>5 DEF OneChain
  <2>7. \A y \in Procs : ~ proc'[y].orphan
    BY <2>2, <2>3 DEF VerifiedInv
  <2>8. QED
    BY <1>0, <1>1, <2>4, <2>6, <2>7 DEF VerifiedInv, IsManager
<1>6. ASSUME Become(x, Off), UNCHANGED disk
      PROVE  VerifiedInv'
  <2>1. ~ Off.orphan
    BY DEF Off
  <2>2. QED
    BY <1>2, <1>6, <2>1, OffType
<1>7. CASE SendKey(x)
  <2>1. /\ proc[x].pc = "register" /\ UNCHANGED disk /\ IsManager
        /\ proc[x].chain = disk.chain /\ disk.chain # 0
    BY <1>0, <1>1, <1>7 DEF SendKey, Sender, OneChain
  <2>2. CASE disk.pub # 0
    <3> DEFINE n == [proc[x] EXCEPT !.pc = "await", !.pub = disk.pub]
    <3>1. Become(x, n)
      BY <1>7, <2>2 DEF SendKey
    <3>2. disk.pub = disk.chain /\ disk.pub \in Keys \cup {0}
      BY <1>1, <2>1, <2>2 DEF OneChain, TypeInv, DiskType
    <3>3. /\ n \in Senders /\ n.pc = "await" /\ n.pub = disk.pub
          /\ n.chain = proc[x].chain /\ ~ n.orphan
      BY <1>0, <1>1, <3>2 DEF Senders
    <3> HIDE DEF n
    <3>4. QED
      BY <1>2, <2>1, <3>1, <3>2, <3>3
  <2>3. QED
    BY <1>6, <1>7, <2>1, <2>2 DEF SendKey
<1>8. CASE SendHeartbeat(x)
  <2> DEFINE n == [proc[x] EXCEPT !.next = proc[x].next + 1]
  <2>1. Become(x, n) /\ UNCHANGED disk /\ proc[x].next <= ChainLength
    BY <1>8 DEF SendHeartbeat, GoesOn
  <2>2. proc[x].next + 1 \in 1 .. (ChainLength + 1)
    BY <1>0, <2>1, RegistryConstants DEF Senders
  <2>3. /\ n \in Senders /\ n.pc = proc[x].pc /\ n.chain = proc[x].chain
        /\ n.pub = proc[x].pub /\ ~ n.orphan
    BY <1>0, <1>1, <2>2 DEF Senders
  <2> HIDE DEF n
  <2>4. QED
    BY <1>2, <2>1, <2>3
<1>9. CASE EndOfLoop(x) \/ SendFails(x)
  BY <1>6, <1>9 DEF EndOfLoop, SendFails
<1>10. QED
  BY <1>3, <1>4, <1>5, <1>7, <1>8, <1>9 DEF ProcStep

\* A registration is for the chain on the disk, and no child is there yet.
LEMMA RegistrationVerified ==
    ASSUME TypeInv, LifeInv, VerifiedInv, NEW w \in Registrants,
           HandleKey(w) \/ GiveUp(w)
    PROVE  VerifiedInv'
<1>0. /\ UNCHANGED <<launcher, disk, overtaken>> /\ Awaits(w) /\ Offer(w) \in Keys
      /\ proc \in [Procs -> Senders]
      /\ \/ w = Sup /\ w \notin Procs /\ lpc = "await" /\ ~ IsManager
         \/ w \in Procs /\ w # Sup /\ proc[w].pc = "await" /\ IsManager
  <2>1. UNCHANGED <<launcher, disk, overtaken>> /\ Awaits(w)
    BY DEF HandleKey, GiveUp, Answer, control
  <2>2. QED
    BY <2>1, OfferIsKey DEF TypeInv, SendersType
<1> SUFFICES ASSUME ~ overtaken
             PROVE  VerifiedInv'
  BY <1>0 DEF VerifiedInv
<1>1. CASE HandleKey(w)
  <2>1. key' = {Offer(w)} /\ UNCHANGED <<proc, hb, lpc>>
    BY <1>1 DEF HandleKey, StoreKey, control
  <2>2. CASE IsManager
    <3>1. Offer(w) = disk.chain /\ disk.chain # 0
      BY <1>0, <2>2 DEF Offer, VerifiedInv, OneChain
    <3>2. OneChain'
      BY <1>0, <2>1, <2>2, <3>1 DEF VerifiedInv, OneChain
    <3>3. QED
      BY <1>0, <2>1, <2>2, <3>2 DEF VerifiedInv, IsManager
  <2>3. CASE ~ IsManager
    <3>1. Offer(w) = disk.chain
      BY <1>0, <2>3 DEF Offer, VerifiedInv, NewChain
    <3>2. \A x \in Procs : proc[x].pc = "off"
      BY <1>0, <2>3, NodeConstants DEF VerifiedInv, NewChain, LifeInv, Vacant, Runs
    <3>3. NewChain'
      BY <1>0, <2>1, <2>3, <3>1, <3>2 DEF VerifiedInv, NewChain
    <3>4. QED
      BY <1>0, <2>1, <2>3, <3>3 DEF VerifiedInv, IsManager
  <2>4. QED
    BY <2>2, <2>3
<1>2. CASE GiveUp(w)
  <2>1. UNCHANGED key /\ tcp'.who \in {0, tcp.who} /\ Answer(w, FALSE)
    BY <1>2 DEF GiveUp, registry, entry, TypeInv, NetworkType
  <2>2. CASE w = Sup
    <3>1. UNCHANGED <<proc, hb>> /\ lpc' = "read"
      BY <2>1, <2>2 DEF Answer
    <3>2. QED
      BY <1>0, <2>1, <3>1, VerifiedKept
  <2>3. CASE w # Sup
    <3>1. Become(w, Off) /\ UNCHANGED <<hb, lpc>> /\ w \in Procs /\ IsManager
      BY <1>0, <2>1, <2>3 DEF Answer, control
    <3>2. /\ proc'[w].pc = "off" /\ ~ proc'[w].orphan
          /\ \A y \in Procs : y # w => proc'[y] = proc[y]
      BY <1>0, <3>1 DEF Become, Off
    <3>3. OneChain'
      BY <1>0, <2>1, <3>1, <3>2 DEF VerifiedInv, OneChain
    <3>4. QED
      BY <1>0, <3>1, <3>2, <3>3 DEF VerifiedInv, IsManager
  <2>4. QED
    BY <2>2, <2>3
<1>3. QED
  BY <1>1, <1>2

\* The ACK: the server holds the key of the chain that is about to be sent.
LEMMA AckVerified ==
    ASSUME TypeInv, VerifiedInv, CheckStatus
    PROVE  VerifiedInv'
<1>0. /\ UNCHANGED <<key, disk, overtaken>> /\ tcp' = NoHandler
      /\ proc \in [Procs -> Senders]
  BY DEF CheckStatus, Reset, registry, entry, TypeInv, SendersType
<1>1. CASE tcp.who = 0
  <2>1. UNCHANGED <<proc, launcher, hb, lpc>>
    BY <1>1 DEF CheckStatus, control
  <2>2. QED
    BY <1>0, <2>1, VerifiedKept DEF NoHandler
<1>2. CASE tcp.who = Sup
  <2>1. /\ lpc = "await" /\ lpc' = "start" /\ UNCHANGED <<proc, launcher, hb>>
        /\ tcp.who # 0 /\ ~ IsManager
    BY <1>2, NodeConstants DEF CheckStatus, Answer, TypeInv, NetworkType, ControlType
  <2>2. ~ overtaken => NewChain'
    BY <1>0, <2>1 DEF VerifiedInv, NewChain, NoHandler
  <2>3. QED
    BY <1>0, <2>1, <2>2 DEF VerifiedInv, IsManager
<1>3. CASE tcp.who \in Procs
  <2>1. PICK w \in Procs : w = tcp.who
    BY <1>3
  <2> DEFINE n == [proc[w] EXCEPT !.pc = "beat", !.pub = 0]
  <2>2. /\ w # Sup /\ w # 0 /\ proc[w].pc = "await" /\ Answer(w, TRUE) /\ proc[w] \in Senders
    BY <2>1, NodeConstants DEF CheckStatus, TypeInv, NetworkType, SendersType
  <2>3. IsManager /\ Become(w, n) /\ UNCHANGED <<launcher, hb, lpc>>
    BY <2>2 DEF Answer, control, TypeInv, SendersType, Sender
  <2>4. n.pc = "beat" /\ n.chain = proc[w].chain /\ n.orphan = proc[w].orphan
    BY <2>2 DEF Senders
  <2> HIDE DEF n
  <2>5. proc'[w] = n /\ \A y \in Procs : y # w => proc'[y] = proc[y]
    BY <1>0, <2>3 DEF Become
  <2>6. ~ overtaken => OneChain' /\ \A y \in Procs : ~ proc'[y].orphan
    BY <1>0, <2>1, <2>2, <2>3, <2>4, <2>5 DEF VerifiedInv, OneChain, NoHandler
  <2>7. QED
    BY <1>0, <2>3, <2>6 DEF VerifiedInv, IsManager
<1>4. QED
  BY <1>1, <1>2, <1>3 DEF TypeInv, NetworkType

LEMMA ManagerVerified ==
    ASSUME TypeInv, VerifiedInv, SetConfigOn \/ StopService \/ StopReturns \/ GoesDeaf
    PROVE  VerifiedInv'
<1>0. /\ IsManager /\ UNCHANGED <<key, launcher, disk, tcp, overtaken>>
      /\ lpc' # "down" /\ proc \in [Procs -> Senders]
  BY DEF SetConfigOn, StopService, StopReturns, GoesDeaf, registry, entry, network,
         TypeInv, SendersType
<1>1. ASSUME \A x \in Procs :
                \/ proc'[x] = proc[x]
                \/ proc'[x].pc \in {"off", "load"} /\ ~ proc'[x].orphan
                \/ /\ proc'[x].pc = proc[x].pc /\ proc'[x].chain = proc[x].chain
                   /\ proc'[x].pub = proc[x].pub /\ proc'[x].orphan = proc[x].orphan
      PROVE  VerifiedInv'
  <2>1. ~ overtaken => OneChain' /\ \A x \in Procs : ~ proc'[x].orphan
    BY <1>0, <1>1 DEF VerifiedInv, OneChain
  <2>2. QED
    BY <1>0, <2>1 DEF VerifiedInv, IsManager
<1>2. CASE SetConfigOn
  BY <1>0, <1>1, <1>2, NewProcessType, OffType DEF SetConfigOn
<1>3. CASE StopService
  <2>1. PICK y \in Procs : y = hb
    BY <1>3 DEF StopService, Runs, TypeInv, ControlType
  <2> DEFINE n == [proc[y] EXCEPT !.term = TRUE]
  <2>2. /\ n.pc = proc[y].pc /\ n.chain = proc[y].chain /\ n.pub = proc[y].pub
        /\ n.orphan = proc[y].orphan
    BY <1>0 DEF Senders
  <2>3. Become(y, n) \/ Become(y, Off)
    BY <1>3, <2>1 DEF StopService
  <2> HIDE DEF n
  <2>4. /\ proc'[y] = n \/ proc'[y] = Off
        /\ \A x \in Procs : x # y => proc'[x] = proc[x]
    BY <1>0, <2>3 DEF Become
  <2>5. Off.pc = "off" /\ ~ Off.orphan
    BY DEF Off
  <2>6. QED
    BY <1>1, <2>2, <2>4, <2>5
<1>4. CASE StopReturns \/ GoesDeaf
  BY <1>1, <1>4 DEF StopReturns, GoesDeaf
<1>5. QED
  BY <1>2, <1>3, <1>4

LEMMA SupervisorVerified ==
    ASSUME TypeInv, LifeInv, VerifiedInv, Leave \/ Prepare \/ StartChild
    PROVE  VerifiedInv'
<1>0. /\ ~ IsManager /\ UNCHANGED <<key, launcher, tcp, overtaken>>
      /\ lpc \in {"read", "start"} /\ lpc' \in {"read", "await"}
      /\ hb \in Procs \cup {0} /\ 0 \notin Procs
  BY NodeConstants DEF Leave, Prepare, StartChild, registry, entry, network, TypeInv,
                       ControlType
<1> SUFFICES ASSUME ~ overtaken
             PROVE  VerifiedInv'
  BY <1>0 DEF VerifiedInv
<1>1. NewChain
  BY <1>0 DEF VerifiedInv
<1>2. tcp.who = 0
  BY <1>0 DEF TypeInv, NetworkType, SendersType, Sender
<1>3. ASSUME NewChain', \A x \in Procs : ~ proc'[x].orphan
      PROVE  VerifiedInv'
  BY <1>0, <1>3 DEF VerifiedInv, IsManager
<1>4. CASE Leave \/ Prepare
  <2>1. \/ proc' = Killed
        \/ UNCHANGED proc /\ ~ Runs
    BY <1>4 DEF Leave, Prepare
  <2>2. \A x \in Procs : proc'[x] = proc[x] \/ proc'[x] = Off
    BY <1>0, <2>1, KilledType, <1>4 DEF Leave, Prepare
  <2>3. \A x \in Procs : proc'[x].pc = "off"
    <3>1. CASE proc' = Killed
      <4>1. UNCHANGED launcher
        BY <1>0
      <4>2. /\ hb # 0 => proc'[hb] = Off
            /\ \A x \in Procs : x # hb => proc'[x] = proc[x]
        BY <3>1, <4>1, KilledType
      <4>3. QED
        BY <1>0, <1>1, <4>2, OffType DEF NewChain
    <3>2. CASE UNCHANGED proc /\ ~ Runs
      BY <1>0, <1>1, <3>2 DEF NewChain, Runs
    <3>3. QED
      BY <2>1, <3>1, <3>2
  <2>4. disk'.chain = disk'.pub
    BY <1>4 DEF Leave, Prepare, NoFile
  <2>5. NewChain'
    BY <1>0, <1>2, <2>3, <2>4 DEF NewChain
  <2>6. \A x \in Procs : ~ proc'[x].orphan
    BY <2>2 DEF VerifiedInv, Off
  <2>7. QED
    BY <1>3, <2>5, <2>6
<1>5. CASE StartChild
  <2>1. lpc = "start" /\ lpc' = "read" /\ UNCHANGED <<disk, launcher>>
    BY <1>5 DEF StartChild
  <2>2. PICK x \in Procs : NewProcess(x)
    BY <1>5 DEF StartChild
  <2>3. /\ proc'[x] = Loading /\ hb' = x
        /\ \A y \in Procs : y # x => proc'[y] = proc[y]
    BY <2>1, <2>2, NewProcessType
  <2>4. \A y \in Procs : proc[y].pc = "off"
    BY <1>0, <1>1, <2>1 DEF NewChain, LifeInv, Vacant, Runs
  <2>5. key = {disk.chain} /\ disk.chain # 0
    BY <1>1, <2>1, NodeConstants DEF NewChain, TypeInv, ControlType
  <2>6. NewChain'
    BY <1>0, <1>1, <1>2, <2>1, <2>3, <2>4, <2>5, OffType DEF NewChain
  <2>7. \A y \in Procs : ~ proc'[y].orphan
    BY <2>3, OffType DEF VerifiedInv
  <2>8. QED
    BY <1>3, <2>6, <2>7
<1>6. QED
  BY <1>4, <1>5

LEMMA VerifiedInvNext == TypeInv /\ LifeInv /\ VerifiedInv /\ [Next]_vars => VerifiedInv'
<1> SUFFICES ASSUME TypeInv, LifeInv, VerifiedInv, [Next]_vars
             PROVE  VerifiedInv'
  OBVIOUS
<1>1. CASE \E x \in Procs : ProcStep(x) \/ SendFails(x)
  BY <1>1, SenderVerified
<1>2. CASE \E w \in Registrants : HandleKey(w) \/ GiveUp(w)
  BY <1>2, RegistrationVerified
<1>3. CASE CheckStatus
  BY <1>3, AckVerified
<1>4. CASE SetConfigOn \/ StopService \/ StopReturns \/ GoesDeaf
  BY <1>4, ManagerVerified
<1>5. CASE Leave \/ Prepare \/ StartChild
  BY <1>5, SupervisorVerified
<1>6. CASE Crash \/ \E k \in late : HandleLate(k)
  BY <1>6 DEF Crash, HandleLate, VerifiedInv
<1>7. CASE Restart
  BY <1>7 DEF Restart, VerifiedInv
<1>8. CASE \/ UNCHANGED vars \/ Deliver \/ TimePasses \/ MonitorNotices
           \/ \E t \in 0 .. 2 : WriteState(t)
  <2>1. UNCHANGED <<key, disk, proc, launcher, overtaken, hb, tcp, lpc>>
    BY <1>8 DEF Deliver, Accept, TimePasses, Age, MonitorNotices, DeclareDead, WriteState,
                vars, registry, entry, control, network
  <2>2. QED
    BY <2>1, VerifiedKept
<1>9. QED
  BY <1>1, <1>2, <1>3, <1>4, <1>5, <1>6, <1>7, <1>8 DEF Next, LaunchStep, Commands

\* A process sends heartbeats of the chain whose public key the server holds,
\* unless a late registration was handled or the launcher has ended
\* (heartbeat_client.py, heartbeat_monitor.py, start_winternitz.py).
THEOREM SendersAreVerified == Spec => []SenderIsVerified
<1>1. VerifiedInv => SenderIsVerified
  BY DEF VerifiedInv, OneChain, NewChain, SenderIsVerified
<1>2. QED
  BY <1>1, TypeInvariant, InitLifeInv, LifeInvNext, InitVerifiedInv, VerifiedInvNext, PTL
  DEF Spec
===============================================================================

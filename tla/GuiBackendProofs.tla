--------------------------- MODULE GuiBackendProofs ---------------------------
(***************************************************************************)
(* Theorems about GuiBackend for every set of pages, connections, requests *)
(* and entries, every buffer size and every bound.                         *)
(*                                                                         *)
(* The type of the variables is inductive only together with who waits for *)
(* which lock: a task is in a lock's queue, once, exactly while it is at a *)
(* step that asked for the lock.                                           *)
(***************************************************************************)
EXTENDS GuiBackend, TLAPS

-------------------------------------------------------------------------------
(* Queues.                                                                 *)

Members(q) == {q[i] : i \in 1 .. Len(q)}
Once(q) == \A i, j \in 1 .. Len(q) : q[i] = q[j] => i = j

\* A task that asks for a lock is one more member of its queue.
LEMMA OnAppend ==
    ASSUME NEW S, NEW q \in Seq(S), NEW x \in S
    PROVE  /\ Append(q, x) \in Seq(S) /\ Append(q, x) # <<>>
           /\ Members(Append(q, x)) = Members(q) \cup {x}
           /\ Once(q) /\ x \notin Members(q) => Once(Append(q, x))
           /\ q # <<>> => Head(Append(q, x)) = Head(q)
<1>1. /\ Len(q) \in Nat /\ Len(Append(q, x)) = Len(q) + 1
      /\ Append(q, x) \in Seq(S) /\ Append(q, x) # <<>>
      /\ \A i \in 1 .. Len(q) : Append(q, x)[i] = q[i]
      /\ Append(q, x)[Len(q) + 1] = x
      /\ q # <<>> => Head(Append(q, x)) = Head(q)
  <2>1. /\ Len(q) \in Nat /\ Len(Append(q, x)) = Len(q) + 1
        /\ Append(q, x) \in Seq(S)
        /\ \A i \in 1 .. Len(q) : Append(q, x)[i] = q[i]
        /\ Append(q, x)[Len(q) + 1] = x
    OBVIOUS
  <2>2. Append(q, x) # <<>>
    BY <2>1
  <2>3. ASSUME q # <<>> PROVE Head(Append(q, x)) = Head(q)
    <3>1. 1 \in 1 .. Len(q) /\ Head(q) = q[1]
      BY <2>3
    <3>2. Head(Append(q, x)) = Append(q, x)[1]
      BY <2>1, <2>2
    <3>3. QED
      BY <2>1, <3>1, <3>2
  <2>4. QED
    BY <2>1, <2>2, <2>3
<1>2. Members(Append(q, x)) = Members(q) \cup {x}
  BY <1>1 DEF Members
<1>3. Once(q) /\ x \notin Members(q) => Once(Append(q, x))
  BY <1>1 DEF Members, Once
<1>4. QED
  BY <1>1, <1>2, <1>3

\* The task that releases a lock leaves its queue.
LEMMA OnTail ==
    ASSUME NEW S, NEW q \in Seq(S), q # <<>>
    PROVE  /\ Tail(q) \in Seq(S) /\ Head(q) \in Members(q)
           /\ Members(q) = Members(Tail(q)) \cup {Head(q)}
           /\ Once(q) => Once(Tail(q)) /\ Head(q) \notin Members(Tail(q))
<1>1. /\ Len(q) \in Nat /\ Len(q) >= 1
      /\ Tail(q) \in Seq(S) /\ Len(Tail(q)) = Len(q) - 1 /\ Head(q) = q[1]
      /\ \A i \in 1 .. Len(q) - 1 : Tail(q)[i] = q[i + 1]
  OBVIOUS
<1>2. Members(q) = Members(Tail(q)) \cup {Head(q)}
  <2>1. ASSUME NEW i \in 1 .. Len(q)
        PROVE  q[i] \in Members(Tail(q)) \cup {Head(q)}
    <3>1. CASE i = 1
      BY <3>1, <1>1
    <3>2. CASE i # 1
      <4>1. i - 1 \in 1 .. Len(Tail(q)) /\ Tail(q)[i - 1] = q[i]
        BY <3>2, <1>1
      <4>2. QED
        BY <4>1 DEF Members
    <3>3. QED
      BY <3>1, <3>2
  <2>2. ASSUME NEW i \in 1 .. Len(Tail(q))
        PROVE  Tail(q)[i] \in Members(q)
    <3>1. i + 1 \in 1 .. Len(q) /\ Tail(q)[i] = q[i + 1]
      BY <1>1
    <3>2. QED
      BY <3>1 DEF Members
  <2>3. Head(q) \in Members(q)
    BY <1>1 DEF Members
  <2>4. QED
    BY <2>1, <2>2, <2>3 DEF Members
<1>3. Once(q) => Once(Tail(q)) /\ Head(q) \notin Members(Tail(q))
  BY <1>1 DEF Members, Once
<1>4. QED
  BY <1>1, <1>2, <1>3

\* A deque keeps its type and its maxlen.
LEMMA OnPush ==
    ASSUME NEW S, NEW q \in Seq(S), NEW x \in S, NEW max \in Nat \ {0},
           Len(q) <= max
    PROVE  Push(q, x, max) \in Seq(S) /\ Len(Push(q, x, max)) <= max
  BY DEF Push

\* Asking for a lock, and releasing it.
LEMMA Ask ==
    ASSUME NEW S, NEW q \in Seq(S), NEW x \in S, Once(q), x \notin Members(q)
    PROVE  /\ Append(q, x) \in Seq(S) /\ Once(Append(q, x))
           /\ Members(Append(q, x)) = Members(q) \cup {x}
  BY OnAppend

LEMMA Release ==
    ASSUME NEW S, NEW q \in Seq(S), NEW x, Once(q), Holds(q, x)
    PROVE  /\ Tail(q) \in Seq(S) /\ Once(Tail(q)) /\ x \in Members(q)
           /\ Members(Tail(q)) = Members(q) \ {x}
<1>1. q # <<>> /\ Head(q) = x
  BY DEF Holds
<1>2. QED
  BY <1>1, OnTail

-------------------------------------------------------------------------------
(* The tasks and the locks.                                                *)

\* Where a page that was never opened is, and who waits for the locks of the
\* log stream and of the snapshots.
PageOff == \A w \in Pages : page[w] = "off" => handler[w] = "none"

LogLocks ==
    /\ Once(log_buffer_lock) /\ Once(websocket_lock)
    /\ \A p \in Conns :
          /\ p \in Members(log_buffer_lock) <=> entry[p].step = "store"
          /\ p \in Members(websocket_lock) <=> entry[p].step = "send"
    /\ \A w \in LogPages :
          /\ w \in Members(log_buffer_lock) <=> handler[w] = "replay"
          /\ w \in Members(websocket_lock) <=> handler[w] \in {"activate", "leave"}

DbLock ==
    /\ Once(client_lock)
    /\ \A r \in Requests : r \in Members(client_lock) <=> fetch[r].table # 0
    /\ \A w \in DbPages :
          w \in Members(client_lock) <=> handler[w] \in {"register", "leave"}

\* The types, stream by stream.
PagesType ==
    /\ page \in [Pages -> {"off", "up", "down"}]
    /\ handler \in [Pages -> {"none", "activate", "register", "replay", "open",
                              "leave", "done"}]
    /\ outside \in 0 .. MaxOutside

LogsType ==
    /\ entry \in [Conns -> {Idle} \cup [step : {"store", "send"}, what : Entries]]
    /\ arrived \subseteq Entries
    /\ log_buffer \in Seq(Entries) /\ Len(log_buffer) <= MaxBuffer
    /\ log_buffer_lock \in Seq(Conns \cup LogPages)
    /\ websocket_lock \in Seq(Conns \cup LogPages)
    /\ active_websocket \in LogPages \cup {None}
    /\ replayed \in [LogPages -> Nat]
    /\ seen \in [LogPages -> SUBSET ({"log", "raw"} \X Entries)]
    /\ missed \in [LogPages -> SUBSET Entries]

TablesType ==
    /\ version \in [Tables -> Nat]
    /\ fetch \in [Requests -> [table : Tables \cup {0}, read : Nat,
                               told : SUBSET DbPages, failed : SUBSET DbPages]]
    /\ client_lock \in Seq(Requests \cup DbPages)
    /\ active_connections \subseteq DbPages
    /\ latest \in [DbPages -> [Tables -> Nat]]

NodesType ==
    /\ tailing \in BOOLEAN /\ lines \in Nat
    /\ history \in Seq(Nat) /\ Len(history) <= MaxHistory
    /\ subscribers \subseteq NodePages /\ addressed \subseteq NodePages
    /\ dead \subseteq NodePages
    /\ toReplay \in [NodePages -> Seq(Nat)] /\ received \in [NodePages -> Seq(Nat)]

ProcessesType ==
    /\ born \in Nat /\ tracked \in 1 .. born \cup {None}
    /\ servers \subseteq 1 .. born /\ stopping \subseteq servers

LogsInv == LogsType /\ LogLocks
TablesInv == TablesType /\ DbLock

TypeInv ==
    PagesType /\ PageOff /\ LogsInv /\ TablesInv /\ NodesType /\ ProcessesType

LEMMA TypeInvImplies == TypeInv => TypeOK
  BY DEF TypeInv, PagesType, LogsInv, LogsType, TablesInv, TablesType, NodesType,
         ProcessesType, TypeOK

\* Nothing waits in the beginning.
LEMMA InitTypeInv == Init => TypeInv
<1> SUFFICES ASSUME Init
             PROVE  TypeInv
  OBVIOUS
<1>0. /\ <<>> \in Seq(Entries) /\ <<>> \in Seq(Conns \cup LogPages)
      /\ <<>> \in Seq(Requests \cup DbPages) /\ <<>> \in Seq(Nat) /\ Len(<<>>) = 0
  OBVIOUS
<1>1. PagesType /\ PageOff
  BY GuiConstants DEF Init, PagesType, PageOff
<1>2. LogsInv
  <2>1. LogsType
    BY <1>0, GuiConstants DEF Init, LogsType
  <2>2. LogLocks
    BY DEF Init, LogLocks, Members, Once, Idle, Pages
  <2>3. QED
    BY <2>1, <2>2 DEF LogsInv
<1>3. TablesInv
  <2>1. TablesType
    BY <1>0 DEF Init, TablesType, NoFetch, Tables
  <2>2. DbLock
    BY DEF Init, DbLock, Members, Once, NoFetch, Pages
  <2>3. QED
    BY <2>1, <2>2 DEF TablesInv
<1>4. NodesType
  <2>1. tailing \in BOOLEAN
    BY DEF Init
  <2>2. /\ lines \in Nat /\ history \in Seq(Nat) /\ Len(history) <= MaxHistory
        /\ toReplay \in [NodePages -> Seq(Nat)] /\ received \in [NodePages -> Seq(Nat)]
    BY <1>0, GuiConstants DEF Init
  <2>3. QED
    BY <2>1, <2>2 DEF Init, NodesType
<1>5. ProcessesType
  BY DEF Init, ProcessesType
<1>6. QED
  BY <1>1, <1>2, <1>3, <1>4, <1>5 DEF TypeInv

-------------------------------------------------------------------------------
(* The steps, stream by stream.                                            *)

LogsStep ==
    \/ \E p \in Conns : StoreEntry(p) \/ SendEntry(p) \/ \E e \in Entries : Arrive(p, e)
    \/ \E w \in LogPages : OpenLogPage(w) \/ LogPageStep(w)
TablesStep ==
    \/ \E t \in Tables : Write(t)
    \/ \E r \in Requests : \/ Trigger(r) \/ BroadcastEnds(r)
                           \/ \E w \in DbPages : Broadcast(r, w)
    \/ \E w \in DbPages : OpenDbPage(w) \/ DbPageStep(w)
NodesStep ==
    \/ \E w \in NodePages : Subscribe(w) \/ NodePageStep(w) \/ Dispatch(w)
    \/ ReadLine \/ Prune
ProcessesStep == StartServer \/ StopServer \/ \E s \in servers : ServerEnds(s)
Close == \E w \in Pages : ClosePage(w)

LEMMA Steps ==
    Next => LogsStep \/ TablesStep \/ NodesStep \/ ProcessesStep \/ Close
  BY DEF Next, LogsStep, TablesStep, NodesStep, ProcessesStep, Close

\* A step of one stream leaves the other streams and their pages alone.
HandlersKept(S) == \A w \in S : handler'[w] = handler[w]
PagesKept(S) == \A w \in S : page'[w] = page[w]

LEMMA LogsStepAlone ==
    PagesType /\ LogsStep =>
        /\ UNCHANGED <<tables, nodes, processes>>
        /\ HandlersKept(DbPages \cup NodePages) /\ PagesKept(DbPages \cup NodePages)
  BY GuiConstants
  DEF LogsStep, StoreEntry, SendEntry, Arrive, OpenLogPage, LogPageStep, Activate,
      ReplayEntry, ReplayFails, ReplayEnds, NoticeLogPage, LeaveLogPage, Goes,
      HandlersKept, PagesKept, PagesType, Pages

LEMMA TablesStepAlone ==
    PagesType /\ TablesStep =>
        /\ UNCHANGED <<logs, nodes, processes>>
        /\ HandlersKept(LogPages \cup NodePages) /\ PagesKept(LogPages \cup NodePages)
  BY GuiConstants
  DEF TablesStep, Write, Trigger, BroadcastEnds, Broadcast, OpenDbPage, DbPageStep,
      Register, NoticeDbPage, LeaveDbPage, Goes, HandlersKept, PagesKept, PagesType,
      Pages

LEMMA NodesStepAlone ==
    PagesType /\ NodesStep =>
        /\ UNCHANGED <<logs, tables, processes>>
        /\ HandlersKept(LogPages \cup DbPages) /\ PagesKept(LogPages \cup DbPages)
  BY GuiConstants
  DEF NodesStep, Subscribe, NodePageStep, ReplayLine, DropDuringReplay, KeepAlive,
      Dispatch, ReadLine, Prune, Goes, HandlersKept, PagesKept, PagesType, Pages

LEMMA ProcessesStepAlone ==
    ProcessesStep => UNCHANGED <<page, handler, logs, tables, nodes>>
  BY DEF ProcessesStep, StartServer, StopServer, ServerEnds

LEMMA CloseAlone ==
    Close => UNCHANGED <<handler, logs, tables, nodes, processes>>
  BY DEF Close, ClosePage

-------------------------------------------------------------------------------
(* The types and the locks under every step.                               *)

\* Only a page that is opened for the first time leaves "off".
LEMMA PagesPreserved ==
    PagesType /\ PageOff /\ [Next]_vars => PagesType' /\ PageOff'
<1> SUFFICES ASSUME PagesType, PageOff, [Next]_vars
             PROVE  PagesType' /\ PageOff'
  OBVIOUS
<1> USE DEF PagesType, PageOff, Outside, Goes, Pages
<1>1. CASE LogsStep
  BY <1>1, GuiConstants
  DEF LogsStep, StoreEntry, SendEntry, Arrive, OpenLogPage, LogPageStep, Activate,
      ReplayEntry, ReplayFails, ReplayEnds, NoticeLogPage, LeaveLogPage
<1>2. CASE TablesStep
  <2>1. ASSUME NEW w \in DbPages, OpenDbPage(w) \/ DbPageStep(w)
        PROVE  PagesType' /\ PageOff'
    BY <2>1, GuiConstants DEF OpenDbPage, DbPageStep, Register, NoticeDbPage, LeaveDbPage
  <2>2. ASSUME UNCHANGED <<page, handler>>, outside' = outside \/ Outside
        PROVE  PagesType' /\ PageOff'
    BY <2>2, GuiConstants
  <2>3. ASSUME NEW r \in Requests, NEW w \in DbPages, Broadcast(r, w)
        PROVE  PagesType' /\ PageOff'
    BY <2>2, <2>3 DEF Broadcast
  <2>4. QED
    BY <1>2, <2>1, <2>2, <2>3 DEF TablesStep, Write, Trigger, BroadcastEnds
<1>3. CASE NodesStep
  BY <1>3, GuiConstants
  DEF NodesStep, Subscribe, NodePageStep, ReplayLine, DropDuringReplay, KeepAlive,
      Dispatch, ReadLine, Prune
<1>4. CASE ProcessesStep
  BY <1>4, GuiConstants DEF ProcessesStep, StartServer, StopServer, ServerEnds
<1>5. CASE Close
  BY <1>5, GuiConstants DEF Close, ClosePage
<1>6. CASE UNCHANGED vars
  BY <1>6 DEF vars
<1>7. QED
  BY <1>1, <1>2, <1>3, <1>4, <1>5, <1>6, Steps

LEMMA LogsKept ==
    LogsInv /\ UNCHANGED logs /\ HandlersKept(LogPages) => LogsInv'
  BY DEF LogsInv, LogsType, LogLocks, HandlersKept, logs

LEMMA TablesKept ==
    TablesInv /\ UNCHANGED tables /\ HandlersKept(DbPages) => TablesInv'
  BY DEF TablesInv, TablesType, DbLock, HandlersKept, tables

\* A page receives one more message.
LEMMA SeesType ==
    ASSUME NEW M, seen \in [LogPages -> SUBSET M], NEW w \in LogPages, NEW m \in M,
           Sees(w, m)
    PROVE  seen' \in [LogPages -> SUBSET M]
  BY DEF Sees

\* A connection or a page asks for a lock as it takes the step that needs it,
\* and releases it with the step that no longer does.
LEMMA LogsPreserved ==
    PagesType /\ PageOff /\ LogsInv /\ LogsStep => LogsInv'
<1> SUFFICES ASSUME PagesType, PageOff, LogsInv, LogsStep
             PROVE  LogsInv'
  OBVIOUS
<1> DEFINE S == Conns \cup LogPages
<1>0. /\ log_buffer_lock \in Seq(S) /\ Once(log_buffer_lock)
      /\ websocket_lock \in Seq(S) /\ Once(websocket_lock)
      /\ LogPages \subseteq Pages
  BY DEF LogsInv, LogsType, LogLocks, Pages
<1>1. ASSUME NEW p \in Conns, NEW e \in Entries, Arrive(p, e)
      PROVE  LogsInv'
  <2>1. p \notin Members(log_buffer_lock)
    BY <1>1 DEF LogsInv, LogLocks, Arrive, Idle
  <2>2. /\ log_buffer_lock' \in Seq(S) /\ Once(log_buffer_lock')
        /\ Members(log_buffer_lock') = Members(log_buffer_lock) \cup {p}
    BY <1>0, <1>1, <2>1, Ask DEF Arrive
  <2>3. LogsType'
    BY <1>1, <2>2 DEF LogsInv, LogsType, Arrive
  <2>4. LogLocks'
    BY <1>1, <2>2, GuiConstants DEF LogsInv, LogsType, LogLocks, Arrive, Idle
  <2>5. QED
    BY <2>3, <2>4 DEF LogsInv
<1>2. ASSUME NEW p \in Conns, StoreEntry(p)
      PROVE  LogsInv'
  <2>1. /\ log_buffer_lock' \in Seq(S) /\ Once(log_buffer_lock')
        /\ p \in Members(log_buffer_lock)
        /\ Members(log_buffer_lock') = Members(log_buffer_lock) \ {p}
    BY <1>0, <1>2, Release DEF StoreEntry
  <2>2. entry[p].step = "store" /\ entry[p].what \in Entries
    BY <2>1 DEF LogsInv, LogsType, LogLocks, Idle
  <2>3. /\ websocket_lock' \in Seq(S) /\ Once(websocket_lock')
        /\ Members(websocket_lock') = Members(websocket_lock) \cup {p}
    <3>1. p \notin Members(websocket_lock)
      BY <2>2 DEF LogsInv, LogLocks
    <3>2. QED
      BY <1>0, <1>2, <3>1, Ask DEF StoreEntry
  <2>4. log_buffer' \in Seq(Entries) /\ Len(log_buffer') <= MaxBuffer
    BY <1>2, <2>2, OnPush, GuiConstants DEF LogsInv, LogsType, StoreEntry
  <2>5. LogsType'
    <3>1. entry[p] \in [step : {"store", "send"}, what : Entries]
      BY <2>2 DEF LogsInv, LogsType, Idle
    <3>2. entry' \in [Conns -> {Idle} \cup [step : {"store", "send"}, what : Entries]]
      BY <1>2, <3>1 DEF LogsInv, LogsType, StoreEntry
    <3>3. QED
      BY <1>2, <2>1, <2>3, <2>4, <3>2 DEF LogsInv, LogsType, StoreEntry
  <2>6. LogLocks'
    BY <1>2, <2>1, <2>2, <2>3, GuiConstants
    DEF LogsInv, LogsType, LogLocks, StoreEntry
  <2>7. QED
    BY <2>5, <2>6 DEF LogsInv
<1>3. ASSUME NEW p \in Conns, SendEntry(p)
      PROVE  LogsInv'
  <2>1. /\ websocket_lock' \in Seq(S) /\ Once(websocket_lock')
        /\ p \in Members(websocket_lock)
        /\ Members(websocket_lock') = Members(websocket_lock) \ {p}
    BY <1>0, <1>3, Release DEF SendEntry
  <2>2. entry[p].step = "send" /\ entry[p].what \in Entries
    BY <2>1 DEF LogsInv, LogsType, LogLocks, Idle
  <2>3. /\ active_websocket' \in LogPages \cup {None}
        /\ seen' \in [LogPages -> SUBSET ({"log", "raw"} \X Entries)]
    <3>1. Live(entry[p].what) \in {"log", "raw"} \X Entries
      BY <2>2 DEF Live
    <3>2. /\ active_websocket' \in LogPages \cup {None}
          /\ \/ UNCHANGED seen
             \/ active_websocket \in LogPages /\ Sees(active_websocket, Live(entry[p].what))
      BY <1>3 DEF LogsInv, LogsType, SendEntry
    <3>3. QED
      BY <3>1, <3>2, SeesType DEF LogsInv, LogsType
  <2>4. LogsType'
    BY <1>3, <2>1, <2>3 DEF LogsInv, LogsType, SendEntry
  <2>5. LogLocks'
    BY <1>3, <2>1, <2>2, GuiConstants DEF LogsInv, LogsType, LogLocks, SendEntry, Idle
  <2>6. QED
    BY <2>4, <2>5 DEF LogsInv
<1>4. ASSUME NEW w \in LogPages, OpenLogPage(w)
      PROVE  LogsInv'
  <2>1. handler[w] = "none"
    BY <1>0, <1>4 DEF PageOff, OpenLogPage
  <2>2. /\ websocket_lock' \in Seq(S) /\ Once(websocket_lock')
        /\ Members(websocket_lock') = Members(websocket_lock) \cup {w}
    <3>1. w \notin Members(websocket_lock)
      BY <2>1 DEF LogsInv, LogLocks
    <3>2. QED
      BY <1>0, <1>4, <3>1, Ask DEF OpenLogPage
  <2>3. LogsType'
    BY <1>4, <2>2 DEF LogsInv, LogsType, OpenLogPage
  <2>4. LogLocks'
    BY <1>0, <1>4, <2>1, <2>2, GuiConstants
    DEF LogsInv, LogLocks, PagesType, OpenLogPage, Goes
  <2>5. QED
    BY <2>3, <2>4 DEF LogsInv
<1>5. ASSUME NEW w \in LogPages, Activate(w)
      PROVE  LogsInv'
  <2>1. /\ websocket_lock' \in Seq(S) /\ Once(websocket_lock')
        /\ Members(websocket_lock') = Members(websocket_lock) \ {w}
    BY <1>0, <1>5, Release DEF Activate
  <2>2. /\ log_buffer_lock' \in Seq(S) /\ Once(log_buffer_lock')
        /\ Members(log_buffer_lock') = Members(log_buffer_lock) \cup {w}
    <3>1. w \notin Members(log_buffer_lock)
      BY <1>5 DEF LogsInv, LogLocks, Activate
    <3>2. QED
      BY <1>0, <1>5, <3>1, Ask DEF Activate
  <2>3. LogsType'
    BY <1>5, <2>1, <2>2 DEF LogsInv, LogsType, Activate, BecomesActive
  <2>4. LogLocks'
    BY <1>0, <1>5, <2>1, <2>2, GuiConstants
    DEF LogsInv, LogLocks, PagesType, Activate, Goes
  <2>5. QED
    BY <2>3, <2>4 DEF LogsInv
<1>6. ASSUME NEW w \in LogPages, ReplayEntry(w)
      PROVE  LogsInv'
  <2>1. seen' \in [LogPages -> SUBSET ({"log", "raw"} \X Entries)]
    <3>1. replayed[w] + 1 \in 1 .. Len(log_buffer)
      BY <1>6 DEF LogsInv, LogsType, ReplayEntry
    <3>2. Raw(log_buffer[replayed[w] + 1]) \in {"log", "raw"} \X Entries
      BY <3>1 DEF LogsInv, LogsType, Raw
    <3>3. UNCHANGED seen \/ Sees(w, Raw(log_buffer[replayed[w] + 1]))
      BY <1>6 DEF ReplayEntry
    <3>4. QED
      BY <3>2, <3>3, SeesType DEF LogsInv, LogsType
  <2>2. LogsType'
    <3>1. replayed' \in [LogPages -> Nat]
      BY <1>6 DEF LogsInv, LogsType, ReplayEntry
    <3>2. UNCHANGED <<entry, arrived, log_buffer, log_buffer_lock, websocket_lock,
                      active_websocket, missed>>
      BY <1>6 DEF ReplayEntry
    <3>3. QED
      BY <2>1, <3>1, <3>2 DEF LogsInv, LogsType
  <2>3. LogLocks'
    BY <1>6 DEF LogsInv, LogLocks, ReplayEntry
  <2>4. QED
    BY <2>2, <2>3 DEF LogsInv
<1>7. ASSUME NEW w \in LogPages, ReplayFails(w) \/ ReplayEnds(w)
      PROVE  LogsInv'
  <2>1. /\ log_buffer_lock' \in Seq(S) /\ Once(log_buffer_lock')
        /\ Members(log_buffer_lock') = Members(log_buffer_lock) \ {w}
    <3>1. Holds(log_buffer_lock, w) /\ log_buffer_lock' = Tail(log_buffer_lock)
      BY <1>7 DEF ReplayFails, ReplayEnds
    <3>2. QED
      BY <1>0, <3>1, Release
  <2>2. LogsType'
    <3>1. UNCHANGED <<entry, arrived, log_buffer, websocket_lock, active_websocket,
                      replayed, seen, missed>>
      BY <1>7 DEF ReplayFails, ReplayEnds
    <3>2. QED
      BY <2>1, <3>1 DEF LogsInv, LogsType
  <2>3. LogLocks'
    BY <1>0, <1>7, <2>1, GuiConstants
    DEF LogsInv, LogLocks, PagesType, ReplayFails, ReplayEnds, Goes
  <2>4. QED
    BY <2>2, <2>3 DEF LogsInv
<1>8. ASSUME NEW w \in LogPages, NoticeLogPage(w)
      PROVE  LogsInv'
  <2>1. /\ websocket_lock' \in Seq(S) /\ Once(websocket_lock')
        /\ Members(websocket_lock') = Members(websocket_lock) \cup {w}
    <3>1. w \notin Members(websocket_lock)
      BY <1>8 DEF LogsInv, LogLocks, NoticeLogPage
    <3>2. QED
      BY <1>0, <1>8, <3>1, Ask DEF NoticeLogPage
  <2>2. LogsType'
    BY <1>8, <2>1 DEF LogsInv, LogsType, NoticeLogPage
  <2>3. LogLocks'
    BY <1>0, <1>8, <2>1, GuiConstants
    DEF LogsInv, LogLocks, PagesType, NoticeLogPage, Goes
  <2>4. QED
    BY <2>2, <2>3 DEF LogsInv
<1>9. ASSUME NEW w \in LogPages, LeaveLogPage(w)
      PROVE  LogsInv'
  <2>1. /\ websocket_lock' \in Seq(S) /\ Once(websocket_lock')
        /\ Members(websocket_lock') = Members(websocket_lock) \ {w}
    BY <1>0, <1>9, Release DEF LeaveLogPage
  <2>2. LogsType'
    BY <1>9, <2>1 DEF LogsInv, LogsType, LeaveLogPage
  <2>3. LogLocks'
    BY <1>0, <1>9, <2>1, GuiConstants
    DEF LogsInv, LogLocks, PagesType, LeaveLogPage, Goes
  <2>4. QED
    BY <2>2, <2>3 DEF LogsInv
<1>10. QED
  BY <1>1, <1>2, <1>3, <1>4, <1>5, <1>6, <1>7, <1>8, <1>9 DEF LogsStep, LogPageStep

\* A request waits for the clients while it has a snapshot to broadcast.
LEMMA ReadFromWaits ==
    ASSUME TablesInv, NEW r \in Requests, NEW tried \in SUBSET Tables,
           ReadFrom(r, tried),
           IF tried = {} THEN r \notin Members(client_lock) ELSE Holds(client_lock, r)
    PROVE  /\ fetch' \in [Requests -> [table : Tables \cup {0}, read : Nat,
                                       told : SUBSET DbPages, failed : SUBSET DbPages]]
           /\ client_lock' \in Seq(Requests \cup DbPages) /\ Once(client_lock')
           /\ \A q \in Requests : q # r => fetch'[q] = fetch[q]
           /\ Members(client_lock') =
                  IF fetch'[r].table = 0 THEN Members(client_lock) \ {r}
                  ELSE Members(client_lock) \cup {r}
<1> DEFINE S == Requests \cup DbPages
           L == IF tried = {} THEN client_lock ELSE Tail(client_lock)
<1>1. client_lock \in Seq(S) /\ Once(client_lock)
  BY DEF TablesInv, TablesType, DbLock
<1>2. /\ L \in Seq(S) /\ Once(L) /\ r \notin Members(L)
      /\ Members(client_lock) \ {r} = Members(L)
  <2>1. CASE tried = {}
    BY <1>1, <2>1
  <2>2. CASE tried # {}
    BY <1>1, <2>2, Release
  <2>3. QED
    BY <2>1, <2>2
<1>3. /\ Append(L, r) \in Seq(S) /\ Once(Append(L, r))
      /\ Members(Append(L, r)) = Members(L) \cup {r}
  <2> HIDE DEF L
  <2>1. QED
    BY <1>2, Ask
<1>4. CASE /\ fetch' = [fetch EXCEPT ![r] = NoFetch]
           /\ client_lock' = L
  <2>1. fetch'[r].table = 0
    BY <1>4 DEF TablesInv, TablesType, NoFetch
  <2>2. QED
    BY <1>2, <1>4, <2>1 DEF TablesInv, TablesType, NoFetch
<1>5. ASSUME NEW t \in Tables,
             fetch' = [fetch EXCEPT ![r] = [table |-> t, read |-> version[t],
                                            told |-> {}, failed |-> {}]],
             client_lock' = Append(L, r)
      PROVE  /\ fetch' \in [Requests -> [table : Tables \cup {0}, read : Nat,
                                       told : SUBSET DbPages, failed : SUBSET DbPages]]
             /\ client_lock' \in Seq(S) /\ Once(client_lock')
             /\ \A q \in Requests : q # r => fetch'[q] = fetch[q]
             /\ fetch'[r].table # 0 /\ Members(client_lock') = Members(client_lock) \cup {r}
  <2>1. fetch'[r].table = t /\ t # 0
    BY <1>5 DEF TablesInv, TablesType, Tables
  <2>2. version[t] \in Nat
    BY DEF TablesInv, TablesType
  <2>3. QED
    BY <1>2, <1>3, <1>5, <2>1, <2>2 DEF TablesInv, TablesType
<1>6. QED
  BY <1>4, <1>5 DEF ReadFrom

\* What a send of a broadcast changes: the pages it is done with, and at most
\* the snapshot that one page shows.
LEMMA BroadcastFetch ==
    ASSUME TablesInv, NEW r \in Requests, NEW w \in DbPages, Broadcast(r, w)
    PROVE  \E c \in [table : Tables \cup {0}, read : Nat, told : SUBSET DbPages,
                     failed : SUBSET DbPages] :
               /\ c.table = fetch[r].table /\ c.read = fetch[r].read
               /\ fetch' = [fetch EXCEPT ![r] = c]
<1> DEFINE b == [fetch[r] EXCEPT !.told = @ \cup {w}]
           R == [table : Tables \cup {0}, read : Nat, told : SUBSET DbPages,
                 failed : SUBSET DbPages]
<1>1. fetch[r] \in R
  BY DEF TablesInv, TablesType
<1>2. b \in R /\ b.table = fetch[r].table /\ b.read = fetch[r].read
  BY <1>1
<1>3. \/ fetch' = [fetch EXCEPT ![r] = b]
      \/ fetch' = [fetch EXCEPT ![r] = [b EXCEPT !.failed = @ \cup {w}]]
  BY DEF Broadcast
<1> HIDE DEF b
<1> DEFINE c == [b EXCEPT !.failed = @ \cup {w}]
<1>4. c \in R /\ c.table = fetch[r].table /\ c.read = fetch[r].read
  BY <1>2
<1>5. QED
  BY <1>2, <1>3, <1>4

LEMMA BroadcastLatest ==
    ASSUME TablesInv, NEW r \in Requests, NEW w \in DbPages, Broadcast(r, w)
    PROVE  \/ latest' = latest
           \/ latest' = [latest EXCEPT ![w][fetch[r].table] = fetch[r].read]
<1> DEFINE b == [fetch[r] EXCEPT !.told = @ \cup {w}]
<1>1. b.table = fetch[r].table /\ b.read = fetch[r].read
  BY DEF TablesInv, TablesType
<1>2. latest' = latest \/ latest' = [latest EXCEPT ![w][b.table] = b.read]
  BY DEF Broadcast
<1>3. QED
  BY <1>1, <1>2

LEMMA TablesPreserved ==
    PagesType /\ PageOff /\ TablesInv /\ TablesStep => TablesInv'
<1> SUFFICES ASSUME PagesType, PageOff, TablesInv, TablesStep
             PROVE  TablesInv'
  OBVIOUS
<1> DEFINE S == Requests \cup DbPages
<1>0. /\ client_lock \in Seq(S) /\ Once(client_lock) /\ DbPages \subseteq Pages
  BY DEF TablesInv, TablesType, DbLock, Pages
<1>1. ASSUME NEW t \in Tables, Write(t)
      PROVE  TablesInv'
  BY <1>1 DEF TablesInv, TablesType, DbLock, Write
<1>2. ASSUME NEW r \in Requests, Trigger(r)
      PROVE  TablesInv'
  <2>1. r \notin Members(client_lock)
    BY <1>2 DEF TablesInv, DbLock, Trigger, NoFetch
  <2>2. ReadFrom(r, {}) /\ UNCHANGED <<handler, version, active_connections, latest>>
    BY <1>2 DEF Trigger
  <2>3. TablesType'
    BY <2>1, <2>2, ReadFromWaits DEF TablesInv, TablesType
  <2>4. DbLock'
    BY <2>1, <2>2, ReadFromWaits, GuiConstants DEF TablesInv, DbLock
  <2>5. QED
    BY <2>3, <2>4 DEF TablesInv
<1>3. ASSUME NEW r \in Requests, BroadcastEnds(r)
      PROVE  TablesInv'
  <2>1. Holds(client_lock, r) /\ r \in Members(client_lock) /\ fetch[r].table \in Tables
    BY <1>0, <1>3, Release DEF TablesInv, TablesType, DbLock, BroadcastEnds
  <2>2. /\ 1 .. fetch[r].table \in SUBSET Tables /\ 1 .. fetch[r].table # {}
        /\ ReadFrom(r, 1 .. fetch[r].table)
        /\ UNCHANGED <<handler, version, latest>>
    BY <1>3, <2>1 DEF BroadcastEnds, Tables
  <2>3. TablesType'
    BY <1>3, <2>1, <2>2, ReadFromWaits DEF TablesInv, TablesType, BroadcastEnds
  <2>4. DbLock'
    BY <2>1, <2>2, ReadFromWaits, GuiConstants DEF TablesInv, DbLock
  <2>5. QED
    BY <2>3, <2>4 DEF TablesInv
<1>4. ASSUME NEW r \in Requests, NEW w \in DbPages, Broadcast(r, w)
      PROVE  TablesInv'
  <2>1. PICK c \in [table : Tables \cup {0}, read : Nat, told : SUBSET DbPages,
                    failed : SUBSET DbPages] :
            /\ c.table = fetch[r].table /\ c.read = fetch[r].read
            /\ fetch' = [fetch EXCEPT ![r] = c]
    BY <1>4, BroadcastFetch
  <2>2. latest' \in [DbPages -> [Tables -> Nat]]
    <3>1. r \in Members(client_lock)
      BY <1>0, <1>4, Release DEF Broadcast
    <3>2. fetch[r].table \in Tables /\ fetch[r].read \in Nat
      BY <3>1 DEF TablesInv, TablesType, DbLock
    <3>3. \/ latest' = latest
          \/ latest' = [latest EXCEPT ![w][fetch[r].table] = fetch[r].read]
      BY <1>4, BroadcastLatest
    <3>4. latest \in [DbPages -> [Tables -> Nat]]
      BY DEF TablesInv, TablesType
    <3>5. QED
      BY <3>2, <3>3, <3>4
  <2>3. UNCHANGED <<handler, version, client_lock, active_connections>>
    BY <1>4 DEF Broadcast
  <2>4. TablesType'
    BY <2>1, <2>2, <2>3 DEF TablesInv, TablesType
  <2>5. DbLock'
    BY <2>1, <2>3 DEF TablesInv, TablesType, DbLock
  <2>6. QED
    BY <2>4, <2>5 DEF TablesInv
<1>5. ASSUME NEW w \in DbPages, OpenDbPage(w) \/ NoticeDbPage(w)
      PROVE  TablesInv'
  <2>1. /\ handler[w] \in {"none", "open"}
        /\ \E where \in {"register", "leave"} : Goes(w, where)
        /\ client_lock' = Append(client_lock, w)
        /\ UNCHANGED <<version, fetch, active_connections, latest>>
    BY <1>0, <1>5 DEF PageOff, OpenDbPage, NoticeDbPage
  <2>2. /\ client_lock' \in Seq(S) /\ Once(client_lock')
        /\ Members(client_lock') = Members(client_lock) \cup {w}
    <3>1. w \notin Members(client_lock)
      BY <2>1 DEF TablesInv, DbLock
    <3>2. QED
      BY <1>0, <2>1, <3>1, Ask
  <2>3. TablesType'
    BY <2>1, <2>2 DEF TablesInv, TablesType
  <2>4. DbLock'
    BY <1>0, <2>1, <2>2, GuiConstants DEF TablesInv, DbLock, PagesType, Goes
  <2>5. QED
    BY <2>3, <2>4 DEF TablesInv
<1>6. ASSUME NEW w \in DbPages, Register(w) \/ LeaveDbPage(w)
      PROVE  TablesInv'
  <2>1. /\ \E where \in {"open", "done"} : Goes(w, where)
        /\ Holds(client_lock, w) /\ client_lock' = Tail(client_lock)
        /\ active_connections' \subseteq active_connections \cup {w}
        /\ UNCHANGED <<version, fetch, latest>>
    BY <1>6 DEF Register, LeaveDbPage
  <2>2. /\ client_lock' \in Seq(S) /\ Once(client_lock')
        /\ Members(client_lock') = Members(client_lock) \ {w}
    BY <1>0, <2>1, Release
  <2>3. TablesType'
    BY <2>1, <2>2 DEF TablesInv, TablesType
  <2>4. DbLock'
    BY <1>0, <2>1, <2>2, GuiConstants DEF TablesInv, DbLock, PagesType, Goes
  <2>5. QED
    BY <2>3, <2>4 DEF TablesInv
<1>7. QED
  BY <1>1, <1>2, <1>3, <1>4, <1>5, <1>6 DEF TablesStep, DbPageStep

\* The lines of the log, and the servers.
LEMMA NodesPreserved ==
    NodesType /\ NodesStep => NodesType'
<1> SUFFICES ASSUME NodesType, NodesStep
             PROVE  NodesType'
  OBVIOUS
<1>1. ASSUME NEW w \in NodePages, Subscribe(w)
      PROVE  NodesType'
  <2>1. tailing' \in BOOLEAN
    BY <1>1 DEF Subscribe
  <2>2. toReplay' \in [NodePages -> Seq(Nat)] /\ subscribers' \subseteq NodePages
    BY <1>1 DEF NodesType, Subscribe
  <2>3. UNCHANGED <<lines, history, addressed, dead, received>>
    BY <1>1 DEF Subscribe
  <2>4. QED
    BY <2>1, <2>2, <2>3 DEF NodesType
<1>2. ASSUME NEW w \in NodePages, ReplayLine(w)
      PROVE  NodesType'
  <2>1. toReplay[w] \in Seq(Nat) /\ toReplay[w] # <<>>
    BY <1>2 DEF NodesType, ReplayLine
  <2>2. Head(toReplay[w]) \in Nat /\ Tail(toReplay[w]) \in Seq(Nat)
    BY <2>1
  <2>3. toReplay' \in [NodePages -> Seq(Nat)]
    BY <1>2, <2>2 DEF NodesType, ReplayLine
  <2>4. received' \in [NodePages -> Seq(Nat)]
    BY <1>2, <2>2 DEF NodesType, ReplayLine, Receives
  <2>5. QED
    BY <1>2, <2>3, <2>4 DEF NodesType, ReplayLine
<1>3. ASSUME NEW w \in NodePages, DropDuringReplay(w) \/ KeepAlive(w)
      PROVE  NodesType'
  <2>1. CASE DropDuringReplay(w)
    <3>1. /\ UNCHANGED <<tailing, lines, history, addressed, dead, received>>
          /\ subscribers' \subseteq subscribers
          /\ toReplay' = [toReplay EXCEPT ![w] = <<>>]
      BY <2>1 DEF DropDuringReplay
    <3>2. toReplay' \in [NodePages -> Seq(Nat)]
      BY <3>1 DEF NodesType
    <3>3. QED
      BY <3>1, <3>2 DEF NodesType
  <2>2. CASE KeepAlive(w)
    <3>1. UNCHANGED nodes
      BY <2>2 DEF KeepAlive
    <3>2. QED
      BY <3>1 DEF NodesType, nodes
  <2>3. QED
    BY <1>3, <2>1, <2>2
<1>4. ASSUME NEW w \in NodePages, Dispatch(w)
      PROVE  NodesType'
  <2>1. received' \in [NodePages -> Seq(Nat)]
    BY <1>4 DEF NodesType, Dispatch, Receives
  <2>2. QED
    BY <1>4, <2>1 DEF NodesType, Dispatch
<1>5. CASE ReadLine
  <2>1. lines' \in Nat /\ lines' = lines + 1
    BY <1>5 DEF NodesType, ReadLine
  <2>2. history' \in Seq(Nat) /\ Len(history') <= MaxHistory
    BY <1>5, <2>1, OnPush, GuiConstants DEF NodesType, ReadLine
  <2>3. /\ UNCHANGED <<tailing, subscribers, dead, toReplay, received>>
        /\ addressed' = subscribers
    BY <1>5 DEF ReadLine
  <2>4. QED
    BY <2>1, <2>2, <2>3 DEF NodesType
<1>6. CASE Prune
  <2>1. /\ UNCHANGED <<tailing, lines, history, addressed, toReplay, received>>
        /\ subscribers' \subseteq subscribers /\ dead' = {}
    BY <1>6 DEF Prune
  <2>2. QED
    BY <2>1 DEF NodesType
<1>7. QED
  BY <1>1, <1>2, <1>3, <1>4, <1>5, <1>6 DEF NodesStep, NodePageStep

LEMMA ProcessesPreserved ==
    ProcessesType /\ ProcessesStep => ProcessesType'
<1> SUFFICES ASSUME ProcessesType, ProcessesStep
             PROVE  ProcessesType'
  OBVIOUS
<1>1. CASE StartServer
  <2>1. CASE born' = born + 1 /\ tracked' = born' /\ servers' = servers \cup {born'}
                /\ UNCHANGED stopping
    BY <2>1 DEF ProcessesType
  <2>2. CASE tracked' = None /\ UNCHANGED <<servers, stopping, born>>
    BY <2>2 DEF ProcessesType
  <2>3. CASE UNCHANGED processes
    BY <2>3 DEF ProcessesType, processes
  <2>4. QED
    BY <1>1, <2>1, <2>2, <2>3 DEF StartServer
<1>2. CASE StopServer
  BY <1>2 DEF ProcessesType, StopServer
<1>3. ASSUME NEW s \in servers, ServerEnds(s)
      PROVE  ProcessesType'
  BY <1>3 DEF ProcessesType, ServerEnds
<1>4. QED
  BY <1>1, <1>2, <1>3 DEF ProcessesStep

LEMMA TypeInvNext == TypeInv /\ [Next]_vars => TypeInv'
<1> SUFFICES ASSUME TypeInv, [Next]_vars
             PROVE  TypeInv'
  OBVIOUS
<1> USE DEF TypeInv
<1>0. PagesType' /\ PageOff'
  BY PagesPreserved
<1>1. CASE LogsStep
  <2>1. UNCHANGED <<tables, nodes, processes>> /\ HandlersKept(DbPages)
    BY <1>1, LogsStepAlone DEF HandlersKept
  <2>2. NodesType' /\ ProcessesType'
    BY <2>1 DEF nodes, processes, NodesType, ProcessesType
  <2>3. QED
    BY <1>0, <1>1, <2>1, <2>2, LogsPreserved, TablesKept
<1>2. CASE TablesStep
  <2>1. UNCHANGED <<logs, nodes, processes>> /\ HandlersKept(LogPages)
    BY <1>2, TablesStepAlone DEF HandlersKept
  <2>2. NodesType' /\ ProcessesType'
    BY <2>1 DEF nodes, processes, NodesType, ProcessesType
  <2>3. QED
    BY <1>0, <1>2, <2>1, <2>2, TablesPreserved, LogsKept
<1>3. CASE NodesStep
  <2>1. UNCHANGED <<logs, tables, processes>> /\ HandlersKept(LogPages) /\ HandlersKept(DbPages)
    BY <1>3, NodesStepAlone DEF HandlersKept
  <2>2. ProcessesType'
    BY <2>1 DEF processes, ProcessesType
  <2>3. QED
    BY <1>0, <1>3, <2>1, <2>2, NodesPreserved, LogsKept, TablesKept
<1>4. CASE ProcessesStep \/ Close \/ UNCHANGED vars
  <2>1. UNCHANGED <<handler, logs, tables, nodes>>
    BY <1>4, ProcessesStepAlone, CloseAlone DEF vars
  <2>2. HandlersKept(LogPages) /\ HandlersKept(DbPages)
    BY <2>1 DEF HandlersKept
  <2>3. NodesType'
    BY <2>1 DEF nodes, NodesType
  <2>4. ProcessesType'
    BY <1>4, ProcessesPreserved, CloseAlone DEF vars, processes, ProcessesType
  <2>5. QED
    BY <1>0, <2>1, <2>2, <2>3, <2>4, LogsKept, TablesKept
<1>5. QED
  BY <1>1, <1>2, <1>3, <1>4, Steps

\* In every state the variables have the types the code gives them, and the
\* two deques keep their maxlen.
THEOREM TypeCorrect == Spec => []TypeOK
<1>1. Spec => []TypeInv
  BY InitTypeInv, TypeInvNext, PTL DEF Spec
<1>2. QED
  BY <1>1, TypeInvImplies, PTL

LEMMA TypeInvAlways == Spec => []TypeInv
  BY InitTypeInv, TypeInvNext, PTL DEF Spec

-------------------------------------------------------------------------------
(* The active page.                                                        *)

\* Only a page that was lost leaves.
LeaverIsDown == \A w \in LogPages : handler[w] = "leave" => page[w] = "down"

LEMMA LeaverIsDownNext ==
    TypeInv /\ LeaverIsDown /\ [Next]_vars => LeaverIsDown'
<1> SUFFICES ASSUME TypeInv, LeaverIsDown, [Next]_vars
             PROVE  LeaverIsDown'
  OBVIOUS
<1>0. PagesType /\ LogPages \subseteq Pages
  BY DEF TypeInv, Pages
<1>1. CASE LogsStep
  <2>1. ASSUME NEW w \in LogPages, OpenLogPage(w)
        PROVE  LeaverIsDown'
    BY <1>0, <2>1 DEF LeaverIsDown, PagesType, OpenLogPage, Goes
  <2>2. ASSUME NEW w \in LogPages, LogPageStep(w)
        PROVE  LeaverIsDown'
    BY <1>0, <2>2
    DEF LeaverIsDown, PagesType, LogPageStep, Activate, ReplayEntry, ReplayFails,
        ReplayEnds, NoticeLogPage, LeaveLogPage, Goes
  <2>3. CASE UNCHANGED <<page, handler>>
    BY <2>3 DEF LeaverIsDown
  <2>4. QED
    BY <1>1, <2>1, <2>2, <2>3 DEF LogsStep, StoreEntry, SendEntry, Arrive
<1>2. CASE TablesStep \/ NodesStep
  <2>1. HandlersKept(LogPages) /\ PagesKept(LogPages)
    BY <1>0, <1>2, TablesStepAlone, NodesStepAlone DEF HandlersKept, PagesKept
  <2>2. QED
    BY <2>1 DEF LeaverIsDown, HandlersKept, PagesKept
<1>3. CASE Close
  BY <1>0, <1>3 DEF LeaverIsDown, PagesType, Close, ClosePage
<1>4. CASE ProcessesStep \/ UNCHANGED vars
  BY <1>4, ProcessesStepAlone DEF LeaverIsDown, vars
<1>5. QED
  BY <1>1, <1>2, <1>3, <1>4, Steps

LEMMA ActiveStays ==
    ASSUME TypeInv, LeaverIsDown, [Next]_vars,
           NEW w \in LogPages, active_websocket = w, page[w] = "up",
           active_websocket' # w
    PROVE  \E v \in LogPages : active_websocket' = v /\ handler[v] = "activate"
<1>0. None \notin LogPages
  BY GuiConstants DEF Pages
<1>1. ASSUME NEW p \in Conns, SendEntry(p)
      PROVE  UNCHANGED active_websocket
  BY <1>0, <1>1 DEF SendEntry
<1>2. ASSUME NEW v \in LogPages, LeaveLogPage(v)
      PROVE  UNCHANGED active_websocket
  <2>1. v # w
    BY <1>2 DEF LeaveLogPage, LeaverIsDown
  <2>2. QED
    BY <1>2, <2>1 DEF LeaveLogPage
<1>3. ASSUME NEW v \in LogPages, Activate(v)
      PROVE  active_websocket' = v /\ handler[v] = "activate"
  BY <1>3 DEF Activate, BecomesActive
<1>4. CASE LogsStep
  BY <1>1, <1>2, <1>3, <1>4
  DEF LogsStep, StoreEntry, Arrive, OpenLogPage, LogPageStep, ReplayEntry,
      ReplayFails, ReplayEnds, NoticeLogPage
<1>5. UNCHANGED logs => UNCHANGED active_websocket
  BY DEF logs
<1>6. QED
  BY <1>4, <1>5, Steps, TablesStepAlone, NodesStepAlone, ProcessesStepAlone, CloseAlone
  DEF TypeInv, vars

\* A page that is open and active stays active until a newer page, one that is
\* just becoming active, takes its place: a page unsets the active one only if
\* that is itself, and it leaves only after it was lost; a failed send unsets
\* only the page it was for.
THEOREM ActiveIsKept == Spec => ReplacedOnlyByNewer
<1> DEFINE Kept == \A w \in LogPages :
              active_websocket = w /\ page[w] = "up" /\ active_websocket' # w =>
                  \E v \in LogPages : active_websocket' = v /\ handler[v] = "activate"
<1>1. Init => LeaverIsDown
  BY DEF Init, LeaverIsDown, Pages
<1>2. Spec => []LeaverIsDown
  BY <1>1, LeaverIsDownNext, TypeInvAlways, PTL DEF Spec
<1>3. TypeInv /\ LeaverIsDown /\ [Next]_vars => [Kept]_vars
  BY ActiveStays
<1>4. QED
  BY <1>2, <1>3, TypeInvAlways, PTL DEF Spec, ReplacedOnlyByNewer

-------------------------------------------------------------------------------
(* The snapshots.                                                          *)
(*                                                                         *)
(* A request joins client_lock with the snapshot it has just read, so the  *)
(* snapshots of a table are queued in the order they were read, and none   *)
(* of them is older than what a page already shows.                        *)

\* q is the queue, f the requests, v the versions and l what the pages show.
InOrder(q, f, v, l) ==
    /\ \A i \in 1 .. Len(q) : \A t \in Tables :
          q[i] \in Requests /\ f[q[i]].table = t =>
              /\ f[q[i]].read <= v[t]
              /\ \A w \in DbPages : l[w][t] <= f[q[i]].read
    /\ \A i, j \in 1 .. Len(q) :
          /\ i < j /\ q[i] \in Requests /\ q[j] \in Requests
          /\ f[q[i]].table = f[q[j]].table
          => f[q[i]].read <= f[q[j]].read
    /\ \A w \in DbPages, t \in Tables : l[w][t] <= v[t]

SnapshotInv == InOrder(client_lock, fetch, version, latest)

LEMMA InOrderTail ==
    ASSUME NEW S, NEW q \in Seq(S), q # <<>>, NEW f, NEW v, NEW l, InOrder(q, f, v, l)
    PROVE  InOrder(Tail(q), f, v, l)
<1>1. /\ Len(q) \in Nat /\ Len(Tail(q)) = Len(q) - 1
      /\ \A i \in 1 .. Len(q) - 1 : Tail(q)[i] = q[i + 1] /\ i + 1 \in 1 .. Len(q)
  OBVIOUS
<1>2. QED
  BY <1>1 DEF InOrder

\* A page, or a request with a snapshot that is as new as its table.
LEMMA InOrderAppend ==
    ASSUME NEW S, NEW q \in Seq(S), NEW x \in S, NEW f, NEW l,
           NEW v \in [Tables -> Nat], InOrder(q, f, v, l),
           x \in Requests => f[x].table \in Tables /\ f[x].read = v[f[x].table]
    PROVE  InOrder(Append(q, x), f, v, l)
<1>1. /\ Len(q) \in Nat /\ Len(Append(q, x)) = Len(q) + 1
      /\ \A i \in 1 .. Len(q) : Append(q, x)[i] = q[i]
      /\ Append(q, x)[Len(q) + 1] = x
  OBVIOUS
<1> DEFINE a == Append(q, x)
<1> HIDE DEF a
<1>2. /\ Len(a) = Len(q) + 1 /\ a[Len(q) + 1] = x
      /\ \A i \in 1 .. Len(q) : a[i] = q[i]
  BY <1>1 DEF a
<1>3. ASSUME NEW i \in 1 .. Len(a), NEW t \in Tables,
             a[i] \in Requests, f[a[i]].table = t
      PROVE  f[a[i]].read <= v[t] /\ \A w \in DbPages : l[w][t] <= f[a[i]].read
  <2>1. CASE i \in 1 .. Len(q)
    BY <1>2, <1>3, <2>1 DEF InOrder
  <2>2. CASE i = Len(q) + 1
    BY <1>2, <1>3, <2>2 DEF InOrder
  <2>3. QED
    BY <1>1, <1>2, <2>1, <2>2
<1>4. ASSUME NEW i \in 1 .. Len(a), NEW j \in 1 .. Len(a), i < j,
             a[i] \in Requests, a[j] \in Requests, f[a[i]].table = f[a[j]].table
      PROVE  f[a[i]].read <= f[a[j]].read
  <2>1. i \in 1 .. Len(q)
    BY <1>1, <1>2, <1>4
  <2>2. CASE j \in 1 .. Len(q)
    BY <1>2, <1>4, <2>1, <2>2 DEF InOrder
  <2>3. CASE j = Len(q) + 1
    BY <1>2, <1>4, <2>1, <2>3 DEF InOrder
  <2>4. QED
    BY <1>1, <1>2, <2>2, <2>3
<1>5. InOrder(a, f, v, l)
  BY <1>3, <1>4 DEF InOrder
<1>6. QED
  BY <1>5 DEF a

\* What a request that does not wait holds does not matter.
LEMMA InOrderOther ==
    ASSUME NEW q, NEW f, NEW g, NEW v, NEW l, InOrder(q, f, v, l), NEW r,
           r \notin Members(q), \A o \in Requests : o # r => g[o] = f[o]
    PROVE  InOrder(q, g, v, l)
<1>1. \A i \in 1 .. Len(q) : q[i] \in Requests => g[q[i]] = f[q[i]]
  BY DEF Members
<1>2. QED
  BY <1>1 DEF InOrder

\* A request that reads joins the queue behind the ones that read before it.
LEMMA ReadFromInOrder ==
    ASSUME TablesInv, SnapshotInv, NEW r \in Requests, NEW tried \in SUBSET Tables,
           ReadFrom(r, tried), UNCHANGED <<version, latest>>,
           IF tried = {} THEN r \notin Members(client_lock) ELSE Holds(client_lock, r)
    PROVE  SnapshotInv'
<1> DEFINE S == Requests \cup DbPages
           L == IF tried = {} THEN client_lock ELSE Tail(client_lock)
<1>1. client_lock \in Seq(S) /\ Once(client_lock) /\ version \in [Tables -> Nat]
  BY DEF TablesInv, TablesType, DbLock
<1>2. L \in Seq(S) /\ r \notin Members(L) /\ InOrder(L, fetch, version, latest)
  <2>1. CASE tried = {}
    BY <1>1, <2>1 DEF SnapshotInv
  <2>2. CASE tried # {}
    <3>1. client_lock # <<>>
      BY <2>2 DEF Holds
    <3>2. QED
      BY <1>1, <2>2, <3>1, Release, InOrderTail DEF SnapshotInv
  <2>3. QED
    BY <2>1, <2>2
<1>3. \A o \in Requests : o # r => fetch'[o] = fetch[o]
  BY ReadFromWaits
<1> HIDE DEF L
<1>4. InOrder(L, fetch', version, latest)
  BY <1>2, <1>3, InOrderOther
<1>5. CASE client_lock' = L
  BY <1>4, <1>5 DEF SnapshotInv
<1>6. ASSUME NEW t \in Tables, client_lock' = Append(L, r),
             fetch' = [fetch EXCEPT ![r] = [table |-> t, read |-> version[t],
                                            told |-> {}, failed |-> {}]]
      PROVE  SnapshotInv'
  <2>1. fetch'[r].table = t /\ fetch'[r].read = version[t]
    BY <1>6 DEF TablesInv, TablesType
  <2>2. InOrder(Append(L, r), fetch', version, latest)
    BY <1>1, <1>2, <1>4, <2>1, InOrderAppend
  <2>3. QED
    BY <1>6, <2>2 DEF SnapshotInv
<1>7. QED
  BY <1>5, <1>6 DEF ReadFrom, L

\* A send of the first in the queue shows a snapshot that is neither older
\* than what the page shows nor newer than what the queue holds.
LEMMA BroadcastInOrder ==
    ASSUME TablesInv, SnapshotInv, NEW r \in Requests, NEW w \in DbPages,
           Broadcast(r, w)
    PROVE  /\ SnapshotInv'
           /\ \A x \in DbPages, t \in Tables : latest[x][t] <= latest'[x][t]
<1>1. PICK c : /\ c.table = fetch[r].table /\ c.read = fetch[r].read
               /\ fetch' = [fetch EXCEPT ![r] = c]
  BY BroadcastFetch
<1>2. /\ client_lock \in Seq(Requests \cup DbPages) /\ Holds(client_lock, r)
      /\ UNCHANGED <<client_lock, version>>
  BY DEF TablesInv, TablesType, Broadcast
<1>3. 1 \in 1 .. Len(client_lock) /\ client_lock[1] = r /\ r \in Members(client_lock)
  BY <1>2 DEF Holds, Members
<1>4. fetch[r].table \in Tables /\ fetch[r].read \in Nat
  BY <1>3 DEF TablesInv, TablesType, DbLock
<1>5. \A o \in Requests : fetch'[o].table = fetch[o].table /\ fetch'[o].read = fetch[o].read
  BY <1>1 DEF TablesInv, TablesType
<1>6. latest \in [DbPages -> [Tables -> Nat]]
  BY DEF TablesInv, TablesType
<1>7. /\ fetch[r].read <= version[fetch[r].table]
      /\ \A x \in DbPages : latest[x][fetch[r].table] <= fetch[r].read
      /\ \A j \in 1 .. Len(client_lock) :
            client_lock[j] \in Requests /\ fetch[client_lock[j]].table = fetch[r].table
            => fetch[r].read <= fetch[client_lock[j]].read
  <2>1. /\ fetch[r].read <= version[fetch[r].table]
        /\ \A x \in DbPages : latest[x][fetch[r].table] <= fetch[r].read
    BY <1>3, <1>4 DEF SnapshotInv, InOrder
  <2>2. ASSUME NEW j \in 1 .. Len(client_lock), client_lock[j] \in Requests,
               fetch[client_lock[j]].table = fetch[r].table
        PROVE  fetch[r].read <= fetch[client_lock[j]].read
    <3>1. CASE j = 1
      BY <1>3, <1>4, <3>1
    <3>2. CASE j # 1
      BY <1>3, <2>2, <3>2 DEF SnapshotInv, InOrder
    <3>3. QED
      BY <3>1, <3>2
  <2>3. QED
    BY <2>1, <2>2
<1>8. ASSUME NEW x \in DbPages, NEW t \in Tables
      PROVE  /\ latest'[x][t] = latest[x][t] \/ (t = fetch[r].table /\ latest'[x][t] = fetch[r].read)
             /\ latest[x][t] <= latest'[x][t]
  <2>1. CASE latest' = latest
    BY <1>6, <2>1
  <2>2. CASE latest' = [latest EXCEPT ![w][fetch[r].table] = fetch[r].read]
    <3>1. latest'[x] = IF x = w THEN [latest[w] EXCEPT ![fetch[r].table] = fetch[r].read]
                       ELSE latest[x]
      BY <1>6, <2>2
    <3>2. latest[x][t] \in Nat /\ latest[x] \in [Tables -> Nat]
      BY <1>6
    <3>3. CASE x = w /\ t = fetch[r].table
      BY <1>4, <1>7, <3>1, <3>2, <3>3
    <3>4. CASE x # w \/ t # fetch[r].table
      BY <3>1, <3>2, <3>4
    <3>5. QED
      BY <3>3, <3>4
  <2>3. QED
    BY <2>1, <2>2, BroadcastLatest
<1>9. SnapshotInv'
  <2>1. ASSUME NEW i \in 1 .. Len(client_lock), NEW t \in Tables,
               client_lock[i] \in Requests, fetch[client_lock[i]].table = t
        PROVE  /\ fetch[client_lock[i]].read <= version[t]
               /\ \A x \in DbPages : latest'[x][t] <= fetch[client_lock[i]].read
    <3>1. /\ fetch[client_lock[i]].read <= version[t]
          /\ \A x \in DbPages : latest[x][t] <= fetch[client_lock[i]].read
      BY <2>1 DEF SnapshotInv, InOrder
    <3>2. QED
      BY <1>7, <1>8, <2>1, <3>1
  <2>2. \A x \in DbPages, t \in Tables : latest'[x][t] <= version[t]
    BY <1>7, <1>8 DEF SnapshotInv, InOrder
  <2>3. QED
    BY <1>2, <1>5, <2>1, <2>2 DEF SnapshotInv, InOrder
<1>10. QED
  BY <1>8, <1>9

LEMMA SnapshotStep ==
    ASSUME TypeInv, SnapshotInv, [Next]_vars
    PROVE  /\ SnapshotInv'
           /\ \A w \in DbPages, t \in Tables : latest[w][t] <= latest'[w][t]
<1>0. /\ TablesInv /\ client_lock \in Seq(Requests \cup DbPages)
      /\ version \in [Tables -> Nat] /\ latest \in [DbPages -> [Tables -> Nat]]
      /\ DbPages \cap Requests = {}
  BY GuiConstants DEF TypeInv, TablesInv, TablesType
<1>1. ASSUME SnapshotInv', UNCHANGED latest
      PROVE  /\ SnapshotInv'
             /\ \A w \in DbPages, t \in Tables : latest[w][t] <= latest'[w][t]
  BY <1>0, <1>1
<1>2. ASSUME NEW t \in Tables, Write(t)
      PROVE  SnapshotInv' /\ UNCHANGED latest
  <2>1. UNCHANGED <<fetch, client_lock, latest>>
    BY <1>2 DEF Write
  <2>2. \A u \in Tables : version[u] \in Nat /\ version'[u] \in Nat /\ version[u] <= version'[u]
    BY <1>0, <1>2 DEF Write
  <2>3. ASSUME NEW i \in 1 .. Len(client_lock), NEW u \in Tables,
               client_lock[i] \in Requests, fetch[client_lock[i]].table = u
        PROVE  fetch[client_lock[i]].read <= version'[u]
    <3>1. fetch[client_lock[i]].read <= version[u] /\ fetch[client_lock[i]].read \in Nat
      BY <1>0, <2>3 DEF SnapshotInv, InOrder, TablesInv, TablesType
    <3>2. QED
      BY <2>2, <3>1
  <2>4. \A w \in DbPages, u \in Tables : latest[w][u] <= version'[u]
    BY <1>0, <2>2 DEF SnapshotInv, InOrder
  <2>5. QED
    BY <2>1, <2>3, <2>4 DEF SnapshotInv, InOrder
<1>3. ASSUME NEW r \in Requests, Trigger(r)
      PROVE  SnapshotInv' /\ UNCHANGED latest
  <2>1. r \notin Members(client_lock)
    BY <1>0, <1>3 DEF TablesInv, DbLock, Trigger, NoFetch
  <2>2. ReadFrom(r, {}) /\ UNCHANGED <<version, latest>>
    BY <1>3 DEF Trigger
  <2>3. QED
    BY <1>0, <2>1, <2>2, ReadFromInOrder
<1>4. ASSUME NEW r \in Requests, BroadcastEnds(r)
      PROVE  SnapshotInv' /\ UNCHANGED latest
  <2>1. Holds(client_lock, r) /\ r \in Members(client_lock) /\ fetch[r].table \in Tables
    BY <1>0, <1>4, Release DEF TablesInv, TablesType, DbLock, BroadcastEnds
  <2>2. /\ 1 .. fetch[r].table \in SUBSET Tables /\ 1 .. fetch[r].table # {}
        /\ ReadFrom(r, 1 .. fetch[r].table) /\ UNCHANGED <<version, latest>>
    <3>1. 1 .. fetch[r].table \in SUBSET Tables /\ 1 .. fetch[r].table # {}
      BY <2>1 DEF Tables
    <3>2. QED
      BY <1>4, <3>1 DEF BroadcastEnds
  <2>3. QED
    BY <1>0, <2>1, <2>2, ReadFromInOrder
<1>5. ASSUME NEW w \in DbPages, OpenDbPage(w) \/ DbPageStep(w)
      PROVE  SnapshotInv' /\ UNCHANGED latest
  <2>1. UNCHANGED <<version, fetch, latest>>
    BY <1>5 DEF OpenDbPage, DbPageStep, Register, NoticeDbPage, LeaveDbPage
  <2>2. CASE client_lock' = Append(client_lock, w)
    BY <1>0, <2>1, <2>2, InOrderAppend DEF SnapshotInv
  <2>3. CASE client_lock # <<>> /\ client_lock' = Tail(client_lock)
    BY <1>0, <2>1, <2>3, InOrderTail DEF SnapshotInv
  <2>4. QED
    BY <1>5, <2>1, <2>2, <2>3
    DEF OpenDbPage, DbPageStep, Register, NoticeDbPage, LeaveDbPage, Holds
<1>6. CASE TablesStep
  BY <1>0, <1>1, <1>2, <1>3, <1>4, <1>5, <1>6, BroadcastInOrder DEF TablesStep
<1>7. CASE UNCHANGED tables
  BY <1>1, <1>7 DEF tables, SnapshotInv
<1>8. QED
  BY <1>6, <1>7, Steps, LogsStepAlone, NodesStepAlone, ProcessesStepAlone, CloseAlone
  DEF TypeInv, vars

\* A database page never goes back to an older snapshot: a request joins the
\* queue for the clients in the same turn of the event loop as it reads, so
\* the snapshots of a table are sent in the order they were read.
THEOREM SnapshotsNeverGoBack == Spec => SnapshotsInOrder
<1>1. Init => SnapshotInv
  BY DEF Init, SnapshotInv, InOrder
<1>2. Spec => []SnapshotInv
  BY <1>1, SnapshotStep, TypeInvAlways, PTL DEF Spec
<1>3. TypeInv /\ SnapshotInv /\ [Next]_vars =>
          [\A w \in DbPages, t \in Tables : latest[w][t] <= latest'[w][t]]_vars
  BY SnapshotStep
<1>4. QED
  BY <1>2, <1>3, TypeInvAlways, PTL DEF Spec, SnapshotsInOrder

-------------------------------------------------------------------------------
(* The lines of the heartbeat server's log.                                *)
(*                                                                         *)
(* A line the tail is about to send may reach a page before older lines of *)
(* its replay: the invariant speaks of the lines in each place, not of     *)
(* their order.                                                            *)

\* Two sequences without repetition and without a common element.
LEMMA OnConcat ==
    ASSUME NEW S, NEW q \in Seq(S), NEW r \in Seq(S)
    PROVE  /\ q \o r \in Seq(S) /\ Members(q \o r) = Members(q) \cup Members(r)
           /\ Once(q) /\ Once(r) /\ Members(q) \cap Members(r) = {} => Once(q \o r)
<1> DEFINE c == q \o r
<1>1. /\ Len(q) \in Nat /\ Len(r) \in Nat /\ Len(c) = Len(q) + Len(r)
      /\ c \in Seq(S)
      /\ \A i \in 1 .. Len(q) + Len(r) :
            c[i] = IF i <= Len(q) THEN q[i] ELSE r[i - Len(q)]
  OBVIOUS
<1> HIDE DEF c
<1>2. \A i \in 1 .. Len(c) : \/ i \in 1 .. Len(q) /\ c[i] = q[i] /\ ~ (i > Len(q))
                             \/ /\ i > Len(q) /\ i - Len(q) \in 1 .. Len(r)
                                /\ c[i] = r[i - Len(q)]
  BY <1>1
<1>3. Members(c) = Members(q) \cup Members(r)
  <2>1. \A i \in 1 .. Len(q) : i \in 1 .. Len(c) /\ c[i] = q[i]
    BY <1>1
  <2>2. ASSUME NEW i \in 1 .. Len(r)
        PROVE  \E k \in 1 .. Len(c) : c[k] = r[i]
    <3>1. PICK k \in 1 .. Len(c) : k = i + Len(q)
      BY <1>1
    <3>2. ~ (k <= Len(q)) /\ k - Len(q) = i
      BY <1>1, <3>1
    <3>3. QED
      BY <1>1, <3>2
  <2>3. Members(q) \cup Members(r) \subseteq Members(c)
    BY <2>1, <2>2 DEF Members
  <2>4. Members(c) \subseteq Members(q) \cup Members(r)
    BY <1>2 DEF Members
  <2>5. QED
    BY <2>3, <2>4
<1>4. ASSUME Once(q), Once(r), Members(q) \cap Members(r) = {},
             NEW i \in 1 .. Len(c), NEW j \in 1 .. Len(c), c[i] = c[j]
      PROVE  i = j
  <2>1. CASE i \in 1 .. Len(q) /\ j \in 1 .. Len(q)
    BY <1>2, <1>4, <2>1 DEF Once
  <2>2. CASE i > Len(q) /\ j > Len(q)
    <3>1. PICK m \in 1 .. Len(r), n \in 1 .. Len(r) :
              /\ m = i - Len(q) /\ n = j - Len(q) /\ c[i] = r[m] /\ c[j] = r[n]
      BY <1>2, <2>2
    <3>2. m = n
      BY <1>4, <3>1 DEF Once
    <3>3. QED
      BY <1>1, <3>1, <3>2
  <2>3. ASSUME NEW k \in 1 .. Len(c)
        PROVE  /\ k \in 1 .. Len(q) => c[k] \in Members(q)
               /\ k > Len(q) => c[k] \in Members(r)
    <3>1. CASE k \in 1 .. Len(q)
      BY <1>2, <3>1 DEF Members
    <3>2. CASE k > Len(q)
      BY <1>2, <3>2 DEF Members
    <3>3. QED
      BY <1>1, <1>2, <3>1, <3>2
  <2>4. QED
    BY <1>2, <1>4, <2>1, <2>2, <2>3
<1>5. Once(q) /\ Once(r) /\ Members(q) \cap Members(r) = {} => Once(c)
  BY <1>4 DEF Once
<1>6. QED
  BY <1>1, <1>3, <1>5 DEF c

LEMMA OncePush ==
    ASSUME NEW S, NEW q \in Seq(S), NEW x \in S, NEW max \in Nat \ {0},
           Once(q), x \notin Members(q)
    PROVE  /\ Once(Push(q, x, max))
           /\ Members(Push(q, x, max)) \subseteq Members(q) \cup {x}
<1>1. CASE Len(q) < max
  BY <1>1, OnAppend DEF Push
<1>2. CASE ~ (Len(q) < max)
  <2>1. q # <<>>
    BY <1>2
  <2>2. /\ Tail(q) \in Seq(S) /\ Once(Tail(q)) /\ x \notin Members(Tail(q))
        /\ Members(Tail(q)) \subseteq Members(q)
    BY <2>1, OnTail
  <2>3. Push(q, x, max) = Append(Tail(q), x)
    BY <1>2 DEF Push
  <2>4. /\ Once(Append(Tail(q), x))
        /\ Members(Append(Tail(q), x)) = Members(Tail(q)) \cup {x}
    BY <2>2, OnAppend
  <2>5. QED
    BY <2>2, <2>3, <2>4
<1>3. QED
  BY <1>1, <1>2

\* The line a page is still to be sent live.
LiveLine(w) == IF w \in addressed THEN {lines} ELSE {}

\* Where the lines of a page are.
LinesOf(w) ==
    /\ Once(received[w]) /\ Once(toReplay[w])
    /\ Members(received[w]) \cap Members(toReplay[w]) = {}
    /\ LiveLine(w) \cap (Members(received[w]) \cup Members(toReplay[w])) = {}
    /\ Members(received[w]) \cup Members(toReplay[w]) \subseteq 1 .. lines
    /\ Members(history) \subseteq
           Members(received[w]) \cup Members(toReplay[w]) \cup LiveLine(w)

LinesInv ==
    /\ Once(history) /\ Members(history) \subseteq 1 .. lines
    /\ addressed # {} => lines > 0
    /\ \A w \in dead : page[w] = "down"
    /\ \A w \in NodePages :
          /\ page[w] = "off" =>
                 received[w] = <<>> /\ w \notin subscribers /\ w \notin addressed
          /\ page[w] = "up" => w \in subscribers /\ LinesOf(w)

\* It is what EachLineOnce says.
LEMMA LinesInvImplies == TypeInv /\ LinesInv => EachLineOnce
<1> SUFFICES ASSUME TypeInv, LinesInv, NEW w \in NodePages, page[w] = "up"
             PROVE  LET all == received[w] \o toReplay[w]
                                   \o (IF w \in addressed THEN <<lines>> ELSE <<>>)
                    IN  IsInjective(all) /\ Range(history) \subseteq Range(all)
  BY DEF EachLineOnce
<1> DEFINE live == IF w \in addressed THEN <<lines>> ELSE <<>>
           first == received[w] \o toReplay[w]
           all == first \o live
<1>1. LinesOf(w)
  BY DEF LinesInv
<1>2. /\ received[w] \in Seq(Nat) /\ toReplay[w] \in Seq(Nat) /\ lines \in Nat
      /\ history \in Seq(Nat)
  BY DEF TypeInv, NodesType
<1>3. live \in Seq(Nat) /\ Once(live) /\ Members(live) = LiveLine(w)
  BY <1>2 DEF Once, Members, LiveLine
<1> HIDE DEF live
<1>4. /\ first \in Seq(Nat) /\ Once(first)
      /\ Members(first) = Members(received[w]) \cup Members(toReplay[w])
  BY <1>1, <1>2, OnConcat DEF LinesOf
<1> HIDE DEF first
<1>5. /\ all \in Seq(Nat) /\ Once(all)
      /\ Members(all) = Members(first) \cup Members(live)
  BY <1>1, <1>3, <1>4, OnConcat DEF LinesOf
<1> HIDE DEF all
<1>6. IsInjective(all)
  BY <1>5 DEF IsInjective, Once
<1>7. Range(history) = Members(history) /\ Range(all) = Members(all)
  BY <1>2, <1>5 DEF Range, Members
<1>8. Range(history) \subseteq Range(all)
  BY <1>1, <1>3, <1>4, <1>5, <1>7 DEF LinesOf
<1>9. QED
  BY <1>6, <1>8 DEF all, first, live

\* What changes for one page does not for the others.
LEMMA LinesOfKept ==
    ASSUME NEW w, LinesOf(w), lines' = lines, history' = history,
           received'[w] = received[w], toReplay'[w] = toReplay[w],
           w \in addressed' <=> w \in addressed
    PROVE  LinesOf(w)'
  BY DEF LinesOf, LiveLine

LEMMA LinesInvNext ==
    TypeInv /\ LinesInv /\ [Next]_vars => LinesInv'
<1> SUFFICES ASSUME TypeInv, LinesInv, [Next]_vars
             PROVE  LinesInv'
  OBVIOUS
<1>0. /\ NodesType /\ PagesType /\ PageOff /\ NodePages \subseteq Pages
      /\ toReplay \in [NodePages -> Seq(Nat)] /\ received \in [NodePages -> Seq(Nat)]
      /\ lines \in Nat /\ history \in Seq(Nat)
  BY DEF TypeInv, NodesType, Pages
<1>1. ASSUME NEW w \in NodePages, Subscribe(w)
      PROVE  LinesInv'
  <2>1. /\ page[w] = "off" /\ page' = [page EXCEPT ![w] = "up"]
        /\ subscribers' = subscribers \cup {w}
        /\ toReplay' = [toReplay EXCEPT ![w] = history]
        /\ UNCHANGED <<lines, history, addressed, dead, received>>
    BY <1>1 DEF Subscribe
  <2>2. received[w] = <<>> /\ w \notin addressed /\ w \notin dead
    BY <2>1 DEF LinesInv
  <2>3. LinesOf(w)'
    <3>1. received'[w] = <<>> /\ toReplay'[w] = history
      BY <1>0, <2>1, <2>2
    <3>2. Once(<<>>) /\ Members(<<>>) = {}
      BY DEF Once, Members
    <3>3. QED
      BY <2>1, <2>2, <3>1, <3>2 DEF LinesInv, LinesOf, LiveLine
  <2>4. ASSUME NEW v \in NodePages, v # w
        PROVE  /\ page'[v] = page[v] /\ received'[v] = received[v]
               /\ toReplay'[v] = toReplay[v]
    BY <1>0, <2>1, <2>4
  <2>5. ASSUME NEW v \in NodePages, v # w, page[v] = "up"
        PROVE  LinesOf(v)'
    <3>1. LinesOf(v)
      BY <2>5 DEF LinesInv
    <3>2. QED
      BY <2>1, <2>4, <2>5, <3>1, LinesOfKept
  <2>6. page'[w] = "up"
    BY <1>0, <2>1 DEF PagesType
  <2>7. \A v \in dead : page'[v] = "down"
    BY <1>0, <2>1, <2>2 DEF LinesInv, PagesType, NodesType
  <2>8. QED
    BY <2>1, <2>3, <2>4, <2>5, <2>6, <2>7 DEF LinesInv
<1>2. ASSUME NEW w \in NodePages, ReplayLine(w)
      PROVE  LinesInv'
  <2>1. /\ toReplay[w] # <<>> /\ toReplay' = [toReplay EXCEPT ![w] = Tail(@)]
        /\ received' = IF page[w] = "up"
                       THEN [received EXCEPT ![w] = Append(@, Head(toReplay[w]))]
                       ELSE received
        /\ UNCHANGED <<page, lines, history, subscribers, addressed, dead>>
        /\ handler[w] = "replay"
    BY <1>2 DEF ReplayLine, Receives
  <2>2. page[w] # "off"
    BY <1>0, <2>1 DEF PageOff
  <2>3. ASSUME page[w] = "up"
        PROVE  LinesOf(w)'
    <3>1. /\ toReplay'[w] = Tail(toReplay[w])
          /\ received'[w] = Append(received[w], Head(toReplay[w]))
      BY <1>0, <2>1, <2>3
    <3>2. LinesOf(w) /\ toReplay[w] \in Seq(Nat) /\ received[w] \in Seq(Nat)
      BY <1>0, <2>3 DEF LinesInv
    <3>3. /\ Members(toReplay[w]) = Members(Tail(toReplay[w])) \cup {Head(toReplay[w])}
          /\ Once(Tail(toReplay[w]))
          /\ Head(toReplay[w]) \notin Members(Tail(toReplay[w]))
          /\ Head(toReplay[w]) \in Nat
      BY <2>1, <3>2, OnTail DEF LinesOf
    <3>4. /\ Members(Append(received[w], Head(toReplay[w]))) =
                 Members(received[w]) \cup {Head(toReplay[w])}
          /\ Once(Append(received[w], Head(toReplay[w])))
      BY <3>2, <3>3, OnAppend DEF LinesOf
    <3>5. LiveLine(w)' = LiveLine(w)
      BY <2>1 DEF LiveLine
    <3>6. QED
      BY <2>1, <3>1, <3>2, <3>3, <3>4, <3>5 DEF LinesOf
  <2>4. ASSUME NEW v \in NodePages, v # w
        PROVE  received'[v] = received[v] /\ toReplay'[v] = toReplay[v]
    BY <1>0, <2>1, <2>4
  <2>5. \A v \in NodePages : v # w /\ page[v] = "up" => LinesOf(v)'
    BY <2>1, <2>4, LinesOfKept DEF LinesInv
  <2>6. QED
    BY <2>1, <2>2, <2>3, <2>4, <2>5 DEF LinesInv
<1>3. ASSUME NEW w \in NodePages, DropDuringReplay(w)
      PROVE  LinesInv'
  <2>1. /\ page[w] = "down" /\ subscribers' = subscribers \ {w}
        /\ toReplay' = [toReplay EXCEPT ![w] = <<>>]
        /\ UNCHANGED <<page, lines, history, addressed, dead, received>>
    BY <1>3 DEF DropDuringReplay
  <2>2. \A v \in NodePages : v # w => toReplay'[v] = toReplay[v]
    BY <1>0, <2>1
  <2>3. \A v \in NodePages : page[v] = "up" => LinesOf(v)'
    BY <2>1, <2>2, LinesOfKept DEF LinesInv
  <2>4. QED
    BY <2>1, <2>3 DEF LinesInv
<1>4. ASSUME NEW w \in NodePages, Dispatch(w)
      PROVE  LinesInv'
  <2>1. /\ w \in addressed /\ addressed' = addressed \ {w}
        /\ received' = IF page[w] = "up" THEN [received EXCEPT ![w] = Append(@, lines)]
                       ELSE received
        /\ UNCHANGED <<page, lines, history, subscribers, toReplay>>
        /\ \A v \in dead' : v \in dead \/ page[v] = "down"
    BY <1>4 DEF Dispatch, Receives
  <2>2. page[w] # "off"
    BY <2>1 DEF LinesInv
  <2>3. ASSUME page[w] = "up"
        PROVE  LinesOf(w)'
    <3>1. LinesOf(w) /\ received[w] \in Seq(Nat) /\ LiveLine(w) = {lines} /\ LiveLine(w)' = {}
      BY <1>0, <2>1, <2>3 DEF LinesInv, LiveLine
    <3>2. received'[w] = Append(received[w], lines) /\ toReplay'[w] = toReplay[w]
      BY <1>0, <2>1, <2>3
    <3>3. /\ Members(Append(received[w], lines)) = Members(received[w]) \cup {lines}
          /\ Once(Append(received[w], lines))
      BY <1>0, <3>1, OnAppend DEF LinesOf
    <3>4. lines \in 1 .. lines
      BY <1>0, <2>1 DEF LinesInv
    <3>5. QED
      BY <2>1, <3>1, <3>2, <3>3, <3>4 DEF LinesOf
  <2>4. ASSUME NEW v \in NodePages, v # w
        PROVE  received'[v] = received[v] /\ (v \in addressed' <=> v \in addressed)
    BY <1>0, <2>1, <2>4
  <2>5. \A v \in NodePages : v # w /\ page[v] = "up" => LinesOf(v)'
    BY <2>1, <2>4, LinesOfKept DEF LinesInv
  <2>6. QED
    BY <2>1, <2>2, <2>3, <2>4, <2>5 DEF LinesInv
<1>5. CASE ReadLine
  <2>1. /\ addressed = {} /\ lines' = lines + 1 /\ addressed' = subscribers
        /\ history' = Push(history, lines', MaxHistory)
        /\ UNCHANGED <<page, subscribers, dead, toReplay, received>>
    BY <1>5 DEF ReadLine
  <2>2. Once(history') /\ Members(history') \subseteq Members(history) \cup {lines'}
    <3>1. lines' \in Nat /\ lines' \notin Members(history)
      BY <1>0, <2>1 DEF LinesInv
    <3>2. QED
      BY <1>0, <2>1, <3>1, OncePush, GuiConstants DEF LinesInv, NodesType
  <2>3. 1 .. lines \subseteq 1 .. lines' /\ lines' \in 1 .. lines' /\ lines' \notin 1 .. lines
    BY <1>0, <2>1
  <2>4. ASSUME NEW v \in NodePages, page[v] = "up"
        PROVE  LinesOf(v)'
    <3>1. LinesOf(v) /\ LiveLine(v) = {} /\ LiveLine(v)' = {lines'}
      BY <2>1, <2>4 DEF LinesInv, LiveLine
    <3>2. QED
      BY <2>1, <2>2, <2>3, <3>1 DEF LinesOf
  <2>5. QED
    BY <2>1, <2>2, <2>3, <2>4 DEF LinesInv
<1>6. CASE Prune
  <2>1. /\ subscribers' = subscribers \ dead /\ dead' = {}
        /\ UNCHANGED <<page, lines, history, addressed, toReplay, received>>
    BY <1>6 DEF Prune
  <2>2. \A v \in NodePages : page[v] = "up" => LinesOf(v)'
    BY <2>1, LinesOfKept DEF LinesInv
  <2>3. QED
    BY <2>1, <2>2 DEF LinesInv
<1>7. CASE UNCHANGED nodes /\ \A w \in NodePages :
             \/ page'[w] = page[w]
             \/ page[w] = "up" /\ page'[w] = "down"
  <2>1. UNCHANGED <<lines, history, subscribers, addressed, dead, toReplay, received>>
    BY <1>7 DEF nodes
  <2>2. \A v \in NodePages : page[v] = "up" => LinesOf(v)'
    BY <2>1, LinesOfKept DEF LinesInv
  <2>3. dead \subseteq NodePages
    BY <1>0 DEF NodesType
  <2>4. QED
    BY <1>7, <2>1, <2>2, <2>3 DEF LinesInv
<1>8. QED
  <2>1. CASE NodesStep
    <3>1. ASSUME NEW w \in NodePages, KeepAlive(w)
          PROVE  UNCHANGED nodes /\ page' = page
      BY <3>1 DEF KeepAlive
    <3>2. QED
      BY <1>1, <1>2, <1>3, <1>4, <1>5, <1>6, <1>7, <2>1, <3>1 DEF NodesStep, NodePageStep
  <2>2. CASE LogsStep \/ TablesStep
    <3>1. UNCHANGED nodes /\ PagesKept(NodePages)
      BY <1>0, <2>2, LogsStepAlone, TablesStepAlone DEF PagesKept
    <3>2. QED
      BY <1>7, <3>1 DEF PagesKept
  <2>3. CASE ProcessesStep \/ UNCHANGED vars
    BY <1>7, <2>3, ProcessesStepAlone DEF vars
  <2>4. CASE Close
    <3>1. UNCHANGED nodes
      BY <2>4, CloseAlone
    <3>2. \A w \in NodePages : \/ page'[w] = page[w]
                               \/ page[w] = "up" /\ page'[w] = "down"
      BY <1>0, <2>4 DEF Close, ClosePage, PagesType
    <3>3. QED
      BY <1>7, <3>1, <3>2
  <2>5. QED
    BY <2>1, <2>2, <2>3, <2>4, Steps

\* An open heartbeat-log page gets every line it should, once: it subscribes
\* and copies the history in one turn of the event loop, so that each line is
\* in its replay or sent to it live, never both and never neither.
THEOREM LinesReachPagesOnce == Spec => []EachLineOnce
<1>1. Init => LinesInv
  BY DEF Init, LinesInv, Once, Members, Pages
<1>2. Spec => []LinesInv
  BY <1>1, LinesInvNext, TypeInvAlways, PTL DEF Spec
<1>3. QED
  BY <1>2, LinesInvImplies, TypeInvAlways, PTL

-------------------------------------------------------------------------------
(* The replay of the log buffer.                                           *)
(*                                                                         *)
(* While a page waits for log_buffer_lock it has been sent nothing of the  *)
(* buffer; while it holds the lock nothing is stored; and it is active     *)
(* before it asks for the lock, so what is stored later is sent to it.     *)
(* The frontend discards what is replayed: this is about what is sent.     *)

Covered(w, e) ==
    e \in Shown => \/ Live(e) \in seen[w] \/ Raw(e) \in seen[w]
                   \/ \E p \in Conns : entry[p] = [step |-> "send", what |-> e]

PageCovered(w) ==
    /\ handler[w] = "replay" =>
           /\ Holds(log_buffer_lock, w) \/ replayed[w] = 0
           /\ replayed[w] <= Len(log_buffer)
           /\ \A i \in 1 .. replayed[w] : Covered(w, log_buffer[i])
    /\ handler[w] = "open" => \A i \in 1 .. Len(log_buffer) : Covered(w, log_buffer[i])

NothingReplayed ==
    \A w \in LogPages : handler[w] \in {"none", "activate"} => replayed[w] = 0

ActiveCovered ==
    active_websocket # None /\ page[active_websocket] = "up" => PageCovered(active_websocket)

ReplayInv == NothingReplayed /\ ActiveCovered

LEMMA ReplayInvImplies == TypeInv /\ ReplayInv => ActiveMissesNothing
<1> SUFFICES ASSUME TypeInv, ReplayInv, active_websocket # None,
                    handler[active_websocket] = "open", page[active_websocket] = "up",
                    NEW e \in Range(log_buffer) \cap Shown
             PROVE  \/ e \in ShownBy(active_websocket)
                    \/ Raw(e) \in seen[active_websocket]
                    \/ \E p \in Conns : entry[p] = [step |-> "send", what |-> e]
  BY DEF ActiveMissesNothing
<1>1. /\ log_buffer \in Seq(Entries)
      /\ \E i \in 1 .. Len(log_buffer) : e = log_buffer[i]
  BY DEF TypeInv, LogsInv, LogsType, Range
<1>2. PICK i \in 1 .. Len(log_buffer) : e = log_buffer[i]
  BY <1>1
<1>3. Covered(active_websocket, log_buffer[i]) /\ e \in Entries
  BY <1>1, <1>2 DEF ReplayInv, ActiveCovered, PageCovered
<1>4. QED
  BY <1>2, <1>3 DEF Covered, ShownBy

\* What a push leaves in the buffer.
LEMMA PushMembers ==
    ASSUME NEW S, NEW q \in Seq(S), NEW x \in S, NEW max \in Nat \ {0}
    PROVE  \A i \in 1 .. Len(Push(q, x, max)) :
               \/ Push(q, x, max)[i] = x
               \/ \E j \in 1 .. Len(q) : Push(q, x, max)[i] = q[j]
<1>1. Push(q, x, max) \in Seq(S) /\ Members(Push(q, x, max)) \subseteq Members(q) \cup {x}
  <2>1. CASE Len(q) < max
    BY <2>1, OnAppend DEF Push
  <2>2. CASE ~ (Len(q) < max)
    <3>1. q # <<>> /\ Push(q, x, max) = Append(Tail(q), x)
      BY <2>2 DEF Push
    <3>2. Tail(q) \in Seq(S) /\ Members(Tail(q)) \subseteq Members(q)
      BY <3>1, OnTail
    <3>3. PICK r \in Seq(S) : r = Tail(q)
      BY <3>2
    <3>4. Append(r, x) \in Seq(S) /\ Members(Append(r, x)) = Members(r) \cup {x}
      BY <3>3, OnAppend
    <3>5. QED
      BY <3>1, <3>2, <3>3, <3>4
  <2>3. QED
    BY <2>1, <2>2
<1>2. QED
  BY <1>1 DEF Members

\* A page stays covered when nothing is stored and nothing is sent.
LEMMA CoveredKept ==
    ASSUME NEW w, PageCovered(w), UNCHANGED <<entry, log_buffer>>,
           handler'[w] = handler[w], replayed'[w] = replayed[w],
           seen[w] \subseteq seen'[w],
           Holds(log_buffer_lock, w) => Holds(log_buffer_lock', w)
    PROVE  PageCovered(w)'
<1>1. \A e : Covered(w, e) => Covered(w, e)'
  BY DEF Covered
<1>2. QED
  BY <1>1 DEF PageCovered, Holds

LEMMA NothingReplayedNext ==
    TypeInv /\ NothingReplayed /\ [Next]_vars => NothingReplayed'
<1> SUFFICES ASSUME TypeInv, NothingReplayed, [Next]_vars
             PROVE  NothingReplayed'
  OBVIOUS
<1>0. /\ PagesType /\ PageOff /\ LogPages \subseteq Pages
      /\ replayed \in [LogPages -> Nat]
  BY DEF TypeInv, LogsInv, LogsType, Pages
<1>1. ASSUME NEW w \in LogPages, OpenLogPage(w)
      PROVE  NothingReplayed'
  BY <1>0, <1>1 DEF NothingReplayed, OpenLogPage, PagesType, PageOff, Goes
<1>2. ASSUME NEW w \in LogPages, ReplayEntry(w)
      PROVE  NothingReplayed'
  BY <1>0, <1>2 DEF NothingReplayed, ReplayEntry
<1>3. ASSUME NEW w \in LogPages,
             Activate(w) \/ ReplayFails(w) \/ ReplayEnds(w) \/ NoticeLogPage(w)
             \/ LeaveLogPage(w)
      PROVE  NothingReplayed'
  BY <1>0, <1>3
  DEF NothingReplayed, Activate, ReplayFails, ReplayEnds, NoticeLogPage,
      LeaveLogPage, PagesType, Goes
<1>4. CASE UNCHANGED replayed /\ HandlersKept(LogPages)
  BY <1>4 DEF NothingReplayed, HandlersKept
<1>5. CASE LogsStep
  <2>1. ASSUME NEW p \in Conns, StoreEntry(p) \/ SendEntry(p) \/ \E e \in Entries : Arrive(p, e)
        PROVE  UNCHANGED replayed /\ HandlersKept(LogPages)
    BY <2>1 DEF StoreEntry, SendEntry, Arrive, HandlersKept
  <2>2. QED
    BY <1>1, <1>2, <1>3, <1>4, <1>5, <2>1 DEF LogsStep, LogPageStep
<1>6. CASE ~ LogsStep
  <2>1. UNCHANGED logs /\ HandlersKept(LogPages)
    BY <1>0, <1>6, Steps, TablesStepAlone, NodesStepAlone, ProcessesStepAlone, CloseAlone
    DEF HandlersKept, vars
  <2>2. QED
    BY <1>4, <2>1 DEF logs
<1>7. QED
  BY <1>5, <1>6

LEMMA ActiveCoveredNext ==
    TypeInv /\ ReplayInv /\ [Next]_vars => ActiveCovered'
<1> SUFFICES ASSUME TypeInv, ReplayInv, [Next]_vars
             PROVE  ActiveCovered'
  OBVIOUS
<1> SUFFICES ASSUME NEW a \in LogPages, active_websocket' = a, page'[a] = "up"
             PROVE  PageCovered(a)'
  <2>1. active_websocket' # None => active_websocket' \in LogPages
    <3>1. TypeInv'
      BY TypeInvNext
    <3>2. LogsType'
      BY <3>1 DEF TypeInv, LogsInv
    <3>3. QED
      BY <3>2 DEF LogsType
  <2>2. ASSUME active_websocket' # None, page'[active_websocket'] = "up"
        PROVE  PageCovered(active_websocket)'
    <3>1. PICK a \in LogPages : a = active_websocket'
      BY <2>1, <2>2
    <3>2. PageCovered(a)'
      BY <2>2, <3>1
    <3>3. QED
      BY <3>1, <3>2 DEF PageCovered, Covered
  <2>3. QED
    BY <2>2 DEF ActiveCovered
<1>0. /\ PagesType /\ PageOff /\ LogPages \subseteq Pages
      /\ replayed \in [LogPages -> Nat]
      /\ seen \in [LogPages -> SUBSET ({"log", "raw"} \X Entries)]
      /\ log_buffer \in Seq(Entries)
      /\ log_buffer_lock \in Seq(Conns \cup LogPages)
      /\ LogLocks /\ None \notin Pages
  BY GuiConstants DEF TypeInv, LogsInv, LogsType, Pages
<1>1. ASSUME active_websocket = a, page[a] = "up"
      PROVE  PageCovered(a)
  BY <1>0, <1>1 DEF ReplayInv, ActiveCovered
<1>2. ASSUME NEW p \in Conns, NEW e \in Entries, Arrive(p, e)
      PROVE  PageCovered(a)'
  <2>1. /\ entry[p] = Idle /\ log_buffer_lock' = Append(log_buffer_lock, p)
        /\ entry' = [entry EXCEPT ![p] = [step |-> "store", what |-> e]]
        /\ UNCHANGED <<page, handler, log_buffer, active_websocket, replayed, seen>>
    BY <1>2 DEF Arrive
  <2>2. PageCovered(a)
    BY <1>1, <2>1
  <2>3. Holds(log_buffer_lock, a) => Holds(log_buffer_lock', a)
    <3>1. /\ Append(log_buffer_lock, p) # <<>>
          /\ log_buffer_lock # <<>> =>
                 Head(Append(log_buffer_lock, p)) = Head(log_buffer_lock)
      BY <1>0, OnAppend
    <3>2. QED
      BY <2>1, <3>1 DEF Holds
  <2>4. \A d : Covered(a, d) => Covered(a, d)'
    BY <2>1 DEF Covered, Idle
  <2>5. QED
    BY <2>1, <2>2, <2>3, <2>4 DEF PageCovered, Holds
<1>3. ASSUME NEW p \in Conns, StoreEntry(p)
      PROVE  PageCovered(a)'
  <2>1. /\ Holds(log_buffer_lock, p) /\ entry' = [entry EXCEPT ![p].step = "send"]
        /\ log_buffer' = Push(log_buffer, entry[p].what, MaxBuffer)
        /\ UNCHANGED <<page, handler, active_websocket, replayed, seen>>
    BY <1>3 DEF StoreEntry
  <2>2. PageCovered(a)
    BY <1>1, <2>1
  <2>3. entry[p] \in [step : {"store", "send"}, what : Entries] /\ entry[p].step = "store"
    <3>1. p \in Members(log_buffer_lock)
      BY <1>0, <2>1, Release DEF LogLocks
    <3>2. entry[p].step = "store"
      BY <1>0, <3>1 DEF LogLocks
    <3>3. QED
      BY <3>2 DEF TypeInv, LogsInv, LogsType, Idle
  <2>4. /\ entry'[p] = [step |-> "send", what |-> entry[p].what]
        /\ \A q \in Conns : q # p => entry'[q] = entry[q]
    BY <2>1, <2>3 DEF TypeInv, LogsInv, LogsType
  <2>6. \A d : Covered(a, d) => Covered(a, d)'
    BY <2>1, <2>3, <2>4 DEF Covered
  <2>7. CASE handler[a] = "open"
    <3>1. ASSUME NEW i \in 1 .. Len(log_buffer')
          PROVE  Covered(a, log_buffer[i])'
      <4>1. \/ log_buffer'[i] = entry[p].what
            \/ \E j \in 1 .. Len(log_buffer) : log_buffer'[i] = log_buffer[j]
        BY <1>0, <2>1, <2>3, PushMembers, GuiConstants
      <4>2. CASE log_buffer'[i] = entry[p].what
        BY <2>3, <2>4, <4>2 DEF Covered
      <4>3. ASSUME NEW d, log_buffer'[i] = d, Covered(a, d)
            PROVE  Covered(a, log_buffer[i])'
        <5>1. Covered(a, d)'
          BY <2>6, <4>3
        <5>2. QED
          BY <4>3, <5>1 DEF Covered
      <4>4. ASSUME NEW j \in 1 .. Len(log_buffer), log_buffer'[i] = log_buffer[j]
            PROVE  Covered(a, log_buffer[i])'
        <5>1. PICK d : d = log_buffer[j]
          OBVIOUS
        <5>2. Covered(a, log_buffer[j])
          BY <2>2, <2>7 DEF PageCovered
        <5>3. QED
          BY <4>3, <4>4, <5>1, <5>2 DEF Covered
      <4>5. QED
        BY <4>1, <4>2, <4>4
    <3>2. QED
      BY <2>1, <2>7, <3>1 DEF PageCovered
  <2>8. CASE handler[a] = "replay"
    <3>1. ~ Holds(log_buffer_lock, a)
      BY <2>1, <2>2, GuiConstants DEF Holds
    <3>2. replayed[a] = 0
      BY <2>2, <2>8, <3>1 DEF PageCovered
    <3>3. Len(log_buffer') \in Nat
      BY <1>0, <2>1, <2>3, OnPush, GuiConstants DEF TypeInv, LogsInv, LogsType
    <3>4. QED
      BY <2>1, <2>8, <3>2, <3>3 DEF PageCovered
  <2>9. QED
    BY <2>1, <2>7, <2>8 DEF PageCovered
<1>4. ASSUME NEW p \in Conns, SendEntry(p)
      PROVE  PageCovered(a)'
  <2>1. /\ Holds(websocket_lock, p) /\ entry' = [entry EXCEPT ![p] = Idle]
        /\ UNCHANGED <<page, handler, log_buffer, log_buffer_lock, replayed>>
        /\ active_websocket = a
    BY <1>0, <1>4 DEF SendEntry
  <2>2. PageCovered(a) /\ page[a] = "up"
    BY <1>1, <2>1
  <2>3. entry[p].what \in Shown => Live(entry[p].what) \in seen'[a]
    BY <1>0, <1>4, <2>1, <2>2 DEF SendEntry, Sees
  <2>4. seen[a] \subseteq seen'[a]
    BY <1>0, <1>4, <2>2 DEF SendEntry, Sees
  <2>5. \A d : Covered(a, d) => Covered(a, d)'
    <3>1. \A q \in Conns : q # p => entry'[q] = entry[q]
      BY <2>1 DEF TypeInv, LogsInv, LogsType
    <3>2. \A d : entry[p] = [step |-> "send", what |-> d] => entry[p].what = d
      OBVIOUS
    <3>3. QED
      BY <2>1, <2>3, <2>4, <3>1, <3>2 DEF Covered
  <2>6. QED
    BY <2>1, <2>2, <2>5 DEF PageCovered, Holds
<1>5. ASSUME NEW w \in LogPages, OpenLogPage(w)
      PROVE  PageCovered(a)'
  <2>1. CASE w = a
    <3>1. handler'[a] = "activate"
      BY <1>0, <1>5, <2>1 DEF OpenLogPage, Goes, PagesType
    <3>2. QED
      BY <3>1 DEF PageCovered
  <2>2. CASE w # a
    <3>1. /\ page'[a] = page[a] /\ handler'[a] = handler[a] /\ active_websocket = a
          /\ UNCHANGED <<entry, log_buffer, log_buffer_lock, replayed, seen>>
      BY <1>0, <1>5, <2>2 DEF OpenLogPage, Goes, PagesType
    <3>2. QED
      BY <1>1, <3>1 DEF PageCovered, Covered, Holds
  <2>3. QED
    BY <2>1, <2>2
<1>6. ASSUME NEW w \in LogPages, Activate(w)
      PROVE  PageCovered(a)'
  <2>1. w = a /\ handler'[w] = "replay" /\ replayed'[w] = 0
    BY <1>0, <1>6
    DEF Activate, BecomesActive, Goes, PagesType, ReplayInv, NothingReplayed
  <2>2. Len(log_buffer') \in Nat
    BY <1>0, <1>6 DEF Activate
  <2>3. QED
    BY <2>1, <2>2 DEF PageCovered
<1>7. ASSUME NEW w \in LogPages, ReplayEntry(w)
      PROVE  PageCovered(a)'
  <2>1. /\ Holds(log_buffer_lock, w) /\ handler[w] = "replay"
        /\ replayed[w] < Len(log_buffer)
        /\ replayed' = [replayed EXCEPT ![w] = @ + 1]
        /\ UNCHANGED <<page, handler, entry, log_buffer, log_buffer_lock, active_websocket>>
    BY <1>7 DEF ReplayEntry
  <2>2. PageCovered(a) /\ page[a] = "up"
    BY <1>1, <2>1
  <2>3. seen[a] \subseteq seen'[a]
    BY <1>0, <1>7, <2>2 DEF ReplayEntry, Sees
  <2>4. CASE w = a
    <3>1. Raw(log_buffer[replayed[a] + 1]) \in seen'[a]
      BY <1>0, <1>7, <2>2, <2>4 DEF ReplayEntry, Sees
    <3>2. replayed'[a] = replayed[a] + 1 /\ replayed'[a] <= Len(log_buffer)
      <4>1. replayed[a] \in Nat /\ Len(log_buffer) \in Nat
        BY <1>0
      <4>2. replayed'[a] = replayed[a] + 1 /\ replayed[a] < Len(log_buffer)
        BY <1>0, <2>1, <2>4
      <4>3. QED
        BY <4>1, <4>2
    <3>3. ASSUME NEW i \in 1 .. replayed'[a]
          PROVE  Covered(a, log_buffer[i])'
      <4>1. CASE i \in 1 .. replayed[a]
        BY <2>1, <2>2, <2>3, <2>4, <4>1 DEF PageCovered, Covered
      <4>2. CASE i = replayed[a] + 1
        BY <2>1, <3>1, <4>2 DEF Covered
      <4>3. QED
        BY <1>0, <2>2, <3>2, <4>1, <4>2
    <3>4. QED
      BY <2>1, <2>4, <3>2, <3>3 DEF PageCovered, Holds
  <2>5. CASE w # a
    <3>1. replayed'[a] = replayed[a]
      BY <1>0, <2>1, <2>2, <2>5
    <3>2. QED
      BY <2>1, <2>2, <2>3, <3>1, CoveredKept
  <2>6. QED
    BY <2>4, <2>5
<1>8. ASSUME NEW w \in LogPages, ReplayFails(w) \/ ReplayEnds(w)
      PROVE  PageCovered(a)'
  <2>1. /\ Holds(log_buffer_lock, w) /\ handler[w] = "replay"
        /\ UNCHANGED <<page, entry, log_buffer, active_websocket, replayed, seen>>
    BY <1>8 DEF ReplayFails, ReplayEnds
  <2>2. PageCovered(a) /\ page[a] = "up"
    BY <1>1, <2>1
  <2>3. CASE w = a
    <3>1. ReplayEnds(w)
      BY <1>8, <2>2, <2>3 DEF ReplayFails
    <3>2. handler'[a] = "open" /\ replayed[a] = Len(log_buffer)
      BY <1>0, <2>2, <2>3, <3>1 DEF ReplayEnds, Goes, PagesType
    <3>3. QED
      BY <2>1, <2>2, <2>3, <3>2 DEF PageCovered, Covered
  <2>4. CASE w # a
    <3>1. handler'[a] = handler[a] /\ ~ Holds(log_buffer_lock, a)
      BY <1>0, <1>8, <2>1, <2>2, <2>4
      DEF ReplayFails, ReplayEnds, Goes, PagesType, Holds
    <3>2. QED
      BY <2>1, <2>2, <3>1, CoveredKept
  <2>5. QED
    BY <2>3, <2>4
<1>9. ASSUME NEW w \in LogPages, NoticeLogPage(w) \/ LeaveLogPage(w)
      PROVE  PageCovered(a)'
  <2>1. UNCHANGED <<page, entry, log_buffer, log_buffer_lock, replayed, seen>>
    BY <1>9 DEF NoticeLogPage, LeaveLogPage
  <2>2. active_websocket = a
    BY <1>0, <1>9 DEF NoticeLogPage, LeaveLogPage
  <2>3. PageCovered(a) /\ page[a] = "up"
    BY <1>1, <2>1, <2>2
  <2>4. CASE w = a
    <3>1. handler'[a] \in {"leave", "done"}
      BY <1>0, <1>9, <2>4 DEF NoticeLogPage, LeaveLogPage, Goes, PagesType
    <3>2. QED
      BY <2>2, <3>1 DEF PageCovered
  <2>5. CASE w # a
    <3>1. handler'[a] = handler[a]
      BY <1>0, <1>9, <2>3, <2>5 DEF NoticeLogPage, LeaveLogPage, Goes, PagesType
    <3>2. QED
      BY <2>1, <2>2, <2>3, <3>1, CoveredKept
  <2>6. QED
    BY <2>4, <2>5
<1>10. CASE LogsStep
  BY <1>2, <1>3, <1>4, <1>5, <1>6, <1>7, <1>8, <1>9, <1>10 DEF LogsStep, LogPageStep
<1>11. CASE ~ LogsStep
  <2>1. UNCHANGED logs /\ HandlersKept(LogPages)
    BY <1>0, <1>11, Steps, TablesStepAlone, NodesStepAlone, ProcessesStepAlone, CloseAlone
    DEF HandlersKept, vars
  <2>2. UNCHANGED <<entry, log_buffer, log_buffer_lock, active_websocket, replayed, seen>>
    BY <2>1 DEF logs
  <2>3. page[a] = "up"
    <3>1. PagesKept(LogPages) \/ Close
      BY <1>0, <1>11, Steps, TablesStepAlone, NodesStepAlone, ProcessesStepAlone
      DEF PagesKept, vars
    <3>2. QED
      BY <1>0, <2>2, <3>1 DEF PagesKept, Close, ClosePage, PagesType
  <2>4. PageCovered(a) /\ handler'[a] = handler[a]
    BY <1>1, <2>1, <2>2, <2>3 DEF HandlersKept
  <2>5. QED
    BY <2>2, <2>4, CoveredKept
<1>12. QED
  BY <1>10, <1>11

\* The page that is active, once it has been sent the buffer, has been sent
\* every entry of the buffer of a type the frontend shows, live or as it is
\* stored (which the frontend discards), or a connection is about to send it:
\* no entry falls between the replay and the live lines.
THEOREM NothingFallsBetween == Spec => []ActiveMissesNothing
<1>1. Init => ReplayInv
  BY DEF Init, ReplayInv, NothingReplayed, ActiveCovered
<1>2. TypeInv /\ ReplayInv /\ [Next]_vars => ReplayInv'
  BY NothingReplayedNext, ActiveCoveredNext DEF ReplayInv
<1>3. Spec => []ReplayInv
  BY <1>1, <1>2, TypeInvAlways, PTL DEF Spec
<1>4. QED
  BY <1>3, ReplayInvImplies, TypeInvAlways, PTL

-------------------------------------------------------------------------------
(* What the active page shows.                                             *)
(*                                                                         *)
(* An entry that has arrived is with its connection until it is sent, and  *)
(* it is sent to the page that is active then.                             *)

Shows(w) ==
    \A e \in (arrived \cap Shown) \ missed[w] :
        e \in ShownBy(w) \/ \E p \in Conns : entry[p].what = e

\* A page becomes active after it was opened, and is opened once.
ActiveIsOpened == active_websocket # None => page[active_websocket] # "off"

ShowsInv == ActiveIsOpened /\ ActiveShowsWhatIsSent

\* A page goes on showing what it shows while no connection is done.
LEMMA ShowsKept ==
    ASSUME NEW w, Shows(w), UNCHANGED <<entry, arrived>>, missed'[w] = missed[w],
           seen[w] \subseteq seen'[w]
    PROVE  Shows(w)'
  BY DEF Shows, ShownBy

LEMMA ActiveIsOpenedNext ==
    TypeInv /\ ActiveIsOpened /\ [Next]_vars => ActiveIsOpened'
<1> SUFFICES ASSUME TypeInv, ActiveIsOpened, [Next]_vars
             PROVE  ActiveIsOpened'
  OBVIOUS
<1>0. /\ PagesType /\ PageOff /\ LogPages \subseteq Pages
      /\ active_websocket \in LogPages \cup {None}
  BY DEF TypeInv, LogsInv, LogsType, Pages
<1>1. \A w \in Pages : page[w] # "off" => page'[w] # "off"
  <2>1. CASE LogsStep
    BY <1>0, <2>1
    DEF LogsStep, StoreEntry, SendEntry, Arrive, OpenLogPage, LogPageStep, Activate,
        ReplayEntry, ReplayFails, ReplayEnds, NoticeLogPage, LeaveLogPage, PagesType
  <2>2. CASE TablesStep
    BY <1>0, <2>2
    DEF TablesStep, Write, Trigger, BroadcastEnds, Broadcast, OpenDbPage, DbPageStep,
        Register, NoticeDbPage, LeaveDbPage, PagesType
  <2>3. CASE NodesStep
    BY <1>0, <2>3
    DEF NodesStep, Subscribe, NodePageStep, ReplayLine, DropDuringReplay, KeepAlive,
        Dispatch, ReadLine, Prune, PagesType
  <2>4. CASE ProcessesStep \/ UNCHANGED vars
    BY <2>4, ProcessesStepAlone DEF vars
  <2>5. CASE Close
    BY <1>0, <2>5 DEF Close, ClosePage, PagesType
  <2>6. QED
    BY <2>1, <2>2, <2>3, <2>4, <2>5, Steps
<1>2. CASE active_websocket' \in {active_websocket, None}
  BY <1>0, <1>1, <1>2 DEF ActiveIsOpened
<1>3. ASSUME NEW w \in LogPages, Activate(w)
      PROVE  ActiveIsOpened'
  BY <1>0, <1>1, <1>3 DEF Activate, BecomesActive, ActiveIsOpened, PageOff
<1>4. CASE LogsStep
  BY <1>2, <1>3, <1>4
  DEF LogsStep, StoreEntry, SendEntry, Arrive, OpenLogPage, LogPageStep, ReplayEntry,
      ReplayFails, ReplayEnds, NoticeLogPage, LeaveLogPage
<1>5. CASE UNCHANGED logs
  BY <1>2, <1>5 DEF logs
<1>6. QED
  BY <1>0, <1>4, <1>5, Steps, TablesStepAlone, NodesStepAlone, ProcessesStepAlone,
     CloseAlone
  DEF vars

LEMMA ActiveShowsNext ==
    ASSUME TypeInv, ShowsInv, [Next]_vars,
           NEW a \in LogPages, active_websocket' = a, page'[a] = "up"
    PROVE  Shows(a)'
<1>0. /\ PagesType /\ PageOff /\ LogPages \subseteq Pages
      /\ seen \in [LogPages -> SUBSET ({"log", "raw"} \X Entries)]
      /\ missed \in [LogPages -> SUBSET Entries] /\ arrived \subseteq Entries
      /\ entry \in [Conns -> {Idle} \cup [step : {"store", "send"}, what : Entries]]
      /\ None \notin Pages /\ None \notin Entries
  BY GuiConstants DEF TypeInv, LogsInv, LogsType, Pages
<1>1. ASSUME active_websocket = a, page[a] = "up"
      PROVE  Shows(a)
  BY <1>0, <1>1 DEF ShowsInv, ActiveShowsWhatIsSent, Shows
<1>2. ASSUME NEW p \in Conns, NEW e \in Entries, Arrive(p, e)
      PROVE  Shows(a)'
  <2>1. /\ entry[p] = Idle /\ arrived' = arrived \cup {e}
        /\ entry' = [entry EXCEPT ![p] = [step |-> "store", what |-> e]]
        /\ UNCHANGED <<page, active_websocket, seen, missed>>
    BY <1>2 DEF Arrive
  <2>2. Shows(a)
    BY <1>1, <2>1
  <2>3. entry[p].what \notin Entries
    BY <1>0, <2>1 DEF Idle
  <2>4. entry'[p].what = e /\ \A q \in Conns : q # p => entry'[q] = entry[q]
    BY <1>0, <2>1
  <2>5. QED
    BY <1>0, <2>1, <2>2, <2>3, <2>4 DEF Shows, ShownBy
<1>3. ASSUME NEW p \in Conns, StoreEntry(p)
      PROVE  Shows(a)'
  <2>1. /\ entry' = [entry EXCEPT ![p].step = "send"]
        /\ UNCHANGED <<page, active_websocket, arrived, seen, missed>>
    BY <1>3 DEF StoreEntry
  <2>2. Shows(a)
    BY <1>1, <2>1
  <2>3. \A q \in Conns : entry'[q].what = entry[q].what
    BY <1>0, <2>1 DEF Idle
  <2>4. QED
    BY <2>1, <2>2, <2>3 DEF Shows, ShownBy
<1>4. ASSUME NEW p \in Conns, SendEntry(p)
      PROVE  Shows(a)'
  <2>1. /\ entry' = [entry EXCEPT ![p] = Idle]
        /\ UNCHANGED <<page, arrived, missed>> /\ active_websocket = a
    BY <1>0, <1>4 DEF SendEntry
  <2>2. Shows(a) /\ page[a] = "up"
    BY <1>1, <2>1
  <2>3. /\ entry[p].what \in Shown => Live(entry[p].what) \in seen'[a]
        /\ seen[a] \subseteq seen'[a]
    BY <1>0, <1>4, <2>1, <2>2 DEF SendEntry, Sees
  <2>4. \A q \in Conns : q # p => entry'[q] = entry[q]
    BY <1>0, <2>1
  <2>5. QED
    BY <1>0, <2>1, <2>2, <2>3, <2>4 DEF Shows, ShownBy
<1>5. ASSUME NEW w \in LogPages, Activate(w)
      PROVE  Shows(a)'
  <2>1. /\ w = a /\ UNCHANGED <<entry, arrived>>
        /\ missed'[a] = arrived \ {entry[p].what : p \in Conns}
    BY <1>0, <1>5 DEF Activate, BecomesActive
  <2>2. QED
    BY <2>1 DEF Shows
<1>6. ASSUME NEW w \in LogPages, OpenLogPage(w)
      PROVE  Shows(a)'
  <2>1. /\ page[w] = "off" /\ page' = [page EXCEPT ![w] = "up"]
        /\ UNCHANGED <<entry, arrived, seen, missed, active_websocket>>
    BY <1>6 DEF OpenLogPage
  <2>2. page[a] = "up"
    <3>1. a # w
      BY <1>0, <2>1 DEF ShowsInv, ActiveIsOpened
    <3>2. QED
      BY <1>0, <2>1, <3>1 DEF PagesType
  <2>3. QED
    BY <1>1, <2>1, <2>2, ShowsKept
<1>7. ASSUME NEW w \in LogPages,
             \/ ReplayEntry(w) \/ ReplayFails(w) \/ ReplayEnds(w)
             \/ NoticeLogPage(w) \/ LeaveLogPage(w)
      PROVE  Shows(a)'
  <2>1. UNCHANGED <<page, entry, arrived, missed>> /\ active_websocket = a
    BY <1>0, <1>7
    DEF ReplayEntry, ReplayFails, ReplayEnds, NoticeLogPage, LeaveLogPage
  <2>2. seen[a] \subseteq seen'[a]
    BY <1>0, <1>7
    DEF ReplayEntry, ReplayFails, ReplayEnds, NoticeLogPage, LeaveLogPage, Sees
  <2>3. QED
    BY <1>1, <2>1, <2>2, ShowsKept
<1>8. CASE LogsStep
  BY <1>2, <1>3, <1>4, <1>5, <1>6, <1>7, <1>8 DEF LogsStep, LogPageStep
<1>9. CASE ~ LogsStep
  <2>1. UNCHANGED logs
    BY <1>0, <1>9, Steps, TablesStepAlone, NodesStepAlone, ProcessesStepAlone, CloseAlone
    DEF vars
  <2>2. UNCHANGED <<entry, arrived, active_websocket, seen, missed>>
    BY <2>1 DEF logs
  <2>3. page[a] = "up"
    <3>1. PagesKept(LogPages) \/ Close
      BY <1>0, <1>9, Steps, TablesStepAlone, NodesStepAlone, ProcessesStepAlone
      DEF PagesKept, vars
    <3>2. QED
      BY <1>0, <3>1 DEF PagesKept, Close, ClosePage, PagesType
  <2>4. QED
    BY <1>1, <2>2, <2>3, ShowsKept
<1>10. QED
  BY <1>8, <1>9

\* While a page is the active one it shows every entry of the types Console and
\* Metric that is sent from the moment it became active, also what had arrived
\* before and what is sent while the buffer is replayed to it: all that has
\* arrived, but for what had been sent before and what a connection still holds.
THEOREM ActiveShows == Spec => []ActiveShowsWhatIsSent
<1>1. Init => ShowsInv
  BY DEF Init, ShowsInv, ActiveIsOpened, ActiveShowsWhatIsSent
<1>2. TypeInv /\ ShowsInv /\ [Next]_vars => ShowsInv'
  <2> SUFFICES ASSUME TypeInv, ShowsInv, [Next]_vars
               PROVE  ShowsInv'
    OBVIOUS
  <2>1. active_websocket' \in LogPages \cup {None}
    <3>1. TypeInv'
      BY TypeInvNext
    <3>2. QED
      BY <3>1 DEF TypeInv, LogsInv, LogsType
  <2>2. ActiveShowsWhatIsSent'
    <3>1. ASSUME NEW a \in LogPages, active_websocket' = a, page'[a] = "up"
          PROVE  Shows(a)'
      BY <3>1, ActiveShowsNext
    <3>2. ASSUME active_websocket' # None, page'[active_websocket'] = "up"
          PROVE  Shows(active_websocket)'
      <4>1. PICK a \in LogPages : a = active_websocket'
        BY <2>1, <3>2
      <4>2. Shows(a)'
        BY <3>1, <3>2, <4>1
      <4>3. QED
        BY <4>1, <4>2 DEF Shows, ShownBy
    <3>3. QED
      BY <3>2 DEF ActiveShowsWhatIsSent, Shows
  <2>3. QED
    BY <2>2, ActiveIsOpenedNext DEF ShowsInv
<1>3. ShowsInv => ActiveShowsWhatIsSent
  BY DEF ShowsInv
<1>4. QED
  BY <1>1, <1>2, <1>3, TypeInvAlways, PTL DEF Spec
===============================================================================

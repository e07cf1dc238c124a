------------------------------ MODULE GuiBackend ------------------------------
(***************************************************************************)
(* The backend of the GUI (src/GUI/backend): one asyncio event loop whose  *)
(* tasks take turns at their awaits.  Three streams go to browser pages:   *)
(* the log lines the other programs send over TCP, the snapshots of the    *)
(* database tables, and the lines of the heartbeat server's log file.  It  *)
(* also starts and stops the heartbeat server.                             *)
(*                                                                         *)
(* An asyncio.Lock is first come, first served, and acquiring a free one   *)
(* does not yield: a lock is the sequence of the tasks that asked for it,  *)
(* and the first one holds it.  A page is closed ("down") before its       *)
(* handler notices; a send to such a page fails or is swallowed by the     *)
(* transport.                                                              *)
(***************************************************************************)
EXTENDS Naturals, Sequences, FiniteSets, Functions

CONSTANTS
    LogPages,    \* pages on /ws/logs
    DbPages,     \* pages on /ws/db
    NodePages,   \* pages on /ws/heartbeat_logs of one node
    Conns,       \* TCP connections that deliver log lines
    Requests,    \* tasks that run fetch_and_broadcast_data
    Entries,     \* log entries, each sent once
    Shown,       \* those of the types Console and Metric
    None,        \* no page, no process
    MaxBuffer,   \* MAX_LOG_BUFFER_SIZE
    MaxHistory,  \* HISTORY_LIMIT
    MaxOutside   \* bound: events from outside the backend

Pages == LogPages \cup DbPages \cup NodePages

ASSUME GuiConstants ==
    /\ Shown \subseteq Entries
    /\ None \notin Pages \cup Nat \cup Entries
    /\ MaxBuffer \in Nat \ {0} /\ MaxHistory \in Nat \ {0} /\ MaxOutside \in Nat
    /\ Conns \cap LogPages = {} /\ Requests \cap DbPages = {}
    /\ LogPages \cap DbPages = {} /\ LogPages \cap NodePages = {}
    /\ DbPages \cap NodePages = {}

VARIABLES
    page,               \* each page: "off", "up" or "down"
    handler,            \* where its websocket handler is
    entry,              \* the entry a TCP connection is adding, and the step
    arrived,            \* the entries that have arrived
    log_buffer, log_buffer_lock, websocket_lock,
    active_websocket,   \* the page that gets the log lines
    replayed,           \* how many entries of the buffer a page has been sent
    seen,               \* history: the messages each log page has received
    missed,             \* history: the entries that had been sent when a page
                        \* became the active one
    version,            \* writes to each table so far
    fetch,              \* of each request: the table it broadcasts, what it has
                        \* read, the pages it is done with, and those whose
                        \* send failed
    client_lock, active_connections,
    latest,             \* history: the snapshot of each table a page shows
    tailing, lines,     \* whether the log is followed; lines read from it
    history,            \* _history_by_uuid of the node
    subscribers,        \* _ws_by_uuid of the node
    addressed, dead,    \* pages the last line has not been sent to yet, and
                        \* those whose send failed
    toReplay,           \* what is left of a page's copy of the history
    received,           \* history: the lines a node page has received
    tracked,            \* _HB_PROCESS
    servers, stopping,  \* heartbeat servers alive, and those told to end
    born,               \* servers started so far
    outside             \* how much of the bound is used

logs == <<entry, arrived, log_buffer, log_buffer_lock, websocket_lock,
          active_websocket, replayed, seen, missed>>
tables == <<version, fetch, client_lock, active_connections, latest>>
nodes == <<tailing, lines, history, subscribers, addressed, dead, toReplay, received>>
processes == <<tracked, servers, stopping, born>>
vars == <<page, handler, logs, tables, nodes, processes, outside>>

Tables == {1, 2}                  \* art and swarm_table, in the order read
Idle == [step |-> "idle", what |-> None]
NoFetch == [table |-> 0, read |-> 0, told |-> {}, failed |-> {}]

Init ==
    /\ page = [w \in Pages |-> "off"] /\ handler = [w \in Pages |-> "none"]
    /\ entry = [p \in Conns |-> Idle] /\ arrived = {}
    /\ log_buffer = <<>> /\ log_buffer_lock = <<>> /\ websocket_lock = <<>>
    /\ active_websocket = None
    /\ replayed = [w \in LogPages |-> 0] /\ seen = [w \in LogPages |-> {}]
    /\ missed = [w \in LogPages |-> {}]
    /\ version = [t \in Tables |-> 0]
    /\ fetch = [r \in Requests |-> NoFetch]
    /\ client_lock = <<>> /\ active_connections = {}
    /\ latest = [w \in DbPages |-> [t \in Tables |-> 0]]
    /\ tailing = FALSE /\ lines = 0 /\ history = <<>> /\ subscribers = {}
    /\ addressed = {} /\ dead = {}
    /\ toReplay = [w \in NodePages |-> <<>>] /\ received = [w \in NodePages |-> <<>>]
    /\ tracked = None /\ servers = {} /\ stopping = {} /\ born = 0
    /\ outside = 0

Outside == outside < MaxOutside /\ outside' = outside + 1

Holds(lock, task) == lock # <<>> /\ Head(lock) = task

\* Mistake: one element too many.
PushOneTooMany(queue, x, max) ==
    IF Len(queue) <= max THEN Append(queue, x) ELSE Append(Tail(queue), x)

\* deque(maxlen): the oldest element falls out.
Push(queue, x, max) ==
    IF Len(queue) < max THEN Append(queue, x) ELSE Append(Tail(queue), x)

Goes(w, where) == handler' = [handler EXCEPT ![w] = where]

-----------------------------------------------------------------------------
\* Log lines: handle_tcp_client, add_log_entry, websocket_log_stream.

\* A connection reads a line and asks for the buffer.
Arrive(p, e) ==
    /\ entry[p] = Idle /\ e \notin arrived
    /\ Outside
    /\ arrived' = arrived \cup {e}
    /\ entry' = [entry EXCEPT ![p] = [step |-> "store", what |-> e]]
    /\ log_buffer_lock' = Append(log_buffer_lock, p)
    /\ UNCHANGED <<page, handler, log_buffer, websocket_lock, active_websocket,
                   replayed, seen, missed, tables, nodes, processes>>

\* It stores the entry, and asks for the page to send it to.
StoreEntry(p) ==
    /\ Holds(log_buffer_lock, p)
    /\ log_buffer' = Push(log_buffer, entry[p].what, MaxBuffer)
    /\ log_buffer_lock' = Tail(log_buffer_lock)
    /\ entry' = [entry EXCEPT ![p].step = "send"]
    /\ websocket_lock' = Append(websocket_lock, p)
    /\ UNCHANGED <<page, handler, arrived, active_websocket, replayed, seen, missed,
                   tables, nodes, processes, outside>>

\* The two forms of an entry: wrapped as a message of type "log", or as it is
\* stored, with its own type.
Live(e) == <<"log", e>>
Raw(e) == <<"raw", e>>

Sees(w, message) == seen' = [seen EXCEPT ![w] = @ \cup {message}]

\* The frontend discards every message that is not of type "log".
ShownBy(w) == {e \in Entries : Live(e) \in seen[w]}

\* Mistake: a page gets live entries only when it has been sent the buffer.
SendWhenOpen(p) ==
    /\ Holds(websocket_lock, p)
    /\ LET w == active_websocket  e == entry[p].what
       IN  IF w = None \/ e \notin Shown \/ handler[w] # "open"
           THEN UNCHANGED <<seen, active_websocket>>
           ELSE \/ page[w] = "up" /\ Sees(w, Live(e)) /\ UNCHANGED active_websocket
                \/ page[w] = "down" /\ active_websocket' \in {w, None} /\ UNCHANGED seen
    /\ websocket_lock' = Tail(websocket_lock)
    /\ entry' = [entry EXCEPT ![p] = Idle]
    /\ UNCHANGED <<page, handler, arrived, log_buffer, log_buffer_lock, replayed,
                   missed, tables, nodes, processes, outside>>

\* send_log_to_websocket: only entries of the types the frontend shows are
\* sent, and a send that fails unsets the page.
SendEntry(p) ==
    /\ Holds(websocket_lock, p)
    /\ LET w == active_websocket  e == entry[p].what
       IN  IF w = None \/ e \notin Shown THEN UNCHANGED <<seen, active_websocket>>
           ELSE \/ page[w] = "up" /\ Sees(w, Live(e)) /\ UNCHANGED active_websocket
                \/ page[w] = "down" /\ active_websocket' \in {w, None} /\ UNCHANGED seen
    /\ websocket_lock' = Tail(websocket_lock)
    /\ entry' = [entry EXCEPT ![p] = Idle]
    /\ UNCHANGED <<page, handler, arrived, log_buffer, log_buffer_lock, replayed,
                   missed, tables, nodes, processes, outside>>

OpenLogPage(w) ==
    /\ page[w] = "off" /\ Outside
    /\ page' = [page EXCEPT ![w] = "up"]
    /\ Goes(w, "activate")
    /\ websocket_lock' = Append(websocket_lock, w)
    /\ UNCHANGED <<entry, arrived, log_buffer, log_buffer_lock, active_websocket,
                   replayed, seen, missed, tables, nodes, processes>>

BecomesActive(w) ==
    /\ active_websocket' = w
    /\ missed' = [missed EXCEPT ![w] = arrived \ {entry[p].what : p \in Conns}]

\* Mistake: the page becomes the active one when it has been sent the buffer.
ActivateAfterReplay(w) ==
    \/ /\ Holds(websocket_lock, w) /\ handler[w] = "activate"
       /\ websocket_lock' = Tail(websocket_lock)
       /\ Goes(w, "replay")
       /\ log_buffer_lock' = Append(log_buffer_lock, w)
       /\ UNCHANGED <<page, entry, arrived, log_buffer, active_websocket, replayed,
                      seen, missed, tables, nodes, processes, outside>>
    \/ /\ handler[w] = "open" /\ websocket_lock = <<>>
       /\ BecomesActive(w)
       /\ UNCHANGED <<page, handler, entry, arrived, log_buffer, log_buffer_lock,
                      websocket_lock, replayed, seen, tables, nodes, processes, outside>>

\* The page takes the place of the one before, and asks for the buffer.
Activate(w) ==
    /\ Holds(websocket_lock, w) /\ handler[w] = "activate"
    /\ BecomesActive(w)
    /\ websocket_lock' = Tail(websocket_lock)
    /\ Goes(w, "replay")
    /\ log_buffer_lock' = Append(log_buffer_lock, w)
    /\ UNCHANGED <<page, entry, arrived, log_buffer, replayed, seen, tables,
                   nodes, processes, outside>>

\* One entry of the buffer, as it is stored; the filters of a new page let all
\* of them through.
ReplayEntry(w) ==
    /\ Holds(log_buffer_lock, w) /\ handler[w] = "replay"
    /\ replayed[w] < Len(log_buffer)
    /\ replayed' = [replayed EXCEPT ![w] = @ + 1]
    /\ IF page[w] = "up" THEN Sees(w, Raw(log_buffer[replayed[w] + 1]))
                        ELSE UNCHANGED seen
    /\ UNCHANGED <<page, handler, entry, arrived, log_buffer, log_buffer_lock,
                   websocket_lock, active_websocket, missed, tables, nodes, processes,
                   outside>>

\* Mistake: the lock is not released when a send fails.
ReplayFailsHoldingLock(w) ==
    /\ Holds(log_buffer_lock, w) /\ handler[w] = "replay"
    /\ page[w] = "down" /\ replayed[w] < Len(log_buffer)
    /\ Goes(w, "done")
    /\ UNCHANGED <<page, logs, tables, nodes, processes, outside>>

\* The send fails outside the try: the handler ends and the page stays active.
ReplayFails(w) ==
    /\ Holds(log_buffer_lock, w) /\ handler[w] = "replay"
    /\ page[w] = "down" /\ replayed[w] < Len(log_buffer)
    /\ log_buffer_lock' = Tail(log_buffer_lock)
    /\ Goes(w, "done")
    /\ UNCHANGED <<page, entry, arrived, log_buffer, websocket_lock, active_websocket,
                   replayed, seen, missed, tables, nodes, processes, outside>>

ReplayEnds(w) ==
    /\ Holds(log_buffer_lock, w) /\ handler[w] = "replay"
    /\ replayed[w] = Len(log_buffer)
    /\ log_buffer_lock' = Tail(log_buffer_lock)
    /\ Goes(w, "open")
    /\ UNCHANGED <<page, entry, arrived, log_buffer, websocket_lock, active_websocket,
                   replayed, seen, missed, tables, nodes, processes, outside>>

\* The handler receives the disconnect.
NoticeLogPage(w) ==
    /\ handler[w] = "open" /\ page[w] = "down"
    /\ Goes(w, "leave")
    /\ websocket_lock' = Append(websocket_lock, w)
    /\ UNCHANGED <<page, entry, arrived, log_buffer, log_buffer_lock,
                   active_websocket, replayed, seen, missed, tables, nodes, processes, outside>>

\* Mistake: the page unsets whichever page is active.
LeaveUnchecked(w) ==
    /\ Holds(websocket_lock, w) /\ handler[w] = "leave"
    /\ active_websocket' = None
    /\ websocket_lock' = Tail(websocket_lock)
    /\ Goes(w, "done")
    /\ UNCHANGED <<page, entry, arrived, log_buffer, log_buffer_lock, replayed, seen, missed,
                   tables, nodes, processes, outside>>

\* Only a page that is still the active one unsets it.
LeaveLogPage(w) ==
    /\ Holds(websocket_lock, w) /\ handler[w] = "leave"
    /\ active_websocket' = IF active_websocket = w THEN None ELSE active_websocket
    /\ websocket_lock' = Tail(websocket_lock)
    /\ Goes(w, "done")
    /\ UNCHANGED <<page, entry, arrived, log_buffer, log_buffer_lock, replayed, seen, missed,
                   tables, nodes, processes, outside>>

LogPageStep(w) ==
    \/ Activate(w) \/ ReplayEntry(w) \/ ReplayFails(w) \/ ReplayEnds(w)
    \/ NoticeLogPage(w) \/ LeaveLogPage(w)

-----------------------------------------------------------------------------
\* Snapshots: trigger_db_update, fetch_and_broadcast_data, websocket_handler.

\* The coordinator or an access point changes a row.
Write(t) ==
    /\ Outside
    /\ version' = [version EXCEPT ![t] = @ + 1]
    /\ UNCHANGED <<page, handler, logs, fetch, client_lock, active_connections, latest, nodes, processes>>

\* The next table that can be read, and the wait for the clients: reading
\* blocks the loop, so nothing runs between the two.
ReadFrom(r, tried) ==
    \/ \E t \in Tables \ tried :
          /\ fetch' = [fetch EXCEPT ![r] = [table |-> t, read |-> version[t],
                                            told |-> {}, failed |-> {}]]
          /\ client_lock' = IF tried = {} THEN Append(client_lock, r)
                            ELSE Append(Tail(client_lock), r)
    \/ /\ fetch' = [fetch EXCEPT ![r] = NoFetch]
       /\ client_lock' = IF tried = {} THEN client_lock ELSE Tail(client_lock)

Trigger(r) ==
    /\ fetch[r] = NoFetch /\ Outside
    /\ ReadFrom(r, {})
    /\ UNCHANGED <<page, handler, logs, version, active_connections, latest, nodes, processes>>

\* Mistake: the broadcast does not wait for the one before.
BroadcastUnlocked(r, w) ==
    /\ fetch[r] # NoFetch /\ w \in active_connections \ fetch[r].told
    /\ fetch' = [fetch EXCEPT ![r].told = @ \cup {w}]
    /\ latest' = [latest EXCEPT ![w][fetch[r].table] = fetch[r].read]
    /\ UNCHANGED <<page, handler, logs, version, client_lock, active_connections,
                   nodes, processes, outside>>

\* active_connections is changed under client_lock alone: what is left of the
\* copy the broadcast goes through is what it is not done with.
Broadcast(r, w) ==
    /\ Holds(client_lock, r) /\ w \in active_connections \ fetch[r].told
    /\ LET b == [fetch[r] EXCEPT !.told = @ \cup {w}]
       IN  \/ /\ page[w] = "up"
              /\ fetch' = [fetch EXCEPT ![r] = b]
              /\ latest' = [latest EXCEPT ![w][b.table] = b.read]
           \/ /\ page[w] = "down"
              /\ fetch' \in {[fetch EXCEPT ![r] = c] :
                             c \in {[b EXCEPT !.failed = @ \cup {w}]}
                                   \cup IF handler[w] = "open" THEN {b} ELSE {}}
              /\ UNCHANGED latest
    /\ UNCHANGED <<page, handler, logs, version, client_lock, active_connections,
                   nodes, processes, outside>>

BroadcastEnds(r) ==
    /\ Holds(client_lock, r) /\ active_connections \subseteq fetch[r].told
    /\ active_connections' = active_connections \ fetch[r].failed
    /\ ReadFrom(r, 1 .. fetch[r].table)
    /\ UNCHANGED <<page, handler, logs, version, latest, nodes, processes, outside>>

OpenDbPage(w) ==
    /\ page[w] = "off" /\ Outside
    /\ page' = [page EXCEPT ![w] = "up"]
    /\ Goes(w, "register")
    /\ client_lock' = Append(client_lock, w)
    /\ UNCHANGED <<logs, version, fetch, active_connections, latest,
                   nodes, processes>>

Register(w) ==
    /\ Holds(client_lock, w) /\ handler[w] = "register"
    /\ active_connections' = active_connections \cup {w}
    /\ client_lock' = Tail(client_lock)
    /\ Goes(w, "open")
    /\ UNCHANGED <<page, logs, version, fetch, latest, nodes,
                   processes, outside>>

NoticeDbPage(w) ==
    /\ handler[w] = "open" /\ page[w] = "down"
    /\ Goes(w, "leave")
    /\ client_lock' = Append(client_lock, w)
    /\ UNCHANGED <<page, logs, version, fetch, active_connections, latest, nodes, processes, outside>>

LeaveDbPage(w) ==
    /\ Holds(client_lock, w) /\ handler[w] = "leave"
    /\ active_connections' = active_connections \ {w}
    /\ client_lock' = Tail(client_lock)
    /\ Goes(w, "done")
    /\ UNCHANGED <<page, logs, version, fetch, latest, nodes,
                   processes, outside>>

DbPageStep(w) == Register(w) \/ NoticeDbPage(w) \/ LeaveDbPage(w)

-----------------------------------------------------------------------------
\* The heartbeat server's log: _tail_heartbeat_log, websocket_endpoint.

\* Mistake: the page copies the history, waits, and subscribes.
SubscribeAfterCopy(w) ==
    \/ /\ page[w] = "off" /\ Outside
       /\ page' = [page EXCEPT ![w] = "up"]
       /\ Goes(w, "copied")
       /\ tailing' = TRUE
       /\ toReplay' = [toReplay EXCEPT ![w] = history]
       /\ UNCHANGED <<logs, tables, lines, history, subscribers, addressed, dead,
                      received, processes>>
    \/ /\ handler[w] = "copied"
       /\ Goes(w, "replay")
       /\ subscribers' = subscribers \cup {w}
       /\ UNCHANGED <<page, logs, tables, tailing, lines, history, addressed, dead,
                      toReplay, received, processes, outside>>

\* The page subscribes, starts the tail if there is none, and copies the
\* history, with no await in between.
Subscribe(w) ==
    /\ page[w] = "off" /\ Outside
    /\ page' = [page EXCEPT ![w] = "up"]
    /\ Goes(w, "replay")
    /\ subscribers' = subscribers \cup {w}
    /\ tailing' = TRUE
    /\ toReplay' = [toReplay EXCEPT ![w] = history]
    /\ UNCHANGED <<logs, tables, lines, history, addressed, dead, received, processes>>

Receives(w, line) ==
    received' = IF page[w] = "up" THEN [received EXCEPT ![w] = Append(@, line)]
                ELSE received

ReplayLine(w) ==
    /\ handler[w] = "replay" /\ toReplay[w] # <<>>
    /\ Receives(w, Head(toReplay[w]))
    /\ toReplay' = [toReplay EXCEPT ![w] = Tail(@)]
    /\ UNCHANGED <<page, handler, logs, tables, tailing, lines, history, subscribers,
                   addressed, dead, processes, outside>>

DropDuringReplay(w) ==
    /\ handler[w] = "replay" /\ toReplay[w] # <<>> /\ page[w] = "down"
    /\ subscribers' = subscribers \ {w}
    /\ toReplay' = [toReplay EXCEPT ![w] = <<>>]
    /\ Goes(w, "done")
    /\ UNCHANGED <<page, logs, tables, tailing, lines, history, addressed, dead,
                   received, processes, outside>>

\* From here on the handler only sleeps: it never learns of a disconnect.
KeepAlive(w) ==
    /\ handler[w] = "replay" /\ toReplay[w] = <<>>
    /\ Goes(w, "open")
    /\ UNCHANGED <<page, logs, tables, nodes, processes, outside>>

NodePageStep(w) == ReplayLine(w) \/ DropDuringReplay(w) \/ KeepAlive(w)

\* The tail reads a line, keeps it, and copies the set of its subscribers.
ReadLine ==
    /\ tailing /\ addressed = {} /\ dead = {} /\ Outside
    /\ lines' = lines + 1
    /\ history' = Push(history, lines', MaxHistory)
    /\ addressed' = subscribers
    /\ UNCHANGED <<page, handler, logs, tables, tailing, subscribers, dead, toReplay,
                   received, processes>>

Dispatch(w) ==
    /\ w \in addressed
    /\ addressed' = addressed \ {w}
    /\ Receives(w, lines)
    /\ dead' \in {dead, IF page[w] = "down" THEN dead \cup {w} ELSE dead}
    /\ UNCHANGED <<page, handler, logs, tables, tailing, lines, history, subscribers,
                   toReplay, processes, outside>>

Prune ==
    /\ addressed = {} /\ dead # {}
    /\ subscribers' = subscribers \ dead
    /\ dead' = {}
    /\ UNCHANGED <<page, handler, logs, tables, tailing, lines, history, addressed,
                   toReplay, received, processes, outside>>

-----------------------------------------------------------------------------
\* The heartbeat server: start_heartbeat_server and stop_heartbeat_server of
\* heartbeat_api, whose routes come before those of the log server.

\* A server that is tracked and alive, or found by pgrep, is kept.  Where none is
\* there, or the check raises or returns an error, one is started, which may fail.
StartServer ==
    /\ Outside
    /\ \/ servers # {} /\ UNCHANGED processes
       \/ /\ tracked \notin servers
          /\ \/ /\ born' = born + 1
                /\ tracked' = born' /\ servers' = servers \cup {born'}
                /\ UNCHANGED stopping
             \/ tracked' = None /\ UNCHANGED <<servers, stopping, born>>
    /\ UNCHANGED <<page, handler, logs, tables, nodes>>

\* SIGTERM to the one tracked, else to every server there is.
StopServer ==
    /\ Outside
    /\ IF tracked \in servers
       THEN stopping' = stopping \cup {tracked} /\ tracked' = None
       ELSE stopping' = servers /\ UNCHANGED tracked
    /\ UNCHANGED <<page, handler, logs, tables, nodes, servers, born>>

\* A server ends when it has been told to, or by itself.
ServerEnds(s) ==
    /\ IF s \in stopping THEN UNCHANGED outside ELSE Outside
    /\ servers' = servers \ {s} /\ stopping' = stopping \ {s}
    /\ UNCHANGED <<page, handler, logs, tables, nodes, tracked, born>>

-----------------------------------------------------------------------------
\* A browser closes a page, or the network loses it.
ClosePage(w) ==
    /\ page[w] = "up" /\ Outside
    /\ page' = [page EXCEPT ![w] = "down"]
    /\ UNCHANGED <<handler, logs, tables, nodes, processes>>

Next ==
    \/ \E p \in Conns : StoreEntry(p) \/ SendEntry(p) \/ \E e \in Entries : Arrive(p, e)
    \/ \E w \in LogPages : OpenLogPage(w) \/ LogPageStep(w)
    \/ \E t \in Tables : Write(t)
    \/ \E r \in Requests : \/ Trigger(r) \/ BroadcastEnds(r)
                           \/ \E w \in DbPages : Broadcast(r, w)
    \/ \E w \in DbPages : OpenDbPage(w) \/ DbPageStep(w)
    \/ \E w \in NodePages : Subscribe(w) \/ NodePageStep(w) \/ Dispatch(w)
    \/ ReadLine \/ Prune
    \/ StartServer \/ StopServer \/ \E s \in servers : ServerEnds(s)
    \/ \E w \in Pages : ClosePage(w)

\* The event loop runs every task that can go on; a send ends, or fails.
Fairness ==
    /\ \A p \in Conns : WF_vars(StoreEntry(p)) /\ WF_vars(SendEntry(p))
    /\ \A w \in LogPages : WF_vars(LogPageStep(w))

Spec == Init /\ [][Next]_vars /\ Fairness

-----------------------------------------------------------------------------
\* Properties.

\* Every variable is of the kind the code gives it, and the two deques are
\* never longer than their maxlen.
TypeOK ==
    /\ page \in [Pages -> {"off", "up", "down"}]
    /\ handler \in [Pages -> {"none", "activate", "register", "replay", "open",
                              "leave", "done"}]
    /\ entry \in [Conns -> {Idle} \cup [step : {"store", "send"}, what : Entries]]
    /\ arrived \subseteq Entries
    /\ log_buffer \in Seq(Entries) /\ Len(log_buffer) <= MaxBuffer
    /\ log_buffer_lock \in Seq(Conns \cup LogPages)
    /\ websocket_lock \in Seq(Conns \cup LogPages)
    /\ active_websocket \in LogPages \cup {None}
    /\ replayed \in [LogPages -> Nat] /\ seen \in [LogPages -> SUBSET ({"log", "raw"} \X Entries)]
    /\ missed \in [LogPages -> SUBSET Entries]
    /\ version \in [Tables -> Nat]
    /\ fetch \in [Requests -> [table : Tables \cup {0}, read : Nat,
                               told : SUBSET DbPages, failed : SUBSET DbPages]]
    /\ client_lock \in Seq(Requests \cup DbPages)
    /\ active_connections \subseteq DbPages
    /\ latest \in [DbPages -> [Tables -> Nat]]
    /\ tailing \in BOOLEAN /\ lines \in Nat
    /\ history \in Seq(Nat) /\ Len(history) <= MaxHistory
    /\ subscribers \subseteq NodePages /\ addressed \subseteq NodePages
    /\ dead \subseteq NodePages
    /\ toReplay \in [NodePages -> Seq(Nat)] /\ received \in [NodePages -> Seq(Nat)]
    /\ born \in Nat /\ tracked \in 1 .. born \cup {None}
    /\ servers \subseteq 1 .. born /\ stopping \subseteq servers
    /\ outside \in 0 .. MaxOutside

\* The active log page, once it has been sent the buffer, has been sent every
\* entry the buffer holds, live or as it is stored, or a connection is about to
\* send it (add_log_entry stores before it sends, websocket_log_stream becomes
\* active before it replays): no entry falls between the replay and the live
\* lines.  What is replayed is not shown (websocket.js:65).
ActiveMissesNothing ==
    LET w == active_websocket
    IN  w # None /\ handler[w] = "open" /\ page[w] = "up" =>
            \A e \in Range(log_buffer) \cap Shown :
                \/ e \in ShownBy(w) \/ Raw(e) \in seen[w]
                \/ \E p \in Conns : entry[p] = [step |-> "send", what |-> e]

\* From the moment a page becomes the active one it shows, as long as it is, every
\* entry of the types Console and Metric that is sent, also what arrived before
\* and what is sent while the buffer is replayed to it: all that has arrived,
\* but for what had been sent before and what waits for one of the two locks.
ActiveShowsWhatIsSent ==
    LET w == active_websocket
    IN  w # None /\ page[w] = "up" =>
            \A e \in (arrived \cap Shown) \ missed[w] :
                e \in ShownBy(w) \/ \E p \in Conns : entry[p].what = e

\* A page that is open and active stays active until a newer page takes its
\* place, one that has not been active before: neither an older page that leaves
\* late nor a send that failed (to another page) unsets it.
ReplacedOnlyByNewer ==
    [][\A w \in LogPages :
          active_websocket = w /\ page[w] = "up" /\ active_websocket' # w =>
              \E v \in LogPages : active_websocket' = v /\ handler[v] = "activate"]_vars

\* Every log entry that has arrived is stored and sent, whatever pages come,
\* go or break during a replay: neither lock is held for ever.
EntriesGetThrough ==
    \A p \in Conns : entry[p] # Idle ~> entry[p] = Idle

\* A database page never goes back to an older snapshot of a table, however
\* many triggers are under way (fetch_and_broadcast_data reads, and waits for
\* client_lock, without an await in between).
SnapshotsInOrder ==
    [][\A w \in DbPages, t \in Tables : latest[w][t] <= latest'[w][t]]_vars

\* An open heartbeat-log page gets each line once, by the replay or live, and
\* every line of the history (websocket_endpoint subscribes and copies without
\* an await).
EachLineOnce ==
    \A w \in NodePages :
        page[w] = "up" =>
            LET all == received[w] \o toReplay[w]
                                   \o (IF w \in addressed THEN <<lines>> ELSE <<>>)
            IN  IsInjective(all) /\ Range(history) \subseteq Range(all)
=============================================================================

---------------------------- MODULE HeartbeatServer ----------------------------
(***************************************************************************)
(* The heartbeat server of the coordinator and one of its clients.  The    *)
(* server keeps a client's state twice: in Cassandra (db) and in the STATE *)
(* cache (cache).  A thread per datagram, a thread per registration and    *)
(* the timeout monitor read and write both; the lock protects single       *)
(* accesses to the cache, never a read and the write that follows it, but  *)
(* the monitor holds it across its write to the database.                  *)
(*                                                                         *)
(* Clients share nothing but the lock, so one client is modelled.  It is   *)
(* honest and its chain is never regenerated (heartbeat_client.py loads    *)
(* the chain it finds), so every w_i it sends is verified and a heartbeat  *)
(* is its index.                                                           *)
(***************************************************************************)
EXTENDS Integers

CONSTANTS
    Threads,       \* the threads that may handle datagrams at the same time
    ChainLength,   \* --length of the client's Winternitz chain
    MaxSessions,   \* bound: starts of the client process
    MaxRestarts,   \* bound: restarts of the server
    MaxFailures    \* bound: database writes that raise

ASSUME ConstantsOK ==
    /\ ChainLength \in Nat
    /\ MaxSessions \in Nat /\ MaxRestarts \in Nat /\ MaxFailures \in Nat

\* How long ago a time stamp is, compared with HEARTBEAT_TIMEOUT; a last_ts of
\* 0.0 is "never".
Age == {"never", "fresh", "old"}
State == [pk : BOOLEAN, last : 0..ChainLength, ts : Age,
          status : {"registered", "alive", "dead"}]

VARIABLES
    db,        \* the rows of node_keys and heartbeat_state (none: the defaults)
    cache,     \* STATE[client]
    thread,    \* each datagram thread: the index it handles, its time stamp
    tcp,       \* the thread that handles a registration
    monitor,   \* heartbeat_monitor; it holds the lock at "cache"
    client,    \* the client process and the index it sends next
    sent,      \* the highest index the client has sent: a datagram in the
               \* network may be late, lost, overtaken or delivered again
    raced,     \* history: in this run of the server, a handler read the state
               \* before another had saved it
    sessions, restarts, failures    \* how much of each bound is used

server == <<db, cache>>
bounds == <<sessions, restarts, failures>>
vars == <<server, thread, tcp, monitor, client, sent, raced, bounds>>

NoState == [pk |-> FALSE, last |-> 0, ts |-> "never", status |-> "registered"]
IdleThread == [pc |-> "idle", i |-> 0, ts |-> "never"]

Init ==
    /\ db = NoState /\ cache = NoState
    /\ thread = [t \in Threads |-> IdleThread]
    /\ tcp = [pc |-> "idle", ts |-> "never"]
    /\ monitor = [pc |-> "idle", ts |-> "never"]
    /\ client = [pc |-> "off", next |-> 1]
    /\ sent = 0
    /\ raced = FALSE
    /\ sessions = 0 /\ restarts = 0 /\ failures = 0

\* Mistake: nobody takes the lock.
NeverLocked == TRUE

\* The monitor leaves its lock only between two rounds.
LockFree == monitor.pc # "cache"

\* Some handler has read the state and has not yet saved what follows from it.
Saving == \/ \E t \in Threads : thread[t].pc \in {"db", "cache"}
          \/ tcp.pc \in {"resetdb", "resetcache"}

\* The state a save makes of s.
Saved(s, i, ts, status) == [s EXCEPT !.last = i, !.ts = ts, !.status = status]

-------------------------------------------------------------------------------
(* The client process.                                                     *)

\* The node manager starts the process, which sends its public key first.
Register ==
    /\ sessions < MaxSessions /\ client.pc = "off" /\ tcp.pc = "idle"
    /\ sessions' = sessions + 1
    /\ client' = [pc |-> "await", next |-> 1]
    /\ tcp' = [tcp EXCEPT !.pc = "key"]
    /\ UNCHANGED <<server, thread, monitor, sent, raced, restarts, failures>>

\* Mistake: the client does not see the end of its chain.
SendPastTheChain ==
    /\ client.pc = "beat"
    /\ sent' = IF client.next > sent THEN client.next ELSE sent
    /\ client' = [client EXCEPT !.next = @ + 1]
    /\ UNCHANGED <<server, thread, tcp, monitor, raced, bounds>>

SendHeartbeat ==
    /\ client.pc = "beat" /\ client.next <= ChainLength
    /\ sent' = IF client.next > sent THEN client.next ELSE sent
    /\ client' = [client EXCEPT !.next = @ + 1]
    /\ UNCHANGED <<server, thread, tcp, monitor, raced, bounds>>

\* No ACK in time, the chain exhausted, a signal, or the node gone.
StopClient ==
    /\ client.pc # "off"
    /\ client' = [client EXCEPT !.pc = "off"]
    /\ UNCHANGED <<server, thread, tcp, monitor, sent, raced, bounds>>

-------------------------------------------------------------------------------
(* _handle_tcp_client.                                                     *)

\* save_pubkey writes the database, then the cache.
StoreKey ==
    /\ tcp.pc = "key"
    /\ db' = [db EXCEPT !.pk = TRUE]
    /\ tcp' = [tcp EXCEPT !.pc = "check"]
    /\ UNCHANGED <<cache, thread, monitor, client, sent, raced, bounds>>

\* A dead client that registers again starts from index 0, a live one does not.
CheckStatus ==
    /\ tcp.pc = "check" /\ LockFree
    /\ cache' = [cache EXCEPT !.pk = TRUE]
    /\ tcp' = IF cache.status = "dead" THEN [pc |-> "resetdb", ts |-> "fresh"]
                                       ELSE [tcp EXCEPT !.pc = "ack"]
    /\ raced' = (raced \/ (cache.status = "dead" /\ Saving))
    /\ UNCHANGED <<db, thread, monitor, client, sent, bounds>>

ResetInDb ==
    /\ tcp.pc = "resetdb"
    /\ db' = Saved(db, 0, tcp.ts, "registered")
    /\ tcp' = [tcp EXCEPT !.pc = "resetcache"]
    /\ UNCHANGED <<cache, thread, monitor, client, sent, raced, bounds>>

ResetInCache ==
    /\ tcp.pc = "resetcache" /\ LockFree
    /\ cache' = Saved(cache, 0, tcp.ts, "registered")
    /\ tcp' = [tcp EXCEPT !.pc = "ack"]
    /\ UNCHANGED <<db, thread, monitor, client, sent, raced, bounds>>

Acknowledge ==
    /\ tcp.pc = "ack"
    /\ tcp' = [pc |-> "idle", ts |-> "never"]
    /\ client' = IF client.pc = "await" THEN [client EXCEPT !.pc = "beat"] ELSE client
    /\ UNCHANGED <<server, thread, monitor, sent, raced, bounds>>

\* The database write raises, done or not: NACK, and the client exits.
RegistrationFails ==
    /\ failures < MaxFailures /\ tcp.pc \in {"key", "resetdb"}
    /\ failures' = failures + 1
    /\ \/ UNCHANGED db
       \/ db' = IF tcp.pc = "key" THEN [db EXCEPT !.pk = TRUE]
                                  ELSE Saved(db, 0, tcp.ts, "registered")
    /\ tcp' = [pc |-> "idle", ts |-> "never"]
    /\ client' = IF client.pc = "await" THEN [client EXCEPT !.pc = "off"] ELSE client
    /\ UNCHANGED <<cache, thread, monitor, sent, raced, sessions, restarts>>

-------------------------------------------------------------------------------
(* _handle_hb_datagram.                                                    *)

\* Mistake: w_i is verified, but its index is not compared with the last one.
AcceptsVerified(i, last) == i >= 1

\* Strictly the next index, or one skipped.
Accepts(i, last) == i = last + 1 \/ i = last + 2

\* A datagram arrives: get_pubkey (from the database if need be), get_hb_state
\* and the checks.
Receive(t) ==
    /\ thread[t].pc = "idle" /\ LockFree
    /\ cache' = [cache EXCEPT !.pk = @ \/ db.pk]
    /\ \E i \in 1..sent :
          LET accepted == cache'.pk /\ Accepts(i, cache.last)
          IN /\ thread' = IF accepted
                          THEN [thread EXCEPT ![t] = [pc |-> "db", i |-> i, ts |-> "fresh"]]
                          ELSE thread
             /\ raced' = (raced \/ (accepted /\ Saving))
    /\ UNCHANGED <<db, tcp, monitor, client, sent, bounds>>

SaveInDb(t) ==
    /\ thread[t].pc = "db"
    /\ db' = Saved(db, thread[t].i, thread[t].ts, "alive")
    /\ thread' = [thread EXCEPT ![t].pc = "cache"]
    /\ UNCHANGED <<cache, tcp, monitor, client, sent, raced, bounds>>

SaveInCache(t) ==
    /\ thread[t].pc = "cache" /\ LockFree
    /\ cache' = Saved(cache, thread[t].i, thread[t].ts, "alive")
    /\ thread' = [thread EXCEPT ![t] = IdleThread]
    /\ UNCHANGED <<db, tcp, monitor, client, sent, raced, bounds>>

\* The database write raises, done or not: the heartbeat is dropped.
SaveFails(t) ==
    /\ failures < MaxFailures /\ thread[t].pc = "db"
    /\ failures' = failures + 1
    /\ db' \in {db, Saved(db, thread[t].i, thread[t].ts, "alive")}
    /\ thread' = [thread EXCEPT ![t] = IdleThread]
    /\ UNCHANGED <<cache, tcp, monitor, client, sent, raced, sessions, restarts>>

-------------------------------------------------------------------------------
(* heartbeat_monitor.                                                      *)

\* Mistake: a client that registered and sent no heartbeat is not watched.
SilentAlive == cache.status = "alive" /\ cache.ts = "old"

\* Mistake: a last_ts of 0.0 counts as a heartbeat long ago.
SilentFromTheStart == cache.status # "dead" /\ cache.ts # "fresh"

Silent == cache.status # "dead" /\ cache.ts = "old"

\* With the lock held from the test to the end of the save.
DeclareDeadInDb ==
    /\ monitor.pc = "idle" /\ Silent
    /\ db' = Saved(db, cache.last, "fresh", "dead")
    /\ monitor' = [pc |-> "cache", ts |-> "fresh"]
    /\ UNCHANGED <<cache, thread, tcp, client, sent, raced, bounds>>

DeclareDeadInCache ==
    /\ monitor.pc = "cache"
    /\ cache' = Saved(cache, cache.last, monitor.ts, "dead")
    /\ monitor' = [pc |-> "idle", ts |-> "never"]
    /\ UNCHANGED <<db, thread, tcp, client, sent, raced, bounds>>

\* The write raises, done or not: nothing catches it and the thread ends.
MonitorDies ==
    /\ failures < MaxFailures /\ monitor.pc = "idle" /\ Silent
    /\ failures' = failures + 1
    /\ db' \in {db, Saved(db, cache.last, "fresh", "dead")}
    /\ monitor' = [pc |-> "dead", ts |-> "never"]
    /\ UNCHANGED <<cache, thread, tcp, client, sent, raced, sessions, restarts>>

-------------------------------------------------------------------------------
\* HEARTBEAT_TIMEOUT seconds go by.
Aged(r) == [r EXCEPT !.ts = IF @ = "fresh" THEN "old" ELSE @]

TimePasses ==
    /\ db' = Aged(db) /\ cache' = Aged(cache)
    /\ thread' = [t \in Threads |-> Aged(thread[t])]
    /\ tcp' = Aged(tcp) /\ monitor' = Aged(monitor)
    /\ UNCHANGED <<client, sent, raced, bounds>>

\* preload_cache of a new run of the server; its threads are gone, and with
\* them what they had read.
Restart ==
    /\ restarts < MaxRestarts
    /\ restarts' = restarts + 1
    /\ cache' = db
    /\ thread' = [t \in Threads |-> IdleThread]
    /\ tcp' = [pc |-> "idle", ts |-> "never"]
    /\ monitor' = [pc |-> "idle", ts |-> "never"]
    /\ client' = IF client.pc = "await" THEN [client EXCEPT !.pc = "off"] ELSE client
    /\ raced' = FALSE
    /\ UNCHANGED <<db, sent, sessions, failures>>

-------------------------------------------------------------------------------
ClientStep == Register \/ SendHeartbeat \/ StopClient

RegistrationStep ==
    \/ StoreKey \/ CheckStatus \/ ResetInDb \/ ResetInCache
    \/ Acknowledge \/ RegistrationFails

HandlerStep(t) == SaveInDb(t) \/ SaveInCache(t) \/ SaveFails(t)

MonitorStep == DeclareDeadInDb \/ DeclareDeadInCache \/ MonitorDies

Next ==
    \/ ClientStep \/ RegistrationStep \/ MonitorStep
    \/ \E t \in Threads : Receive(t) \/ HandlerStep(t)
    \/ TimePasses \/ Restart

\* Threads run and time passes; nothing obliges the client or the network.
Fairness ==
    /\ WF_vars(RegistrationStep) /\ WF_vars(MonitorStep) /\ WF_vars(TimePasses)
    /\ \A t \in Threads : WF_vars(HandlerStep(t))

Spec == Init /\ [][Next]_vars /\ Fairness

-------------------------------------------------------------------------------
(* The registry the server implements is its cache.                        *)
Registry == INSTANCE HeartbeatRegistry WITH
    Keys <- {"pk"},
    key <- IF cache.pk THEN {"pk"} ELSE {},
    last <- cache.last, status <- cache.status, heard <- cache.ts,
    clean <- ~raced, run <- restarts

-------------------------------------------------------------------------------
(* Properties.                                                             *)

\* The type of every variable.
TypeOK ==
    /\ db \in State /\ cache \in State
    /\ thread \in [Threads -> [pc : {"idle", "db", "cache"},
                               i : 0..ChainLength, ts : Age]]
    /\ tcp \in [pc : {"idle", "key", "check", "resetdb", "resetcache", "ack"},
                ts : Age]
    /\ monitor \in [pc : {"idle", "cache", "dead"}, ts : Age]
    /\ client \in [pc : {"off", "await", "beat"}, next : 1..(ChainLength + 1)]
    /\ sent \in 0..ChainLength
    /\ raced \in BOOLEAN
    /\ sessions \in Nat /\ restarts \in Nat /\ failures \in Nat

\* The accepted index goes back only when a dead client registers again, and a
\* restart of the server forgets at most two heartbeats, of a client it then
\* holds dead, or completes such a registration, although the monitor may
\* overwrite in the database a heartbeat that is being saved, and although any
\* write to the database may fail, done or not: as long as no two handlers have
\* saved at once in this run of the server.
GoesForward ==
    [][cache'.last < cache.last /\ ~raced =>
          \/ ResetInCache
          \/ Restart /\ \/ /\ cache.last - cache'.last <= 2
                           /\ cache.status = "alive" /\ cache'.status = "dead"
                        \/ /\ cache.status = "dead"
                           /\ cache'.last = 0 /\ cache'.status = "registered"]_vars

\* "Enforce monotonicity" (heartbeat_server.py:297): while the server runs, the
\* accepted index goes back only when a dead client registers again.
Monotonic ==
    [][cache'.last < cache.last => tcp.pc = "resetcache" \/ Restart]_vars

\* The monitor never overrules a heartbeat that was stored after it found the
\* client silent: a client goes from alive to dead only while its last stored
\* heartbeat is too old.
FreshHeartbeatStands ==
    [][cache.status = "alive" /\ cache.ts = "fresh" /\ cache'.status = "dead"
          => Restart]_vars

\* The threads, the lock and the two copies of the state implement the atomic
\* registry: while the server runs, every change of the cache is one of the four
\* saves, with its condition, or the passing of time (heartbeat_server.py:149-165,
\* 221-223, 297-306, 336-338); a restart changes the state by at most one save.
ImplementsRegistry == Registry!RegistrySpec

\* A client that stops for good is eventually held dead for good, unless it has
\* never been heard of or the monitor's thread has died of a database failure.
SilenceIsNoticed ==
    <>[](client.pc = "off") =>
        <>[](\/ cache.status = "dead" \/ cache.ts = "never"
             \/ monitor.pc = "dead")
===============================================================================

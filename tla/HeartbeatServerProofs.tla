------------------------- MODULE HeartbeatServerProofs -------------------------
(***************************************************************************)
(* Theorems about HeartbeatServer for every set of threads, chain length   *)
(* and bound.                                                              *)
(***************************************************************************)
EXTENDS HeartbeatServer, TLAPS

-------------------------------------------------------------------------------
(* Type correctness.                                                       *)

\* What save_hb_state stores is a state again.
LEMMA SavedType ==
    ASSUME NEW s \in State, NEW i \in 0..ChainLength, NEW age \in Age,
           NEW status \in {"registered", "alive", "dead"}
    PROVE  Saved(s, i, age, status) \in State
  BY DEF Saved, State

\* The cache, the database and the locals of every thread have their types
\* after any step.
LEMMA TypeStep == TypeOK /\ [Next]_vars => TypeOK'
<1> SUFFICES ASSUME TypeOK, [Next]_vars
             PROVE  TypeOK'
  OBVIOUS
<1> USE ConstantsOK DEF TypeOK, server, bounds
<1>0. /\ 0 \in 0..ChainLength
      /\ "never" \in Age /\ "fresh" \in Age /\ "old" \in Age
      /\ 1 \in 1..(ChainLength + 1)
      /\ db.last \in 0..ChainLength /\ cache.last \in 0..ChainLength
      /\ db.ts \in Age /\ cache.ts \in Age
      /\ tcp.ts \in Age /\ monitor.ts \in Age
      /\ \A t \in Threads : thread[t].ts \in Age /\ thread[t].i \in 0..ChainLength
  BY DEF State, Age
<1>00. IdleThread \in [pc : {"idle", "db", "cache"}, i : 0..ChainLength, ts : Age]
  BY <1>0 DEF IdleThread
<1>1. CASE Register
  BY <1>1, <1>0 DEF Register
<1>2. CASE SendHeartbeat
  BY <1>2, <1>0, <1>00 DEF SendHeartbeat
<1>3. CASE StopClient
  BY <1>3, <1>0, <1>00 DEF StopClient
<1>4. CASE StoreKey
  BY <1>4, <1>0, <1>00 DEF StoreKey, State
<1>5. CASE CheckStatus
  BY <1>5, <1>0, <1>00 DEF CheckStatus, State, Age
<1>6. CASE ResetInDb
  BY <1>6, <1>0, <1>00, SavedType DEF ResetInDb, Age
<1>7. CASE ResetInCache
  BY <1>7, <1>0, <1>00, SavedType DEF ResetInCache, Age
<1>8. CASE Acknowledge
  BY <1>8, <1>0, <1>00 DEF Acknowledge, Age
<1>9. CASE RegistrationFails
  <2>1. db' \in State
    <3>1. [db EXCEPT !.pk = TRUE] \in State
      BY DEF State
    <3>2. Saved(db, 0, tcp.ts, "registered") \in State
      BY <1>0, SavedType
    <3>3. QED
      BY <1>9, <3>1, <3>2 DEF RegistrationFails
  <2>2. QED
    BY <1>9, <2>1, <1>0 DEF RegistrationFails
<1>10. ASSUME NEW t \in Threads, Receive(t)
       PROVE  TypeOK'
  BY <1>10, <1>0, <1>00 DEF Receive, State, Age
<1>11. ASSUME NEW t \in Threads, SaveInDb(t)
       PROVE  TypeOK'
  BY <1>11, <1>0, <1>00, SavedType DEF SaveInDb
<1>12. ASSUME NEW t \in Threads, SaveInCache(t)
       PROVE  TypeOK'
  BY <1>12, <1>0, <1>00, SavedType DEF SaveInCache
<1>13. ASSUME NEW t \in Threads, SaveFails(t)
       PROVE  TypeOK'
  <2>1. db' \in State
    <3>1. Saved(db, thread[t].i, thread[t].ts, "alive") \in State
      BY <1>0, SavedType
    <3>2. QED
      BY <1>13, <3>1 DEF SaveFails
  <2>2. QED
    BY <1>13, <1>00, <2>1 DEF SaveFails
<1>14. CASE DeclareDeadInDb
  BY <1>14, <1>0, <1>00, SavedType DEF DeclareDeadInDb, Age
<1>15. CASE DeclareDeadInCache
  BY <1>15, <1>0, <1>00, SavedType DEF DeclareDeadInCache, Age
<1>16. CASE MonitorDies
  <2>1. db' \in State
    <3>1. Saved(db, cache.last, "fresh", "dead") \in State
      BY <1>0, SavedType
    <3>2. QED
      BY <1>16, <3>1 DEF MonitorDies
  <2>2. QED
    BY <1>16, <1>0, <2>1 DEF MonitorDies
<1>17. CASE TimePasses
  BY <1>17, <1>0, <1>00 DEF TimePasses, Aged, State, Age
<1>18. CASE Restart
  <2>1. raced' \in BOOLEAN
    BY <1>18, Zenon DEF Restart
  <2>2. thread' \in [Threads -> [pc : {"idle", "db", "cache"}, i : 0..ChainLength, ts : Age]]
    BY <1>18, <1>00 DEF Restart
  <2>3. QED
    BY <1>18, <1>0, <2>1, <2>2 DEF Restart
<1>19. CASE UNCHANGED vars
  BY <1>19, <1>0, <1>00 DEF vars
<1>20. QED
  BY <1>1, <1>2, <1>3, <1>4, <1>5, <1>6, <1>7, <1>8, <1>9, <1>10, <1>11,
     <1>12, <1>13, <1>14, <1>15, <1>16, <1>17, <1>18, <1>19
     DEF Next, ClientStep, RegistrationStep, HandlerStep, MonitorStep

\* Every reachable state is well typed.
THEOREM TypeCorrect == Spec => []TypeOK
<1>1. Init => TypeOK
  <2> SUFFICES ASSUME Init
               PROVE  TypeOK
    OBVIOUS
  <2>1. NoState \in State
    BY ConstantsOK DEF NoState, State, Age
  <2>2. thread \in [Threads -> [pc : {"idle", "db", "cache"},
                              i : 0..ChainLength, ts : Age]]
    BY ConstantsOK DEF Init, IdleThread, Age
  <2>3. client \in [pc : {"off", "await", "beat"}, next : 1..(ChainLength + 1)]
    BY ConstantsOK DEF Init
  <2>4. sent \in 0..ChainLength
    BY ConstantsOK DEF Init
  <2>5. QED
    BY <2>1, <2>2, <2>3, <2>4 DEF Init, TypeOK, Age
<1>2. QED
  BY <1>1, TypeStep, PTL DEF Spec

-------------------------------------------------------------------------------
(* The monitor's verdict.                                                  *)

\* What the lock protects: while the monitor writes its verdict to the
\* database, nobody stores a heartbeat in the cache.
VerdictStands == monitor.pc = "cache" => cache.ts = "old"

\* VerdictStands is kept by every step: the lock excludes the handlers and
\* the registration from the cache while the monitor holds it.
LEMMA VerdictStep == VerdictStands /\ [Next]_vars => VerdictStands'
<1> SUFFICES ASSUME VerdictStands, [Next]_vars
             PROVE  VerdictStands'
  OBVIOUS
<1> USE DEF VerdictStands, LockFree
<1>1. CASE monitor.pc = "cache"
  <2>1. CASE Restart
    BY <2>1 DEF Restart
  <2>2. CASE TimePasses
    BY <1>1, <2>2 DEF TimePasses, Aged
  <2>3. CASE DeclareDeadInCache
    BY <2>3 DEF DeclareDeadInCache
  <2>4. CASE UNCHANGED <<cache, monitor>>
    BY <1>1, <2>4
  <2>5. QED
    BY <1>1, <2>1, <2>2, <2>3, <2>4
       DEF Next, ClientStep, RegistrationStep, HandlerStep, MonitorStep, vars,
           server, Register, SendHeartbeat, StopClient, StoreKey, CheckStatus,
           ResetInDb, ResetInCache, Acknowledge, RegistrationFails, Receive,
           SaveInDb, SaveInCache, SaveFails, DeclareDeadInDb, MonitorDies
<1>2. CASE monitor.pc # "cache"
  <2>1. CASE DeclareDeadInDb
    BY <2>1 DEF DeclareDeadInDb, Silent
  <2>2. CASE TimePasses
    BY <1>2, <2>2 DEF TimePasses, Aged
  <2>3. CASE UNCHANGED monitor \/ monitor' = [pc |-> "idle", ts |-> "never"]
             \/ monitor' = [pc |-> "dead", ts |-> "never"]
    BY <1>2, <2>3
  <2>4. QED
    BY <1>2, <2>1, <2>2, <2>3
       DEF Next, ClientStep, RegistrationStep, HandlerStep, MonitorStep, vars,
           Register, SendHeartbeat, StopClient, StoreKey, CheckStatus,
           ResetInDb, ResetInCache, Acknowledge, RegistrationFails, Receive,
           SaveInDb, SaveInCache, SaveFails, DeclareDeadInCache, MonitorDies,
           Restart
<1>3. QED
  BY <1>1, <1>2

\* A heartbeat stored after the monitor found the client silent is never
\* overruled by the monitor's verdict.
THEOREM FreshHeartbeatIsNotOverruled == Spec => FreshHeartbeatStands
<1>1. Init => VerdictStands
  BY DEF Init, VerdictStands
<1>2. ASSUME TypeOK, VerdictStands, [Next]_vars,
             cache.status = "alive", cache.ts = "fresh", cache'.status = "dead"
      PROVE  Restart
  <2>1. ~DeclareDeadInCache
    BY <1>2 DEF DeclareDeadInCache, VerdictStands
  <2>2. ~ResetInCache
    BY <1>2 DEF ResetInCache, Saved, TypeOK, State
  <2>3. \A t \in Threads : ~SaveInCache(t)
    BY <1>2 DEF SaveInCache, Saved, TypeOK, State
  <2>4. ~CheckStatus /\ ~TimePasses /\ \A t \in Threads : ~Receive(t)
    BY <1>2 DEF CheckStatus, TimePasses, Aged, Receive, TypeOK, State
  <2>5. cache' # cache
    BY <1>2
  <2>6. QED
    BY <1>2, <2>1, <2>2, <2>3, <2>4, <2>5
       DEF Next, ClientStep, RegistrationStep, HandlerStep, MonitorStep, vars,
           server, Register, SendHeartbeat, StopClient, StoreKey, ResetInDb,
           Acknowledge, RegistrationFails, SaveInDb, SaveFails,
           DeclareDeadInDb, MonitorDies
<1>3. TypeOK /\ VerdictStands /\ [Next]_vars
      => [cache.status = "alive" /\ cache.ts = "fresh" /\ cache'.status = "dead"
             => Restart]_vars
  BY <1>2
<1>4. QED
  BY <1>1, <1>3, VerdictStep, TypeCorrect, PTL DEF Spec, FreshHeartbeatStands

-------------------------------------------------------------------------------
(* What is about to be stored.                                             *)

Busy(t) == thread[t].pc \in {"db", "cache"}
Resetting == tcp.pc \in {"resetdb", "resetcache"}

\* What a step of the cache needs to know about the rest of the server, races or
\* not: the database has the key, no time stamp that is about to be stored is
\* "never", the monitor's verdict is about a client that is not dead.
Linked ==
    /\ cache.pk \/ tcp.pc = "check" => db.pk
    /\ \A t \in Threads :
           Busy(t) => cache.pk /\ thread[t].i >= 1 /\ thread[t].ts # "never"
    /\ Resetting => tcp.ts # "never"
    /\ monitor.pc = "cache" => monitor.ts # "never" /\ cache.status # "dead"

\* Linked is kept by every step.
LEMMA LinkedStep == TypeOK /\ Linked /\ [Next]_vars => Linked'
<1> SUFFICES ASSUME TypeOK, Linked, [Next]_vars
             PROVE  Linked'
  OBVIOUS
<1>0. /\ cache.last \in Nat /\ db.last \in Nat
      /\ db \in State /\ cache \in State
      /\ \A t \in Threads : thread[t].i \in Nat
      /\ failures \in Nat /\ raced \in BOOLEAN
      /\ thread \in [Threads -> [pc : {"idle", "db", "cache"},
                                 i : 0..ChainLength, ts : Age]]
      /\ tcp \in [pc : {"idle", "key", "check", "resetdb", "resetcache", "ack"},
                  ts : Age]
      /\ monitor \in [pc : {"idle", "cache", "dead"}, ts : Age]
  BY ConstantsOK DEF TypeOK, State
<1> USE <1>0 DEF Linked, Busy, Resetting
<1>1. CASE ClientStep
  BY <1>1 DEF ClientStep, Register, SendHeartbeat, StopClient, server, bounds
<1>2. CASE StoreKey
  BY <1>2 DEF StoreKey, server, bounds, State
<1>3. CASE CheckStatus
  BY <1>3 DEF CheckStatus, server, bounds, State
<1>4. CASE ResetInDb
  BY <1>4 DEF ResetInDb, server, bounds, State, Saved
<1>5. CASE ResetInCache
  BY <1>5 DEF ResetInCache, server, bounds, State, Saved, LockFree
<1>6. CASE Acknowledge
  BY <1>6 DEF Acknowledge, server, bounds
<1>7. CASE RegistrationFails
  <2>1. tcp'.pc = "idle"
    BY <1>7 DEF RegistrationFails
  <2>2. db.pk => db'.pk
    BY <1>7 DEF RegistrationFails, State, Saved
  <2>3. UNCHANGED <<cache, thread, monitor>>
    BY <1>7 DEF RegistrationFails
  <2>4. QED
    BY <2>1, <2>2, <2>3
<1>8. ASSUME NEW t \in Threads, Receive(t)
      PROVE  Linked'
  BY <1>8 DEF Receive, server, bounds, State, LockFree
<1>9. ASSUME NEW t \in Threads, SaveInDb(t)
      PROVE  Linked'
  BY <1>9 DEF SaveInDb, server, bounds, State, Saved
<1>10. ASSUME NEW t \in Threads, SaveInCache(t)
       PROVE  Linked'
  BY <1>10 DEF SaveInCache, server, bounds, State, Saved, IdleThread, LockFree
<1>11. ASSUME NEW t \in Threads, SaveFails(t)
       PROVE  Linked'
  <2>1. db.pk => db'.pk
    BY <1>11 DEF SaveFails, State, Saved
  <2>2. /\ \A u \in Threads : thread'[u].pc = "idle" \/ thread'[u] = thread[u]
        /\ UNCHANGED <<cache, tcp, monitor>>
    BY <1>11 DEF SaveFails, IdleThread
  <2>3. QED
    BY <2>1, <2>2
<1>12. CASE DeclareDeadInDb
  BY <1>12 DEF DeclareDeadInDb, server, bounds, State, Saved, Silent
<1>13. CASE DeclareDeadInCache
  BY <1>13 DEF DeclareDeadInCache, server, bounds, State, Saved
<1>14. CASE MonitorDies
  <2>1. monitor'.pc = "dead" /\ UNCHANGED <<cache, tcp, thread>>
    BY <1>14 DEF MonitorDies
  <2>2. db.pk => db'.pk
    BY <1>14 DEF MonitorDies, State, Saved
  <2>3. QED
    BY <2>1, <2>2
<1>15. CASE TimePasses
  <2>1. \A t \in Threads : /\ thread'[t].pc = thread[t].pc /\ thread'[t].i = thread[t].i
                           /\ thread[t].ts # "never" => thread'[t].ts # "never"
    BY <1>15 DEF TimePasses, Aged
  <2>2. /\ cache'.last = cache.last /\ db'.last = db.last
        /\ cache'.pk = cache.pk /\ db'.pk = db.pk
        /\ cache'.status = cache.status /\ db'.status = db.status
        /\ tcp'.pc = tcp.pc /\ monitor'.pc = monitor.pc
        /\ tcp.ts # "never" => tcp'.ts # "never"
        /\ monitor.ts # "never" => monitor'.ts # "never"
    BY <1>15 DEF TimePasses, Aged, State
  <2>3. QED
    BY <2>1, <2>2
<1>16. CASE Restart
  BY <1>16 DEF Restart, IdleThread
<1>17. CASE UNCHANGED vars
  BY <1>17 DEF vars, server, bounds
<1>18. QED
  BY <1>1, <1>2, <1>3, <1>4, <1>5, <1>6, <1>7, <1>8, <1>9, <1>10, <1>11,
     <1>12, <1>13, <1>14, <1>15, <1>16, <1>17
     DEF Next, RegistrationStep, HandlerStep, MonitorStep

-------------------------------------------------------------------------------
(* The accepted index.                                                     *)

\* The ways the database may differ from the cache (d and c): not at all; a
\* heartbeat, a verdict or a reset ahead, because a save is under way or has
\* failed half way; or the verdict of a monitor that overtook a heartbeat.
SameState(d, c) == d.last = c.last /\ d.status = c.status /\ d.ts = c.ts
HeartbeatAhead(d, c) ==
    c.pk /\ Accepts(d.last, c.last) /\ d.status = "alive" /\ d.ts # "never"
VerdictAhead(d, c) ==
    /\ c.status # "dead" /\ c.ts = "old"
    /\ d.last = c.last /\ d.status = "dead" /\ d.ts # "never"
ResetAhead(d, c) ==
    c.status = "dead" /\ d.last = 0 /\ d.status = "registered" /\ d.ts # "never"
Overruled(d, c) ==
    /\ c.status = "alive" /\ Accepts(c.last, d.last)
    /\ d.status = "dead" /\ d.ts # "never"

InStep(d, c) ==
    \/ SameState(d, c) \/ HeartbeatAhead(d, c) \/ VerdictAhead(d, c)
    \/ ResetAhead(d, c) \/ Overruled(d, c)

\* The heartbeat i, stamped ts, is in the database, or a verdict about the one
\* before it.
WrittenFirst(d, c, i, ts) ==
    \/ d.last = i /\ d.status = "alive" /\ d.ts = ts
    \/ d.last = c.last /\ d.status = "dead" /\ d.ts # "never"

\* Why the index goes forward.  One handler at a time saves; what it saves is
\* still the next index or the one after.  The database differs from the cache
\* by one save, or by a verdict that was written over a heartbeat.
Bounded ==
    ~raced =>
        /\ \A t, u \in Threads : Busy(t) /\ Busy(u) => t = u
        /\ \A t \in Threads : Busy(t) => /\ ~Resetting
                                         /\ Accepts(thread[t].i, cache.last)
        /\ \A t \in Threads :
               thread[t].pc = "cache" => WrittenFirst(db, cache, thread[t].i, thread[t].ts)
        /\ Resetting => cache.status = "dead"
        /\ tcp.pc = "resetcache" => ResetAhead(db, cache) /\ db.ts = tcp.ts
        /\ monitor.pc = "cache" =>
               \/ VerdictAhead(db, cache) /\ db.ts = monitor.ts
               \/ HeartbeatAhead(db, cache)
        /\ InStep(db, cache)

\* Bounded is kept by every step of a run without races, failed writes included.
LEMMA BoundedStep ==
    TypeOK /\ VerdictStands /\ Linked /\ Bounded /\ [Next]_vars => Bounded'
<1> SUFFICES ASSUME TypeOK, VerdictStands, Linked, Bounded, [Next]_vars, ~raced'
             PROVE  Bounded'
  BY DEF Bounded
<1>0. /\ cache.last \in Nat /\ db.last \in Nat
      /\ \A t \in Threads : thread[t].i \in Nat
      /\ failures \in Nat /\ raced \in BOOLEAN
      /\ db \in State /\ cache \in State
      /\ thread \in [Threads -> [pc : {"idle", "db", "cache"},
                                 i : 0..ChainLength, ts : Age]]
      /\ tcp \in [pc : {"idle", "key", "check", "resetdb", "resetcache", "ack"},
                  ts : Age]
      /\ monitor \in [pc : {"idle", "cache", "dead"}, ts : Age]
  BY ConstantsOK DEF TypeOK, State
<1> USE <1>0 DEF Bounded, Busy, Resetting, Accepts, InStep, SameState, HeartbeatAhead,
                 VerdictAhead, ResetAhead, Overruled, WrittenFirst
<1>1. CASE Register
  BY <1>1 DEF Register, server, bounds
<1>2. CASE SendHeartbeat \/ StopClient
  BY <1>2 DEF SendHeartbeat, StopClient, server, bounds
<1>3. CASE StoreKey
  <2>1. UNCHANGED <<db.last, db.status, db.ts, cache, thread, monitor, raced>>
    BY <1>3 DEF StoreKey, State
  <2>2. tcp.pc = "key" /\ tcp'.pc = "check"
    BY <1>3 DEF StoreKey
  <2>3. QED
    BY <2>1, <2>2
<1>4. CASE CheckStatus
  <2>1. /\ UNCHANGED <<cache.last, cache.status, cache.ts, db, thread, monitor>>
        /\ cache'.pk /\ monitor.pc # "cache"
    BY <1>4 DEF CheckStatus, State, LockFree
  <2>2. /\ tcp'.pc \in {"resetdb", "ack"} /\ tcp.pc = "check" /\ ~raced
        /\ tcp'.pc = "resetdb" => cache.status = "dead" /\ \A t \in Threads : ~Busy(t)
    BY <1>4 DEF CheckStatus, Saving
  <2>3. QED
    BY <2>1, <2>2
<1>5. CASE ResetInDb
  <2>1. /\ db'.last = 0 /\ db'.status = "registered" /\ db'.ts = tcp.ts
        /\ tcp.pc = "resetdb" /\ tcp'.pc = "resetcache" /\ tcp'.ts = tcp.ts
        /\ UNCHANGED <<cache, thread, monitor, raced>>
    BY <1>5 DEF ResetInDb, Saved, State
  <2>2. QED
    BY <2>1 DEF Linked
<1>6. CASE ResetInCache
  <2>1. /\ cache'.last = 0 /\ cache'.status = "registered" /\ cache'.ts = tcp.ts
        /\ tcp.pc = "resetcache" /\ tcp'.pc = "ack" /\ monitor.pc # "cache"
        /\ UNCHANGED <<db, thread, monitor, raced>>
    BY <1>6 DEF ResetInCache, Saved, State, LockFree
  <2>2. QED
    BY <2>1
<1>7. CASE Acknowledge
  BY <1>7 DEF Acknowledge, server, bounds
<1>8. ASSUME NEW t \in Threads, Receive(t)
      PROVE  Bounded'
  <2>1. /\ UNCHANGED <<cache.last, cache.status, cache.ts, db, tcp, monitor>>
        /\ cache.pk => cache'.pk
        /\ monitor.pc # "cache" /\ ~raced
    BY <1>8 DEF Receive, State, LockFree
  <2>2. \/ UNCHANGED thread
        \/ /\ \A u \in Threads : ~Busy(u) /\ ~Resetting
           /\ thread'[t].pc = "db" /\ Accepts(thread'[t].i, cache.last)
           /\ \A u \in Threads : u # t => thread'[u] = thread[u]
    BY <1>8 DEF Receive, Saving
  <2>3. QED
    BY <2>1, <2>2
<1>9. ASSUME NEW t \in Threads, SaveInDb(t)
      PROVE  Bounded'
  <2>1. /\ db'.last = thread[t].i /\ db'.status = "alive" /\ db'.ts = thread[t].ts
        /\ UNCHANGED <<cache, tcp, monitor, raced>>
        /\ thread[t].pc = "db"
    BY <1>9 DEF SaveInDb, Saved, State
  <2>2. /\ thread'[t].pc = "cache" /\ thread'[t].i = thread[t].i
        /\ thread'[t].ts = thread[t].ts
        /\ \A u \in Threads : u # t => thread'[u] = thread[u]
    BY <1>9 DEF SaveInDb
  <2>3. cache.pk /\ thread[t].ts # "never"
    BY <2>1 DEF Linked
  <2>4. HeartbeatAhead(db, cache)'
    BY <2>1, <2>3
  <2>5. QED
    BY <2>1, <2>2, <2>4
<1>10. ASSUME NEW t \in Threads, SaveInCache(t)
       PROVE  Bounded'
  <2>1. /\ cache'.last = thread[t].i /\ cache'.status = "alive"
        /\ cache'.ts = thread[t].ts
        /\ UNCHANGED <<db, tcp, monitor, raced>>
        /\ thread[t].pc = "cache" /\ monitor.pc # "cache"
    BY <1>10 DEF SaveInCache, Saved, State, LockFree
  <2>2. \A u \in Threads : ~Busy(u)'
    BY <1>10, <2>1 DEF SaveInCache, IdleThread
  <2>3. InStep(db, cache)'
    BY <2>1
  <2>4. QED
    BY <2>1, <2>2, <2>3
<1>11. CASE DeclareDeadInDb
  <2>1. /\ db'.last = cache.last /\ db'.status = "dead" /\ db'.ts = "fresh"
        /\ monitor'.pc = "cache" /\ monitor'.ts = "fresh"
        /\ cache.status # "dead" /\ cache.ts = "old"
        /\ UNCHANGED <<cache, thread, tcp, raced>>
    BY <1>11 DEF DeclareDeadInDb, Saved, State, Silent
  <2>2. QED
    BY <2>1
<1>12. CASE DeclareDeadInCache
  <2>1. /\ UNCHANGED <<cache.last, cache.pk>> /\ cache'.status = "dead"
        /\ cache'.ts = monitor.ts
        /\ UNCHANGED <<db, thread, tcp, raced>>
        /\ monitor.pc = "cache" /\ monitor'.pc = "idle" /\ cache.status # "dead"
    BY <1>12 DEF DeclareDeadInCache, Saved, State, Linked
  <2>2. InStep(db, cache)'
    BY <2>1
  <2>3. QED
    BY <2>1, <2>2
<1>13. CASE TimePasses
  <2> DEFINE Old(a) == IF a = "fresh" THEN "old" ELSE a
  <2>1. \A t \in Threads : /\ thread'[t].pc = thread[t].pc
                           /\ thread'[t].i = thread[t].i
                           /\ thread'[t].ts = Old(thread[t].ts)
    BY <1>13 DEF TimePasses, Aged
  <2>2. /\ cache'.last = cache.last /\ db'.last = db.last /\ tcp'.pc = tcp.pc
        /\ cache'.status = cache.status /\ db'.status = db.status
        /\ cache'.pk = cache.pk /\ monitor'.pc = monitor.pc
        /\ cache'.ts = Old(cache.ts) /\ db'.ts = Old(db.ts)
        /\ tcp'.ts = Old(tcp.ts) /\ monitor'.ts = Old(monitor.ts)
    BY <1>13 DEF TimePasses, Aged, State
  <2>3. UNCHANGED raced
    BY <1>13 DEF TimePasses
  <2>4. QED
    BY <2>1, <2>2, <2>3
<1>14. CASE Restart
  BY <1>14 DEF Restart, IdleThread
<1>15. CASE UNCHANGED vars
  BY <1>15 DEF vars, server, bounds
\* A save that fails leaves the database as it was or ahead of the cache by one
\* save, and nobody at work on it.
<1>16. CASE RegistrationFails
  <2>1. \/ UNCHANGED <<db.last, db.status, db.ts>>
        \/ /\ tcp.pc = "resetdb" /\ db'.last = 0 /\ db'.status = "registered"
           /\ db'.ts = tcp.ts
    <3>1. CASE tcp.pc = "key"
      <4>1. db' = db \/ db' = [db EXCEPT !.pk = TRUE]
        BY <1>16, <3>1 DEF RegistrationFails
      <4>2. QED
        BY <4>1 DEF State
    <3>2. CASE tcp.pc = "resetdb"
      <4>1. db' = db \/ db' = Saved(db, 0, tcp.ts, "registered")
        BY <1>16, <3>2 DEF RegistrationFails
      <4>2. QED
        BY <3>2, <4>1 DEF State, Saved
    <3>3. QED
      BY <1>16, <3>1, <3>2 DEF RegistrationFails
  <2>2. UNCHANGED <<cache, thread, monitor, raced>> /\ tcp'.pc = "idle"
    BY <1>16 DEF RegistrationFails
  <2>3. QED
    BY <2>1, <2>2 DEF Linked
<1>17. ASSUME NEW t \in Threads, SaveFails(t)
       PROVE  Bounded'
  <2>1. \/ db' = db
        \/ /\ db'.last = thread[t].i /\ db'.status = "alive"
           /\ db'.ts = thread[t].ts
    BY <1>17 DEF SaveFails, State, Saved
  <2>2. /\ \A u \in Threads : thread'[u].pc = "idle" \/ thread'[u] = thread[u]
        /\ thread'[t].pc = "idle"
        /\ UNCHANGED <<cache, tcp, monitor, raced>> /\ thread[t].pc = "db"
    BY <1>17 DEF SaveFails, IdleThread
  <2>3. cache.pk /\ thread[t].ts # "never"
    BY <2>2 DEF Linked
  <2>4. \A u \in Threads : ~Busy(u)'
    BY <2>2
  <2>5. db' = db \/ HeartbeatAhead(db, cache)'
    BY <2>1, <2>2, <2>3
  <2>6. QED
    BY <2>2, <2>4, <2>5
<1>18. CASE MonitorDies
  <2>1. \/ db' = db
        \/ db'.last = cache.last /\ db'.status = "dead" /\ db'.ts = "fresh"
    BY <1>18 DEF MonitorDies, State, Saved
  <2>2. /\ UNCHANGED <<cache, thread, tcp, raced>> /\ cache.status # "dead"
        /\ cache.ts = "old" /\ monitor.pc = "idle" /\ monitor'.pc = "dead"
    BY <1>18 DEF MonitorDies, Silent
  <2>3. QED
    BY <2>1, <2>2
<1>19. QED
  BY <1>1, <1>2, <1>3, <1>4, <1>5, <1>6, <1>7, <1>8, <1>9, <1>10, <1>11,
     <1>12, <1>13, <1>14, <1>15, <1>16, <1>17, <1>18
     DEF Next, ClientStep, RegistrationStep, HandlerStep, MonitorStep

\* The accepted index goes back only at a reset, and at a restart of the server by
\* at most two, of a client then held dead, or to the reset of a dead client,
\* whichever writes failed.
THEOREM IndexGoesForward == Spec => GoesForward
<1>1. Init => Bounded
  BY DEF Init, Bounded, Busy, Resetting, IdleThread, InStep, SameState
<1>2. ASSUME TypeOK, Bounded, [Next]_vars,
             cache'.last < cache.last, ~raced
      PROVE  \/ ResetInCache
             \/ Restart /\ \/ /\ cache.last - cache'.last <= 2
                              /\ cache.status = "alive" /\ cache'.status = "dead"
                           \/ /\ cache.status = "dead"
                              /\ cache'.last = 0 /\ cache'.status = "registered"
  <2>0. cache.last \in Nat /\ db.last \in Nat /\ \A t \in Threads : thread[t].i \in Nat
    BY <1>2, ConstantsOK DEF TypeOK, State
  <2>1. CASE Restart
    BY <1>2, <2>0, <2>1
       DEF Restart, Bounded, InStep, SameState, HeartbeatAhead, VerdictAhead, ResetAhead,
           Overruled, Accepts
  <2>2. CASE ResetInCache
    BY <2>2
  <2>3. ASSUME NEW t \in Threads, SaveInCache(t)
        PROVE  FALSE
    <3>1. cache'.last = thread[t].i
      BY <2>3, <1>2 DEF SaveInCache, Saved, TypeOK, State
    <3>2. thread[t].i > cache.last
      BY <2>3, <2>0, <1>2 DEF SaveInCache, Bounded, Busy, Accepts
    <3>3. QED
      BY <3>1, <3>2, <2>0, <1>2
  <2>4. ASSUME CheckStatus \/ TimePasses \/ DeclareDeadInCache
               \/ \E t \in Threads : Receive(t)
        PROVE  FALSE
    <3>1. cache'.last = cache.last
      BY <2>4, <1>2 DEF CheckStatus, TimePasses, Aged, Receive,
                        DeclareDeadInCache, Saved, TypeOK, State
    <3>2. QED
      BY <3>1, <2>0, <1>2
  <2>5. cache' # cache
    BY <1>2, <2>0
  <2>6. QED
    BY <1>2, <2>1, <2>2, <2>3, <2>4, <2>5
       DEF Next, ClientStep, RegistrationStep, HandlerStep, MonitorStep, vars,
           server, Register, SendHeartbeat, StopClient, StoreKey, ResetInDb,
           Acknowledge, RegistrationFails, SaveInDb, SaveFails,
           DeclareDeadInDb, MonitorDies
<1>3. TypeOK /\ Bounded /\ [Next]_vars
      => [cache'.last < cache.last /\ ~raced =>
             \/ ResetInCache
             \/ Restart /\ \/ /\ cache.last - cache'.last <= 2
                              /\ cache.status = "alive" /\ cache'.status = "dead"
                           \/ /\ cache.status = "dead"
                              /\ cache'.last = 0 /\ cache'.status = "registered"]_vars
  BY <1>2
<1>4. Init => VerdictStands /\ Linked
  BY DEF Init, VerdictStands, Linked, Busy, Resetting, IdleThread, NoState
<1>5. QED
  BY <1>1, <1>3, <1>4, VerdictStep, LinkedStep, BoundedStep, TypeCorrect, PTL DEF Spec, GoesForward

-------------------------------------------------------------------------------
(* The server implements the registry.                                     *)

\* Every step of the server is a step of the registry or changes nothing in it.
LEMMA RegistryStep ==
    TypeOK /\ TypeOK' /\ VerdictStands /\ Bounded /\ Linked /\ [Next]_vars
        => [Registry!RegistryNext]_(Registry!registry)
<1> SUFFICES ASSUME TypeOK, TypeOK', VerdictStands, Bounded, Linked, [Next]_vars,
                    ~UNCHANGED <<cache, raced, restarts>>
             PROVE  Registry!RegistryNext
  BY DEF Registry!registry, Registry!entry
<1>0. /\ cache \in State /\ cache' \in State
      /\ cache.last \in Nat /\ db.last \in Nat
      /\ \A t \in Threads : thread[t].i \in 0..ChainLength /\ thread[t].ts \in Age
      /\ raced \in BOOLEAN /\ raced' \in BOOLEAN
      /\ tcp.ts \in Age /\ monitor.ts \in Age
      /\ restarts \in Nat
  BY ConstantsOK DEF TypeOK, State
\* A handler that finds a key in the database, and may race.
<1>1. ASSUME UNCHANGED <<cache.last, cache.status, cache.ts, restarts>>,
             cache'.pk, raced => raced'
      PROVE  Registry!RegistryNext
  <2>1. Registry!StoreKey("pk")
    BY <1>1, <1>0 DEF Registry!StoreKey
  <2>2. QED
    BY <2>1 DEF Registry!RegistryNext
<1>2. CASE CheckStatus
  BY <1>0, <1>1, <1>2 DEF CheckStatus, bounds, State
<1>3. CASE ResetInCache
  <2>1. /\ cache' = Saved(cache, 0, tcp.ts, "registered") /\ tcp.pc = "resetcache"
        /\ UNCHANGED <<raced, restarts>>
    BY <1>3 DEF ResetInCache, bounds
  <2>2. raced \/ cache.status = "dead"
    BY <2>1 DEF Bounded, Resetting
  <2>3. Registry!Reset
    BY <2>1, <2>2, <1>0
       DEF Registry!Reset, Registry!Stored, Saved, State, Linked, Resetting, Age
  <2>4. QED
    BY <2>3 DEF Registry!RegistryNext
<1>4. ASSUME NEW t \in Threads, Receive(t)
      PROVE  Registry!RegistryNext
  <2>1. /\ cache' = [cache EXCEPT !.pk = @ \/ db.pk] /\ UNCHANGED restarts
        /\ raced => raced'
    BY <1>4 DEF Receive, bounds
  <2>2. UNCHANGED <<cache.last, cache.status, cache.ts>>
    BY <2>1, <1>0 DEF State
  <2>3. CASE cache'.pk
    BY <1>1, <2>1, <2>2, <2>3
  <2>4. CASE ~cache'.pk
    <3>1. UNCHANGED cache
      BY <2>1, <2>4, <1>0 DEF State
    <3>2. raced' = TRUE
      BY <2>1, <3>1, <1>0
    <3>3. Registry!Race
      BY <2>1, <3>1, <3>2 DEF Registry!Race, Registry!entry
    <3>4. QED
      BY <3>3 DEF Registry!RegistryNext
  <2>5. QED
    BY <2>3, <2>4
<1>5. ASSUME NEW t \in Threads, SaveInCache(t)
      PROVE  Registry!RegistryNext
  <2>1. /\ cache' = Saved(cache, thread[t].i, thread[t].ts, "alive")
        /\ thread[t].pc = "cache" /\ UNCHANGED <<raced, restarts>>
    BY <1>5 DEF SaveInCache, bounds
  <2>2. /\ cache.pk /\ thread[t].ts # "never"
        /\ raced \/ Accepts(thread[t].i, cache.last)
    BY <2>1 DEF Bounded, Linked, Busy
  <2>3. Registry!Accept("pk", thread[t].i)
    BY <2>1, <2>2, <1>0
       DEF Registry!Accept, Registry!Stored, Registry!Next1or2, Saved, State, Accepts, Age
  <2>4. thread[t].i \in 1..ChainLength
    BY <2>1, <1>0, ConstantsOK DEF Linked, Busy
  <2>5. QED
    BY <2>3, <2>4 DEF Registry!RegistryNext
<1>6. CASE DeclareDeadInCache
  <2>1. /\ cache' = Saved(cache, cache.last, monitor.ts, "dead")
        /\ monitor.pc = "cache" /\ UNCHANGED <<raced, restarts>>
    BY <1>6 DEF DeclareDeadInCache, bounds
  <2>2. Registry!DeclareDead
    BY <2>1, <1>0
       DEF Registry!DeclareDead, Registry!Silent, Registry!Stored, Saved, State, Linked,
           Age, VerdictStands
  <2>3. QED
    BY <2>2 DEF Registry!RegistryNext
<1>7. CASE TimePasses
  <2>1. cache' = Aged(cache) /\ UNCHANGED <<raced, restarts>>
    BY <1>7 DEF TimePasses, bounds
  <2>2. Registry!Age
    BY <2>1, <1>0 DEF Registry!Age, Aged, State
  <2>3. QED
    BY <2>2 DEF Registry!RegistryNext
<1>8. CASE Restart
  <2>1. cache' = db /\ restarts' = restarts + 1 /\ ~raced'
    BY <1>8 DEF Restart
  <2>2. Registry!RegistryType'
    BY <1>0, <2>1 DEF Registry!RegistryType, State, Age
  <2>3. ~raced => Registry!Recovered
    <3> SUFFICES ASSUME ~raced
                 PROVE  Registry!Recovered
      OBVIOUS
    <3> USE <1>0, <2>1 DEF State, Age, Accepts, Registry!Recovered, Registry!Stored,
                           Registry!Next1or2, Registry!Silent
    <3>1. CASE SameState(db, cache)
      BY <3>1 DEF SameState
    <3>2. CASE HeartbeatAhead(db, cache)
      <4>1. db.last \in 1..ChainLength
        BY <3>2 DEF HeartbeatAhead
      <4>2. QED
        BY <3>2, <4>1 DEF HeartbeatAhead
    <3>3. CASE VerdictAhead(db, cache) \/ ResetAhead(db, cache)
      BY <3>3 DEF VerdictAhead, ResetAhead
    <3>4. CASE Overruled(db, cache)
      BY <3>4 DEF Overruled
    <3>5. QED
      BY <3>1, <3>2, <3>3, <3>4 DEF Bounded, InStep
  <2>4. cache.pk => cache'.pk
    BY <2>1 DEF Linked
  <2>5. Registry!Reload
    BY <2>1, <2>2, <2>3, <2>4, <1>0 DEF Registry!Reload, State
  <2>6. QED
    BY <2>5 DEF Registry!RegistryNext
<1>9. QED
  BY <1>2, <1>3, <1>4, <1>5, <1>6, <1>7, <1>8
     DEF Next, ClientStep, Register, SendHeartbeat, StopClient,
         RegistrationStep, StoreKey, ResetInDb, Acknowledge,
         RegistrationFails, HandlerStep, SaveInDb, SaveFails, MonitorStep,
         DeclareDeadInDb, MonitorDies, vars, server, bounds

\* The server, its threads, its lock and its two copies of the state implement
\* the atomic registry (HeartbeatRegistry), for any number of threads, restarts
\* and failures: between restarts every change of the cache is one save of the
\* registry, with its condition, and a restart adds or loses at most one.
THEOREM ServerImplementsRegistry == Spec => ImplementsRegistry
<1>1. Init => Registry!RegistryInit
  BY DEF Init, Registry!RegistryInit, NoState
<1>2. Init => VerdictStands /\ Bounded /\ Linked
  BY DEF Init, VerdictStands, Bounded, Linked, Busy, Resetting, InStep, SameState,
         IdleThread, NoState
<1>3. QED
  BY <1>1, <1>2, TypeCorrect, TypeStep, VerdictStep, BoundedStep, LinkedStep,
     RegistryStep, PTL
     DEF Spec, ImplementsRegistry, Registry!RegistrySpec
===============================================================================

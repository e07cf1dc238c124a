---------------------------- MODULE NodeHeartbeat ----------------------------
(***************************************************************************)
(* Who starts and stops the heartbeats of a node, composed with what the   *)
(* server promises (HeartbeatRegistry).  A node runs one of two launchers: *)
(* the node manager starts heartbeat_client.py when the coordinator says   *)
(* so, and the client keeps its chain file; the supervisor                 *)
(* (heartbeat_monitor.py) reads a state file, makes a new chain for every  *)
(* sender and registers it before the sender is started.                   *)
(*                                                                         *)
(* A chain is its number, a heartbeat its chain and index.  Registrations  *)
(* may be lost, or handled after their sender has given up; heartbeats may *)
(* be lost, late or repeated.  The server does not restart here and its    *)
(* handlers do not race: that is in HeartbeatServer.  A signal that comes  *)
(* between the test of RUNNING and the send counts as one after the send.  *)
(***************************************************************************)
EXTENDS HeartbeatRegistry

CONSTANTS
    Procs,       \* slots for sender processes, orphans included
    Sup,         \* the supervisor, where it takes a process's place
    MaxMishaps   \* bound: ends of the launcher, late registrations, failed
                 \* sends and configurations

ASSUME NodeConstants ==
    /\ Keys \subseteq Nat \ {0} /\ Procs \subseteq Nat \ {0} /\ Sup \notin Procs \cup {0}
    /\ MaxMishaps \in Nat

VARIABLES
    launcher,    \* "manager" or "supervisor"
    lpc,         \* where it is
    hb,          \* hb_process or HB_PROC, 0 for None
    target,      \* the state file: 0 for not joined, else what to run for
    goal,        \* the target this turn of the loop prepares, 0 outside
    runningFor,  \* RUNNING_FOR
    disk,        \* the chain and the public key in the key directory, 0: none
    proc,        \* the sender processes
    tcp,         \* the server's handler of a registration, and whose it is
    late,        \* registrations under way whose senders have given up
    sent,        \* the heartbeat under way: it may arrive late, again, or
                 \* be lost; when the next one is sent it is lost
    overtaken,   \* history: a late registration was handled, or the launcher
                 \* ended without stopping its sender
    mishaps      \* how much of the bound is used

control == <<launcher, lpc, hb, target, goal, runningFor>>
network == <<tcp, late, sent>>
vars == <<registry, control, disk, proc, network, overtaken, mishaps>>

\* A process: its chain, the public key it registers, the index it sends next,
\* whether it has been told to stop, and whether its launcher is gone.
Off == [pc |-> "off", chain |-> 0, pub |-> 0, next |-> 1, term |-> FALSE,
        orphan |-> FALSE]
NoFile == [chain |-> 0, pub |-> 0]
Nothing == [chain |-> 0, index |-> 0]
NoHandler == [pc |-> "idle", who |-> 0]

Start == [manager |-> "wait", supervisor |-> "read"]

Init ==
    /\ RegistryInit
    /\ launcher \in {"manager", "supervisor"}
    /\ lpc = Start[launcher] /\ hb = 0
    /\ target = 0 /\ goal = 0 /\ runningFor = 0
    /\ disk = NoFile
    /\ proc = [x \in Procs |-> Off]
    /\ tcp = NoHandler /\ late = {} /\ sent = Nothing
    /\ overtaken = FALSE
    /\ mishaps = 0

IsManager == launcher = "manager"
Runs == hb # 0 /\ proc[hb].pc # "off"

\* os.urandom never repeats a chain: the numbers of chains nobody has any more
\* are used again, and that of the chain on the disk when it is replaced.
Free == Keys \ (key \cup late \cup {proc[x].chain : x \in Procs}
                 \cup {proc[x].pub : x \in Procs} \cup {sent.chain})
Fresh(g) == g \in Free /\ \A h \in Free : g <= h

Become(x, state) == proc' = [proc EXCEPT ![x] = state]

-----------------------------------------------------------------------------
\* The sender process: heartbeat_client.py, or send_heartbeat_loop.

\* The chain on the disk, or a new one: the client writes the public key after
\* the chain, the child of the supervisor takes its turn when both are there.
Load(x) ==
    /\ proc[x].pc = "load"
    /\ IF disk.chain # 0
       THEN /\ Become(x, [proc[x] EXCEPT !.chain = disk.chain,
                              !.pc = IF IsManager THEN "register" ELSE "beat"])
            /\ UNCHANGED disk
       ELSE \E g \in Keys :
                /\ Fresh(g)
                /\ disk' = [chain |-> g, pub |-> IF IsManager THEN disk.pub ELSE g]
                /\ Become(x, [proc[x] EXCEPT !.chain = g,
                                  !.pc = IF IsManager THEN "generate" ELSE "beat"])
    /\ UNCHANGED <<registry, control, network, overtaken, mishaps>>

WritePublicKey(x) ==
    /\ proc[x].pc = "generate"
    /\ disk' = [disk EXCEPT !.pub = proc[x].chain]
    /\ Become(x, [proc[x] EXCEPT !.pc = "register"])
    /\ UNCHANGED <<registry, control, network, overtaken, mishaps>>

\* send_public_key reads the file; without one the client exits.
SendKey(x) ==
    /\ proc[x].pc = "register"
    /\ Become(x, IF disk.pub = 0 THEN Off
                 ELSE [proc[x] EXCEPT !.pc = "await", !.pub = disk.pub])
    /\ UNCHANGED <<registry, control, disk, network, overtaken, mishaps>>

\* Mistake: the end of the chain is not noticed.
BeatsForever(x) == ~proc[x].term

\* Mistake: a signal during the registration is forgotten.
BeatsToTheEnd(x) == proc[x].next <= ChainLength

GoesOn(x) == ~proc[x].term /\ proc[x].next <= ChainLength

SendHeartbeat(x) ==
    /\ proc[x].pc = "beat" /\ GoesOn(x)
    /\ sent' = [chain |-> proc[x].chain, index |-> proc[x].next]
    /\ Become(x, [proc[x] EXCEPT !.next = @ + 1])
    /\ UNCHANGED <<registry, control, disk, tcp, late, overtaken, mishaps>>

\* The chain is exhausted, or RUNNING is False.
EndOfLoop(x) ==
    /\ proc[x].pc = "beat" /\ ~GoesOn(x)
    /\ Become(x, Off)
    /\ UNCHANGED <<registry, control, disk, network, overtaken, mishaps>>

\* sendto raises: the loop is left.
SendFails(x) ==
    /\ proc[x].pc = "beat" /\ mishaps < MaxMishaps
    /\ mishaps' = mishaps + 1
    /\ Become(x, Off)
    /\ UNCHANGED <<registry, control, disk, network, overtaken>>

-----------------------------------------------------------------------------
\* Registrations.  The client registers itself, the supervisor its child.

Awaits(w) == IF w = Sup THEN lpc = "await" ELSE proc[w].pc = "await"
Offer(w) == IF w = Sup THEN disk.pub ELSE proc[w].pub
Registrants == IF IsManager THEN Procs ELSE {Sup}

\* ACK, or no ACK in time: the client beats or exits, the supervisor starts its
\* child or makes a new chain.
Answer(w, acked) ==
    IF w = Sup
    THEN /\ lpc' = IF acked THEN "start" ELSE "read"
         /\ goal' = IF acked THEN goal ELSE 0
         /\ UNCHANGED <<launcher, hb, target, runningFor, proc>>
    ELSE /\ Become(w, IF acked THEN [proc[w] EXCEPT !.pc = "beat", !.pub = 0] ELSE Off)
         /\ UNCHANGED control

\* save_pubkey of a registration.
HandleKey(w) ==
    /\ tcp.pc = "idle" /\ Awaits(w)
    /\ StoreKey(Offer(w)) /\ UNCHANGED clean
    /\ tcp' = [pc |-> "check", who |-> w]
    /\ UNCHANGED <<control, disk, proc, late, sent, overtaken, mishaps>>

\* The same after the sender has given up: it may overtake a newer one.
HandleLate(k) ==
    /\ tcp.pc = "idle"
    /\ StoreKey(k) /\ UNCHANGED clean
    /\ tcp' = [pc |-> "check", who |-> 0] /\ late' = late \ {k}
    /\ overtaken' = TRUE
    /\ UNCHANGED <<control, disk, proc, sent, mishaps>>

\* A dead client starts again from index 0; the ACK.
CheckStatus ==
    /\ tcp.pc = "check"
    /\ IF status = "dead" THEN Reset /\ heard' = "fresh" ELSE UNCHANGED registry
    /\ tcp' = NoHandler
    /\ IF tcp.who # 0 THEN Answer(tcp.who, TRUE) ELSE UNCHANGED <<control, proc>>
    /\ UNCHANGED <<disk, late, sent, overtaken, mishaps>>

Acknowledge == tcp.who # 0 /\ CheckStatus

\* The connection fails or times out.  Unless its handler is at work, the
\* message is lost, or still on its way.
GiveUp(w) ==
    /\ Awaits(w)
    /\ Answer(w, FALSE)
    /\ IF tcp.who = w
       THEN tcp' = [tcp EXCEPT !.who = 0] /\ UNCHANGED <<late, mishaps>>
       ELSE /\ UNCHANGED tcp
            /\ \/ UNCHANGED <<late, mishaps>>
               \/ /\ mishaps < MaxMishaps /\ mishaps' = mishaps + 1
                  /\ late' = late \cup {Offer(w)}
    /\ UNCHANGED <<registry, disk, sent, overtaken>>

\* A heartbeat of the registered chain reaches the server in sequence.
Deliver ==
    /\ Accept(sent.chain, sent.index) /\ heard' = "fresh"
    /\ UNCHANGED <<control, disk, proc, network, overtaken, mishaps>>

TimePasses ==
    /\ Age
    /\ UNCHANGED <<control, disk, proc, network, overtaken, mishaps>>

MonitorNotices ==
    /\ DeclareDead /\ heard' = "fresh"
    /\ UNCHANGED <<control, disk, proc, network, overtaken, mishaps>>

-----------------------------------------------------------------------------
\* The node manager: handle_communication, one message at a time.

NewProcess(x) ==
    /\ proc[x] = Off /\ \A y \in Procs : proc[y] = Off => x <= y
    /\ Become(x, [Off EXCEPT !.pc = "load"])
    /\ hb' = x

\* Mistake: a heartbeat service that runs already is started again.
StartAgain ==
    /\ IsManager /\ lpc = "wait"
    /\ \E x \in Procs : NewProcess(x)
    /\ UNCHANGED <<registry, launcher, lpc, target, goal, runningFor, disk, network,
                   overtaken, mishaps>>

\* SET_CONFIG with heartbeat: start_heartbeat_service.
SetConfigOn ==
    /\ IsManager /\ lpc = "wait" /\ ~Runs
    /\ \E x \in Procs : NewProcess(x)
    /\ UNCHANGED <<registry, launcher, lpc, target, goal, runningFor, disk, network,
                   overtaken, mishaps>>

\* SET_CONFIG without heartbeat, or go_away: terminate() and wait(timeout=5).
\* A process that is still starting has no handler yet.
StopService ==
    /\ IsManager /\ lpc = "wait" /\ Runs
    /\ lpc' = "stopping"
    /\ \/ Become(hb, [proc[hb] EXCEPT !.term = TRUE])
       \/ proc[hb].pc = "load" /\ Become(hb, Off)
    /\ UNCHANGED <<registry, launcher, hb, target, goal, runningFor, disk, network,
                   overtaken, mishaps>>

\* The process has ended, or registers for longer than the time-out: either way
\* hb_process = None.
StopReturns ==
    /\ IsManager /\ lpc = "stopping" /\ proc[hb].pc \in {"off", "await"}
    /\ lpc' = "wait" /\ hb' = 0
    /\ UNCHANGED <<registry, launcher, target, goal, runningFor, disk, proc, network,
                   overtaken, mishaps>>

\* An exception in the handler of SET_CONFIG, or a message that is not JSON,
\* ends the only thread that listens; the sender goes on.
GoesDeaf ==
    /\ IsManager /\ lpc = "wait" /\ mishaps < MaxMishaps
    /\ mishaps' = mishaps + 1 /\ lpc' = "deaf"
    /\ UNCHANGED <<registry, launcher, hb, target, goal, runningFor, disk, proc,
                   network, overtaken>>

-----------------------------------------------------------------------------
\* The supervisor: one turn of loop().

WriteState(t) ==
    /\ ~IsManager /\ t # target
    /\ target' = t
    /\ UNCHANGED <<registry, launcher, lpc, hb, goal, runningFor, disk, proc, network,
                   overtaken, mishaps>>

\* handle_leave without the removal of the files: the child dies at the signal.
Killed == IF hb = 0 THEN proc ELSE [proc EXCEPT ![hb] = Off]

Leave ==
    /\ ~IsManager /\ lpc = "read" /\ target = 0
    /\ hb # 0 \/ runningFor # 0
    /\ proc' = Killed /\ hb' = 0 /\ runningFor' = 0 /\ disk' = NoFile
    /\ UNCHANGED <<registry, launcher, lpc, target, goal, network, overtaken, mishaps>>

\* Mistake: only the first chain is registered.
PrepareUnregistered ==
    /\ ~IsManager /\ lpc = "read" /\ target # 0 /\ ~Runs
    /\ \E g \in Keys : Fresh(g) /\ disk' = [chain |-> g, pub |-> g]
    /\ lpc' = IF key = {} THEN "await" ELSE "start"
    /\ goal' = target
    /\ UNCHANGED <<registry, launcher, hb, target, runningFor, proc, network,
                   overtaken, mishaps>>

\* Mistake: a child that has come to its end is not replaced.
PrepareOnce ==
    /\ ~IsManager /\ lpc = "read" /\ target # 0 /\ hb = 0
    /\ \E g \in Keys : Fresh(g) /\ disk' = [chain |-> g, pub |-> g]
    /\ lpc' = "await" /\ goal' = target
    /\ UNCHANGED <<registry, launcher, hb, target, runningFor, proc, network,
                   overtaken, mishaps>>

\* The target has changed (then handle_leave comes first), or no child is
\* alive: a new chain, to be registered.
Prepare ==
    LET changed == runningFor # 0 /\ target # runningFor
    IN  /\ ~IsManager /\ lpc = "read" /\ target # 0
        /\ changed \/ ~Runs
        /\ proc' = IF changed THEN Killed ELSE proc
        /\ hb' = IF changed THEN 0 ELSE hb
        /\ runningFor' = IF changed THEN 0 ELSE runningFor
        /\ \E g \in Keys : Fresh(g) /\ disk' = [chain |-> g, pub |-> g]
        /\ lpc' = "await" /\ goal' = target
        /\ UNCHANGED <<registry, launcher, target, network, overtaken, mishaps>>

StartChild ==
    /\ ~IsManager /\ lpc = "start"
    /\ \E x \in Procs : NewProcess(x)
    /\ runningFor' = goal /\ goal' = 0 /\ lpc' = "read"
    /\ UNCHANGED <<registry, launcher, target, disk, network, overtaken, mishaps>>

-----------------------------------------------------------------------------
\* The launcher is killed and its sender goes on, or the node loses its power
\* and every process with it.
Crash ==
    /\ mishaps < MaxMishaps /\ lpc # "down"
    /\ mishaps' = mishaps + 1
    /\ lpc' = "down" /\ hb' = 0 /\ goal' = 0 /\ runningFor' = 0
    /\ \/ /\ proc' = [x \in Procs |-> IF proc[x] = Off THEN Off
                                      ELSE [proc[x] EXCEPT !.orphan = TRUE]]
          /\ tcp' = IF tcp.who = Sup THEN [tcp EXCEPT !.who = 0] ELSE tcp
       \/ proc' = [x \in Procs |-> Off] /\ tcp' = [tcp EXCEPT !.who = 0]
    /\ overtaken' = TRUE
    /\ UNCHANGED <<registry, launcher, target, disk, late, sent>>

Restart ==
    /\ lpc = "down" /\ lpc' = Start[launcher]
    /\ UNCHANGED <<registry, launcher, hb, target, goal, runningFor, disk, proc,
                   network, overtaken, mishaps>>

ProcStep(x) ==
    \/ Load(x) \/ WritePublicKey(x) \/ SendKey(x) \/ SendHeartbeat(x) \/ EndOfLoop(x)

LaunchStep == StopReturns \/ Leave \/ Prepare \/ StartChild \/ Restart

Commands == SetConfigOn \/ StopService \/ GoesDeaf \/ \E t \in 0..2 : WriteState(t)

Next ==
    \/ \E x \in Procs : ProcStep(x) \/ SendFails(x)
    \/ \E w \in Registrants : HandleKey(w) \/ GiveUp(w)
    \/ \E k \in late : HandleLate(k)
    \/ CheckStatus \/ Deliver \/ TimePasses \/ MonitorNotices
    \/ LaunchStep \/ Commands \/ Crash

\* The threads and processes run and time passes; a registration or a heartbeat
\* that is sent again and again is handled in time at last.
Fairness ==
    /\ \A x \in Procs : WF_vars(ProcStep(x))
    /\ WF_vars(LaunchStep) /\ WF_vars(TimePasses \/ MonitorNotices)
    /\ SF_vars(\E w \in Registrants : HandleKey(w))
    /\ WF_vars(CheckStatus) /\ SF_vars(Acknowledge) /\ SF_vars(Deliver)

Spec == Init /\ [][Next]_vars /\ Fairness

-----------------------------------------------------------------------------
\* Type correctness of the launcher, its processes and the network.
TypeOK ==
    /\ RegistryType
    /\ launcher \in {"manager", "supervisor"}
    /\ lpc \in {"wait", "stopping", "deaf", "read", "await", "start", "down"}
    /\ hb \in Procs \cup {0}
    /\ target \in 0..2 /\ goal \in 0..2 /\ runningFor \in 0..2
    /\ disk \in [chain : Keys \cup {0}, pub : Keys \cup {0}]
    /\ proc \in [Procs -> [pc : {"off", "load", "generate", "register", "await", "beat"},
                           chain : Keys \cup {0}, pub : Keys \cup {0},
                           next : 1..(ChainLength + 1), term : BOOLEAN,
                           orphan : BOOLEAN]]
    /\ tcp \in [pc : {"idle", "check"}, who : Procs \cup {0, Sup}]
    /\ late \subseteq Keys /\ sent \in [chain : Keys \cup {0}, index : 0..ChainLength]
    /\ overtaken \in BOOLEAN /\ mishaps \in Nat

\* A stop is final although nobody may see it happen: the manager forgets the
\* process after a wait that may have timed out, the process may be registering
\* and learn of the signal only when the ACK is there.  Only the process the
\* launcher holds sends heartbeats, unless the launcher was killed.
StoppedSendsNothing ==
    [][\A x \in Procs :
           proc'[x].next > proc[x].next => x = hb \/ proc[x].orphan]_vars

\* A process sends heartbeats of the chain whose public key the server holds,
\* although the supervisor makes a new chain for every child, the client reads
\* chain and key from two files and two clients may run at once; only a
\* registration handled late, or the end of the launcher, may part the two.
SenderIsVerified ==
    ~overtaken => \A x \in Procs : proc[x].pc = "beat" => key = {proc[x].chain}

\* A node that stays joined under a supervisor that stays up is alive again and
\* again: the index the server holds may be that of an older chain, or a late
\* registration may have replaced its key, but never for good.
NeverLockedOut ==
    <>[](~IsManager /\ lpc # "down" /\ target = 1) => []<>(status = "alive")
===============================================================================

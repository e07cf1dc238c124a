---------------------------- MODULE SwitchControl ----------------------------
(***************************************************************************)
(* How the coordinator and the AP managers find the switches of the swarm  *)
(* (node_discovery.py) and program them (bmv2_thrift_lib.py, the command   *)
(* line interpreter of bmv2 in runtime_CLI.py).                            *)
(*                                                                         *)
(* A program has two threads that matter: its main thread, which runs one  *)
(* library call at a time, and the discovery listener.  They share the     *)
(* dictionary of known APs, the tables of the P4 program (cleared and      *)
(* loaded again at every discovery) and the buffer that captures what      *)
(* either of them prints.  Two programs share the switches: every command  *)
(* is a remote call of its own, so a call of two commands may be           *)
(* interleaved with that of another program.                               *)
(*                                                                         *)
(* A port or a table entry is what it is for; the broadcast group is the   *)
(* port list of its only node.  What a response says beside the lines the  *)
(* library looks for is left out; lines of the listener inside a response  *)
(* matter to mc_dump only, whose two lines must follow each other.         *)
(***************************************************************************)
EXTENDS Integers, Sequences, FiniteSets

CONSTANTS
    APs,           \* the access points; each has one switch
    Programs,      \* the AP managers modelled, and the coordinator
    Keys,          \* match keys of the forwarding table
    Ports,         \* switch ports
    Backbone,      \* swarm_backbone_switch_port
    None,          \* no entry, no switch
    MaxCalls,      \* bound: library calls
    MaxMishaps     \* bound: restarts of programs and switches, failed
                   \* connections, datagrams of other kinds

ASSUME SwitchConstants ==
    /\ Backbone \in Ports
    /\ None \notin {"port", "backbone"} /\ None \notin Ports /\ None \notin APs
    /\ MaxCalls \in Nat /\ MaxMishaps \in Nat

VARIABLES
    table,      \* the forwarding table of each switch
    handle,     \* the handle its next entry gets
    group,      \* the ports of its broadcast group: {} none, Bare no node yet
    boot,       \* how often the switch has been started
    run,        \* last_update in an AP's announcements: its manager's run
    order,      \* known_aps of each program: the keys in insertion order
    conn,       \* its values: last_update, and the boot its instance reaches
    own,        \* THIS_AP of an AP manager: the boot it reaches, 0 for None
    schema,     \* whether TABLES, ACTIONS, SUFFIX_LOOKUP_MAP are filled
    listener,   \* the discovery listener
    main,       \* the main thread: the library call under way
    ports,      \* history: the group as the calls that had effect left it
    entries,    \* history: likewise the value of each key
    mixed,      \* history: the switches whose group was updated by calls
                \* that overlapped each other or a reset
    mixedKeys,  \* history: likewise, the entries <<switch, key>>
    calls, mishaps    \* how much of each bound is used

switches == <<table, handle, group, boot>>
shared == <<order, conn, own, schema>>
history == <<ports, entries, mixed, mixedKeys>>
bounds == <<calls, mishaps>>
vars == <<switches, run, shared, listener, main, history, bounds>>

Managers == Programs \cap APs

\* Where an entry forwards to: at the station's own AP to its port, at every
\* other AP to the backbone.
Values == {"port", "backbone"}

Bare == {None}
NoEntry == [handle |-> 0, value |-> None]
Empty == [k \in Keys |-> NoEntry]
Unknown == [ts |-> 0, boot |-> 0]
Waiting == [pc |-> "wait", ap |-> None, ts |-> 0, boot |-> 0, bound |-> FALSE]
Idle == [pc |-> "idle", op |-> "none", sw |-> None, arg |-> None, val |-> None,
         boot |-> 0, snap |-> {}, torn |-> FALSE, handle |-> 0,
         loop |-> FALSE, size |-> 0, pos |-> 1, skip |-> None, seen |-> {}]

\* The AP managers are up and have initialised their switches; the coordinator
\* starts and has discovered nobody.
Init ==
    /\ table = [s \in APs |-> Empty]
    /\ handle = [s \in APs |-> 1]
    /\ group = [s \in APs |-> {Backbone}]
    /\ boot = [s \in APs |-> 1]
    /\ run = [a \in APs |-> 1]
    /\ order = [p \in Programs |-> <<>>]
    /\ conn = [p \in Programs |-> [a \in APs |-> Unknown]]
    /\ own = [a \in Managers |-> 1]
    /\ schema = [p \in Programs |-> p \in APs]
    /\ listener = [p \in Programs |-> Waiting]
    /\ main = [p \in Programs |-> Idle]
    /\ ports = group
    /\ entries = [s \in APs |-> [k \in Keys |-> None]]
    /\ mixed = {} /\ mixedKeys = {}
    /\ calls = 0 /\ mishaps = 0

Known(p) == {order[p][i] : i \in 1..Len(order[p])}

\* The instance of the call under way still reaches the switch; a command on a
\* connection that is gone raises, and run_cli_command answers ''.
Reached(p) == main[p].boot = boot[main[p].sw]

\* A command on a table works: its name is found in SUFFIX_LOOKUP_MAP, too.
Answered(p) == schema[p] /\ Reached(p)

\* The calls that have read the state they are about to change.
UpdatesGroup(q, s) == main[q].pc \in {"parse", "update"} /\ main[q].sw = s
UpdatesEntry(q, s, k) ==
    main[q].pc \in {"add", "modify", "delete"} /\ main[q].sw = s /\ main[q].arg = k

Become(p, state) == main' = [main EXCEPT ![p] = state]

\* The call is over: back to the loop it is part of, or to the caller.
Return(p) ==
    Become(p, IF main[p].loop
              THEN [main[p] EXCEPT !.pc = "loop", !.sw = None, !.handle = 0]
              ELSE Idle)

\* An exception leaves the library.  The coordinator's task fails; the handler
\* of a departed station logs it; the AP manager ends in any other handler.
Raise(p) ==
    Become(p, IF p \in APs /\ main[p].op \in {"insert", "set"}
              THEN [Idle EXCEPT !.pc = "ended"] ELSE [Idle EXCEPT !.op = "failed"])

-----------------------------------------------------------------------------
\* Broadcast ports.

\* A manager calls its own switch, the coordinator that of a known AP.
Reaches(p, s) == IF p \in APs THEN s = p ELSE s \in Known(p)
InstanceOf(p, s) == IF p \in APs THEN own[p] ELSE conn[p][s].boot

StartPortCall(p, s, op, port) ==
    /\ main[p].pc = "idle" /\ Reaches(p, s) /\ calls < MaxCalls
    /\ op = "insert" \/ p \in APs
    /\ Become(p, [Idle EXCEPT !.pc = "dump", !.op = op, !.sw = s, !.arg = port,
                              !.boot = InstanceOf(p, s)])
    /\ calls' = calls + 1
    /\ UNCHANGED <<switches, run, shared, listener, history, mishaps>>

\* mc_dump: the switch answers; its lines are still to be printed.
MCDump(p) ==
    LET s == main[p].sw
    IN  /\ main[p].pc = "dump"
        /\ IF Reached(p)
           THEN /\ Become(p, [main[p] EXCEPT !.pc = "parse", !.snap = group[s]])
                /\ mixed' = IF \E q \in Programs \ {p} : UpdatesGroup(q, s)
                            THEN mixed \cup {s} ELSE mixed
           ELSE Return(p) /\ UNCHANGED mixed
        /\ UNCHANGED <<switches, run, shared, listener, ports, entries, mixedKeys,
                       bounds>>

\* Mistake: a group without a node is read as one.
UnreadableTornOnly(p) == main[p].torn

\* The line after "mgrp(" holds no port list: index out of range.
Unreadable(p) == main[p].torn \/ main[p].snap = Bare

\* No group, or nothing to remove: no command follows.
NothingToUpdate(p) ==
    \/ main[p].snap = {}
    \/ main[p].op = "remove" /\ main[p].arg \notin main[p].snap

\* Mistake: no port list is read as an empty one.
ParseDumpLenient(p) ==
    /\ main[p].pc = "parse"
    /\ IF Unreadable(p)
       THEN Become(p, [main[p] EXCEPT !.pc = "update", !.snap = {}])
       ELSE IF NothingToUpdate(p) THEN Return(p)
       ELSE Become(p, [main[p] EXCEPT !.pc = "update"])
    /\ UNCHANGED <<switches, run, shared, listener, history, bounds>>

ParseDump(p) ==
    /\ main[p].pc = "parse"
    /\ IF Unreadable(p) THEN Raise(p)
       ELSE IF NothingToUpdate(p) THEN Return(p)
       ELSE Become(p, [main[p] EXCEPT !.pc = "update"])
    /\ UNCHANGED <<switches, run, shared, listener, history, bounds>>

Changed(p, set) == IF main[p].op = "insert" THEN set \cup {main[p].arg}
                                            ELSE set \ {main[p].arg}

\* mc_node_update of node 0, which needs a port and the node.
MCUpdate(p) ==
    LET s == main[p].sw
        list == Changed(p, main[p].snap)
    IN  /\ main[p].pc = "update"
        /\ IF Reached(p) /\ list # {} /\ group[s] \notin {{}, Bare}
           THEN /\ group' = [group EXCEPT ![s] = list]
                /\ ports' = [ports EXCEPT ![s] = Changed(p, @)]
           ELSE UNCHANGED <<group, ports>>
        /\ Return(p)
        /\ UNCHANGED <<table, handle, boot, run, shared, listener, entries, mixed,
                       mixedKeys, bounds>>

-----------------------------------------------------------------------------
\* Table entries.

StartEntryCall(p, s, k) ==
    /\ main[p].pc = "idle" /\ Reaches(p, s) /\ calls < MaxCalls
    /\ Become(p, [Idle EXCEPT !.pc = "find", !.op = "set", !.sw = s, !.arg = k,
                              !.val = "port", !.boot = InstanceOf(p, s)])
    /\ calls' = calls + 1
    /\ UNCHANGED <<switches, run, shared, listener, history, mishaps>>

\* The loops over get_aps_dict().items(): an entry at every AP but one, or the
\* deletion of one at every AP.
StartLoop(p, op, k, skip) ==
    /\ main[p].pc = "idle" /\ calls < MaxCalls
    /\ p \in APs => skip = IF op = "set" THEN p ELSE None
    /\ p \notin APs => op = "set"
    /\ Become(p, [Idle EXCEPT !.pc = "loop", !.op = op, !.arg = k,
                              !.val = IF op = "set" THEN "backbone" ELSE None,
                              !.loop = TRUE, !.size = Len(order[p]), !.skip = skip])
    /\ calls' = calls + 1
    /\ UNCHANGED <<switches, run, shared, listener, history, mishaps>>

\* The body of the loop, for every AP but the one to be skipped.
Visit(p, s) ==
    LET next == [main[p] EXCEPT !.pos = @ + 1, !.seen = @ \cup {s}]
    IN  Become(p, IF s = main[p].skip THEN next
                  ELSE [next EXCEPT !.pc = "find", !.sw = s, !.boot = conn[p][s].boot])

\* Mistake: the loop runs over the keys there were when it began.
LoopStepOverCopy(p) ==
    /\ main[p].pc = "loop"
    /\ IF main[p].pos > main[p].size THEN Become(p, Idle)
       ELSE Visit(p, order[p][main[p].pos])
    /\ UNCHANGED <<switches, run, shared, listener, history, bounds>>

\* Every next() of the iterator compares the size of the dictionary first.
LoopStep(p) ==
    /\ main[p].pc = "loop"
    /\ IF Len(order[p]) # main[p].size THEN Raise(p)
       ELSE IF main[p].pos > main[p].size THEN Become(p, Idle)
       ELSE Visit(p, order[p][main[p].pos])
    /\ UNCHANGED <<switches, run, shared, listener, history, bounds>>

\* Mistake: table_add without looking the entry up.
FindNothing(p) ==
    /\ main[p].pc = "find"
    /\ IF Answered(p) /\ main[p].op = "set"
       THEN Become(p, [main[p] EXCEPT !.pc = "add"]) ELSE Return(p)
    /\ UNCHANGED <<switches, run, shared, listener, history, bounds>>

\* table_dump_entry_from_key.  Only BAD_MATCH_KEY leads to table_add; after any
\* other error nothing is installed and nobody is told.
Find(p) ==
    LET s == main[p].sw
        e == table[s][main[p].arg]
    IN  /\ main[p].pc = "find"
        /\ IF Answered(p) /\ (e # NoEntry \/ main[p].op = "set")
           THEN /\ Become(p, [main[p] EXCEPT !.handle = e.handle,
                                  !.pc = IF e = NoEntry THEN "add"
                                         ELSE IF main[p].op = "set" THEN "modify"
                                         ELSE "delete"])
                /\ mixedKeys' = IF \E q \in Programs \ {p} :
                                       UpdatesEntry(q, s, main[p].arg)
                                THEN mixedKeys \cup {<<s, main[p].arg>>} ELSE mixedKeys
           ELSE Return(p) /\ UNCHANGED mixedKeys
        /\ UNCHANGED <<switches, run, shared, listener, ports, entries, mixed, bounds>>

\* What bmv2 does with the command: a second entry of a key is DUPLICATE_ENTRY,
\* a handle that is not the entry's any more INVALID_HANDLE.
Written(pc, e, h, next, v) ==
    IF pc = "add" THEN IF e = NoEntry THEN [handle |-> next, value |-> v] ELSE e
    ELSE IF e = NoEntry \/ e.handle # h THEN e
    ELSE IF pc = "modify" THEN [e EXCEPT !.value = v] ELSE NoEntry

\* table_add, table_modify or table_delete.
WriteEntry(p) ==
    LET s == main[p].sw
        k == main[p].arg
        pc == main[p].pc
    IN  /\ pc \in {"add", "modify", "delete"}
        /\ IF Answered(p)
           THEN /\ table' = [table EXCEPT ![s][k] =
                                 Written(pc, @, main[p].handle, handle[s], main[p].val)]
                /\ handle' = [handle EXCEPT ![s] = IF pc = "add" THEN @ + 1 ELSE @]
                /\ entries' = [entries EXCEPT ![s][k] =
                                   IF pc = "delete" THEN None ELSE main[p].val]
           ELSE UNCHANGED <<table, handle, entries>>
        /\ Return(p)
        /\ UNCHANGED <<group, boot, run, shared, listener, ports, mixed, mixedKeys,
                       bounds>>

-----------------------------------------------------------------------------
\* Discovery.

\* A line printed by the listener may land between the lines of a dump.
Prints(p) ==
    \E torn \in BOOLEAN :
        /\ torn => main[p].pc = "parse"
        /\ main' = [main EXCEPT ![p].torn = @ \/ torn]

\* Mistake: an AP once known is never looked at again.
IsUnknown(p, a, ts) == a \notin Known(p)

IsNews(p, a, ts) == a \notin Known(p) \/ ts > conn[p][a].ts

\* A datagram of this run of the AP or of an earlier one; a known AP is taken
\* up again with a newer last_update only.
Heard(p, a, ts) ==
    listener[p].pc = "wait" /\ ts \in 1..run[a] /\ IsNews(p, a, ts)

\* connect_to_switch: the connection stands, and load_json_str has begun: its
\* first statement, reset_config, forgets all names.
Hear(p, a, ts) ==
    /\ Heard(p, a, ts)
    /\ listener' = [listener EXCEPT ![p] = [pc |-> "load", ap |-> a, ts |-> ts,
                                            boot |-> boot[a], bound |-> TRUE]]
    /\ schema' = [schema EXCEPT ![p] = FALSE]
    /\ UNCHANGED <<switches, run, order, conn, own, main, history, bounds>>

\* thrift_connect raises: the listener goes on.  bm_get_config raises:
\* get_json_config calls sys.exit, which ends the thread without a word.
ConnectFails(p, a, ts) ==
    /\ Heard(p, a, ts) /\ mishaps < MaxMishaps
    /\ \E pc \in {"wait", "ended"} :
           listener' = [listener EXCEPT ![p].pc = pc, ![p].bound = TRUE]
    /\ mishaps' = mishaps + 1
    /\ UNCHANGED <<switches, run, shared, main, history, calls>>

\* The names are filled in again; known_aps[uuid] = switch, and "Discovered ...".
Store(p) ==
    LET l == listener[p]
    IN  /\ l.pc = "load"
        /\ schema' = [schema EXCEPT ![p] = TRUE]
        /\ order' = [order EXCEPT ![p] = IF l.ap \in Known(p) THEN @
                                         ELSE Append(@, l.ap)]
        /\ conn' = [conn EXCEPT ![p][l.ap] = [ts |-> l.ts, boot |-> l.boot]]
        /\ listener' = [listener EXCEPT ![p] = [Waiting EXCEPT !.bound = TRUE]]
        /\ Prints(p)
        /\ UNCHANGED <<switches, run, own, history, bounds>>

\* A coordinator's announcement is noted and printed; anything that is no
\* message is reported with the last one that was, and there may be none.
OtherDatagram(p) ==
    /\ listener[p].pc = "wait" /\ mishaps < MaxMishaps
    /\ \/ /\ listener' = [listener EXCEPT ![p].bound = TRUE]
          /\ Prints(p)
       \/ /\ listener[p].bound /\ Prints(p) /\ UNCHANGED listener
       \/ /\ ~listener[p].bound /\ UNCHANGED main
          /\ listener' = [listener EXCEPT ![p].pc = "ended"]
    /\ mishaps' = mishaps + 1
    /\ UNCHANGED <<switches, run, shared, history, calls>>

-----------------------------------------------------------------------------
\* Starts.

Forget(p) ==
    /\ order' = [order EXCEPT ![p] = <<>>]
    /\ conn' = [conn EXCEPT ![p] = [a \in APs |-> Unknown]]
    /\ listener' = [listener EXCEPT ![p] = Waiting]

\* A new run of the AP manager: connected to its switch at import, or not, it
\* announces itself before initialize_program has reset the switch.
RestartManager(a) ==
    /\ mishaps < MaxMishaps
    /\ run' = [run EXCEPT ![a] = @ + 1]
    /\ Forget(a)
    /\ \E b \in {0, boot[a]} :
           /\ own' = [own EXCEPT ![a] = b]
           /\ schema' = [schema EXCEPT ![a] = b # 0]
           /\ Become(a, [Idle EXCEPT !.pc = "reset", !.sw = a, !.boot = b])
    /\ mishaps' = mishaps + 1
    /\ UNCHANGED <<switches, history, calls>>

RestartCoordinator(p) ==
    /\ mishaps < MaxMishaps
    /\ Forget(p) /\ Become(p, Idle)
    /\ schema' = [schema EXCEPT ![p] = FALSE]
    /\ mishaps' = mishaps + 1
    /\ UNCHANGED <<switches, run, own, history, calls>>

\* The switch's tables and groups are empty.  A call of another program that
\* has read them is overtaken.
Clear(s) ==
    /\ table' = [table EXCEPT ![s] = Empty]
    /\ group' = [group EXCEPT ![s] = {}]
    /\ ports' = [ports EXCEPT ![s] = {}]
    /\ entries' = [entries EXCEPT ![s] = [k \in Keys |-> None]]
    /\ mixed' = (mixed \ {s}) \cup {t \in {s} : \E q \in Programs : UpdatesGroup(q, s)}
    /\ mixedKeys' = (mixedKeys \ ({s} \X Keys)) \cup
           {e \in {s} \X Keys : \E q \in Programs : UpdatesEntry(q, s, e[2])}

RestartSwitch(s) ==
    /\ mishaps < MaxMishaps
    /\ boot' = [boot EXCEPT ![s] = @ + 1]
    /\ Clear(s)
    /\ mishaps' = mishaps + 1
    /\ UNCHANGED <<handle, run, shared, listener, main, calls>>

\* initialize_program: reset_state ...
ResetState(a) ==
    /\ main[a].pc = "reset"
    /\ IF Reached(a) THEN Clear(a) ELSE UNCHANGED <<table, group, history>>
    /\ Become(a, [main[a] EXCEPT !.pc = "mgrp"])
    /\ UNCHANGED <<handle, boot, run, shared, listener, bounds>>

\* ... mc_mgrp_create, and then the node: created and associated.
CreateGroup(a) ==
    LET step == [mgrp |-> [set |-> Bare, next |-> [main[a] EXCEPT !.pc = "node"]],
                 node |-> [set |-> {Backbone}, next |-> Idle]]
    IN  /\ main[a].pc \in {"mgrp", "node"}
        /\ IF Reached(a)
           THEN /\ group' = [group EXCEPT ![a] = step[main[a].pc].set]
                /\ ports' = [ports EXCEPT ![a] = step[main[a].pc].set]
           ELSE UNCHANGED <<group, ports>>
        /\ Become(a, step[main[a].pc].next)
        /\ UNCHANGED <<table, handle, boot, run, shared, listener, entries, mixed,
                       mixedKeys, bounds>>

-----------------------------------------------------------------------------
MainStep(p) ==
    \/ MCDump(p) \/ ParseDump(p) \/ MCUpdate(p)
    \/ LoopStep(p) \/ Find(p) \/ WriteEntry(p)

CallStarts(p) ==
    \/ \E s \in APs, op \in {"insert", "remove"}, port \in Ports \ {Backbone} :
           StartPortCall(p, s, op, port)
    \/ \E s \in APs, k \in Keys : StartEntryCall(p, s, k)
    \/ \E k \in Keys, skip \in APs : StartLoop(p, "set", k, skip)
    \/ \E k \in Keys : StartLoop(p, "unset", k, None)

\* An AP manager that has raised is gone, with its threads.
Alive(a) == a \in Programs => main[a].pc # "ended"

HearAny(p) == Alive(p) /\ \E a \in APs : \E ts \in 1..run[a] : Hear(p, a, ts)

Listen(p) == Alive(p) /\ Store(p)

Disturb(p) ==
    /\ Alive(p)
    /\ \/ OtherDatagram(p)
       \/ \E a \in APs : \E ts \in 1..run[a] : ConnectFails(p, a, ts)

Next ==
    \/ \E p \in Programs :
           MainStep(p) \/ CallStarts(p) \/ HearAny(p) \/ Listen(p) \/ Disturb(p)
    \/ \E a \in Managers : RestartManager(a) \/ ResetState(a) \/ CreateGroup(a)
    \/ \E p \in Programs \ APs : RestartCoordinator(p)
    \/ \E s \in APs : RestartSwitch(s)

Spec == Init /\ [][Next]_vars

\* Some news among the announcements of the running managers, which are sent
\* every DISCOVERY_INTERVAL.
HearCurrent(p) == Alive(p) /\ \E a \in APs : Alive(a) /\ Hear(p, a, run[a])

\* The listeners are scheduled; a datagram sent again and again arrives at last.
Fairness == \A p \in Programs : WF_vars(Listen(p)) /\ SF_vars(HearCurrent(p))

FairSpec == Spec /\ Fairness

-----------------------------------------------------------------------------
\* Type correctness of the switches, the two threads of a program and what
\* they share.
TypeOK ==
    /\ table \in [APs -> [Keys -> [handle : Nat, value : Values \cup {None}]]]
    /\ handle \in [APs -> Nat] /\ boot \in [APs -> Nat] /\ run \in [APs -> Nat]
    /\ group \in [APs -> (SUBSET Ports) \cup {Bare}]
    /\ ports \in [APs -> (SUBSET Ports) \cup {Bare}]
    /\ entries \in [APs -> [Keys -> Values \cup {None}]]
    /\ order \in [Programs -> Seq(APs)]
    /\ conn \in [Programs -> [APs -> [ts : Nat, boot : Nat]]]
    /\ own \in [Managers -> Nat] /\ schema \in [Programs -> BOOLEAN]
    /\ listener \in [Programs -> [pc : {"wait", "load", "ended"},
                                  ap : APs \cup {None}, ts : Nat, boot : Nat,
                                  bound : BOOLEAN]]
    /\ main \in [Programs ->
           [pc : {"idle", "dump", "parse", "update", "find", "add", "modify", "delete",
                  "loop", "reset", "mgrp", "node", "ended"},
            op : {"none", "failed", "insert", "remove", "set", "unset"},
            sw : APs \cup {None}, arg : Ports \cup Keys \cup {None},
            val : Values \cup {None}, boot : Nat, snap : (SUBSET Ports) \cup {Bare},
            torn : BOOLEAN, handle : Nat, loop : BOOLEAN, size : Nat, pos : Nat,
            skip : APs \cup {None}, seen : SUBSET APs]]
    /\ mixed \subseteq APs /\ mixedKeys \subseteq APs \X Keys
    /\ calls \in Nat /\ mishaps \in Nat

\* add_bmv2_swarm_broadcast_port reads the port list and writes it back in two
\* remote calls, reading it from an output the listener prints into.  Only
\* calls that overlap on a switch, or a call overtaken by a reset, may lose a
\* port: otherwise the group has exactly the ports asked for.
PortsStand == \A s \in APs \ mixed : group[s] = ports[s]

\* add_entry_to_bmv2 and delete_forwarding_entry_from_bmv2 look an entry up and
\* then change it by its handle, while the listener clears and loads the
\* tables their commands are parsed with, and switches and managers restart.
\* Unless two calls overlap on the same entry, it is what the last command that
\* was carried out made it.
EntriesStand ==
    \A s \in APs, k \in Keys :
        <<s, k>> \notin mixedKeys => table[s][k].value = entries[s][k]

\* A replication loop runs over the live dictionary of get_aps_dict, and the
\* listener may insert an AP meanwhile.  A loop that ends without an exception
\* has visited every AP known at its end.
LoopIsComplete ==
    [][\A p \in Programs :
           main[p].pc = "loop" /\ main'[p] = Idle /\ order'[p] # <<>>
               => Known(p) \subseteq main[p].seen]_vars

\* An AP manager that goes on running is known, with the last_update of its
\* current run, to every program whose listener goes on.
AnnouncedIsDiscovered ==
    []<>(\A p \in Programs, a \in APs :
             \/ ~Alive(a) \/ ~Alive(p) \/ listener[p].pc = "ended"
             \/ conn[p][a].ts = run[a])
=============================================================================

------------------------- MODULE HeartbeatRegistry -------------------------
(***************************************************************************)
(* What the heartbeat server promises to one client: the abstract          *)
(* specification of HeartbeatServer, and the server of NodeHeartbeat.      *)
(*                                                                         *)
(* The registry is one copy of the client's state, changed at once.  It    *)
(* says nothing of threads, locks or the two copies in the cache and the   *)
(* database.  Only a restart of the server may do more than one of its     *)
(* steps: it may find one save that was never answered, or lose one.       *)
(* Once two handlers have raced (clean is FALSE) the index may go anywhere *)
(* until the next restart; the monitor's verdict still stands.             *)
(***************************************************************************)
EXTENDS Integers

CONSTANTS
    Keys,          \* the public keys the client may register
    ChainLength    \* the highest index of a heartbeat

ASSUME RegistryConstants == ChainLength \in Nat

VARIABLES
    key,       \* the key registered: {} or {k}
    last,      \* the index of the last heartbeat accepted
    status,    \* "registered", "alive" or "dead"
    heard,     \* the age of last_ts compared with HEARTBEAT_TIMEOUT
    clean,     \* no race in this run of the server
    run        \* the restarts so far

entry == <<key, last, status, heard>>
registry == <<entry, clean, run>>

RegistryType ==
    /\ key \in {{}} \cup {{k} : k \in Keys}
    /\ last \in 0..ChainLength
    /\ status \in {"registered", "alive", "dead"}
    /\ heard \in {"never", "fresh", "old"}
    /\ clean \in BOOLEAN /\ run \in Nat

RegistryInit ==
    /\ key = {} /\ last = 0 /\ status = "registered" /\ heard = "never"
    /\ clean = TRUE /\ run = 0

\* What a save stores: the heartbeat i, a dead client's return to index 0, the
\* monitor's verdict on a client that has been silent.
Stored(i, new) == last' = i /\ status' = new /\ heard' \in {"fresh", "old"}

Next1or2(i) == i \in {last + 1, last + 2}
Silent == status # "dead" /\ heard = "old"

\* save_pubkey: the last key registered replaces the one before it, and the
\* index stays.  A handler may have raced when it gets there.
StoreKey(k) ==
    /\ key' = {k} /\ clean' \in {clean, FALSE}
    /\ UNCHANGED <<last, status, heard, run>>

\* A dead client that registers again starts from index 0.
Reset ==
    /\ clean => status = "dead"
    /\ Stored(0, "registered")
    /\ UNCHANGED <<key, clean, run>>

\* A heartbeat verified with the key: strictly the next index, or one skipped.
Accept(k, i) ==
    /\ k \in key /\ (clean => Next1or2(i))
    /\ Stored(i, "alive")
    /\ UNCHANGED <<key, clean, run>>

\* The timeout monitor: races or not, only a silent client is declared dead.
DeclareDead ==
    /\ Silent /\ Stored(last, "dead")
    /\ UNCHANGED <<key, clean, run>>

\* HEARTBEAT_TIMEOUT seconds go by.
Age ==
    /\ heard = "fresh" /\ heard' = "old"
    /\ UNCHANGED <<key, last, status, clean, run>>

\* Two handlers race.
Race == clean' = FALSE /\ UNCHANGED <<entry, run>>

\* What a restart finds, if no handlers have raced: the entry; or that and one
\* save more, begun in the last run; or the verdict on an alive client that was
\* written over its last heartbeat.
Recovered ==
    \/ UNCHANGED <<last, status, heard>>
    \/ \E i \in 1..ChainLength : key # {} /\ Next1or2(i) /\ Stored(i, "alive")
    \/ status = "dead" /\ Stored(0, "registered")
    \/ Silent /\ Stored(last, "dead")
    \/ status = "alive" /\ \E i \in {last - 1, last - 2} : Stored(i, "dead")

\* preload_cache of a new run.  A key the client has registered is there, also
\* one whose registration was not answered.
Reload ==
    /\ run' = run + 1 /\ clean' = TRUE
    /\ RegistryType' /\ (key # {} => key' = key)
    /\ clean => Recovered

RegistryNext ==
    \/ \E k \in Keys : StoreKey(k) \/ \E i \in 1..ChainLength : Accept(k, i)
    \/ Reset \/ DeclareDead \/ Age
    \/ Race \/ Reload

RegistrySpec == RegistryInit /\ [][RegistryNext]_registry
===============================================================================

------------------------------ MODULE SwarmRoster ------------------------------
(***************************************************************************)
(* What the coordinator and the AP managers promise together: the abstract *)
(* specification of SwarmMembership.                                       *)
(*                                                                         *)
(* The roster is one list of nodes, changed by one step at a time.  A node *)
(* registers with an access point, joins with a host id of its own, keeps  *)
(* that id wherever it roams, and is removed.  There are no two tables, no *)
(* handlers and no messages: a node has its id from the moment it is told. *)
(* A node whose handling was disturbed is lost: nothing is promised of it  *)
(* until it has been removed.                                              *)
(***************************************************************************)

CONSTANTS
    Nodes,   \* the smart nodes
    APs,     \* the access points
    Ids      \* the host ids of the swarm

VARIABLE roster   \* what each node is, where, and a member's host id

Out == [is |-> "out"]
Lost == [is |-> "lost"]
HoldingAt(a) == [is |-> "holding", at |-> a]     \* registered, in swarm 0
MemberAt(i, a) == [is |-> "member", id |-> i, at |-> a]

Entry == {Out, Lost} \cup {HoldingAt(a) : a \in APs}
                     \cup {MemberAt(i, a) : i \in Ids, a \in APs}

HasId(n, i) == \E a \in APs : roster[n] = MemberAt(i, a)

Init == roster = [n \in Nodes |-> Out]

Register(n, a) ==
    /\ roster[n] = Out
    /\ roster' = [roster EXCEPT ![n] = HoldingAt(a)]

\* The id is no other member's, and the node stays where it is.
Join(n, i) ==
    /\ \A m \in Nodes : ~HasId(m, i)
    /\ \E a \in APs : /\ roster[n] = HoldingAt(a)
                      /\ roster' = [roster EXCEPT ![n] = MemberAt(i, a)]

Roam(n, a) ==
    \/ /\ \E b \in APs : roster[n] = HoldingAt(b)
       /\ roster' = [roster EXCEPT ![n] = HoldingAt(a)]
    \/ \E i \in Ids : /\ HasId(n, i)
                      /\ roster' = [roster EXCEPT ![n] = MemberAt(i, a)]

Remove(n) == roster' = [roster EXCEPT ![n] = Out]

\* Two programs work on a node at once, one stops between two writes, or a
\* write fails; a restart of the coordinator loses all members.
Lose(S) == roster' = [n \in Nodes |-> IF n \in S THEN Lost ELSE roster[n]]

Next ==
    \/ \E n \in Nodes, a \in APs : Register(n, a) \/ Roam(n, a)
    \/ \E n \in Nodes, i \in Ids : Join(n, i)
    \/ \E n \in Nodes : Remove(n)
    \/ \E S \in SUBSET Nodes : Lose(S)

Spec == Init /\ [][Next]_roster

-------------------------------------------------------------------------------
(* What follows for every program that implements the list.                *)

\* No two members have the same host id.
IdsApart ==
    \A n, m \in Nodes, i \in Ids : HasId(n, i) /\ HasId(m, i) => n = m

\* A member's host id is its own until it is removed or lost, wherever it roams.
KeepsIds ==
    \A n \in Nodes, i \in Ids :
        HasId(n, i) => HasId(n, i)' \/ roster'[n] \in {Out, Lost}
IdsKept == [][KeepsIds]_roster
===============================================================================

--------------------------- MODULE MCSwarmMembership ---------------------------
(* Instances of SwarmMembership for TLC.                                   *)
EXTENDS SwarmMembership, TLC

\* Nodes are interchangeable, and so are APs that are both known or both not:
\* no definition orders them or chooses one.  For safety only.
NodesAndAPs ==
    UNION {Permutations(Nodes), Permutations(KnownAPs), Permutations(APs \ KnownAPs)}
===============================================================================

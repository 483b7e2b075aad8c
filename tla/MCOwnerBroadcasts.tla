------------------------- MODULE MCOwnerBroadcasts -------------------------
(* Small instances of OwnerBroadcasts for TLC.                             *)
EXTENDS OwnerBroadcasts

\* A server that breaks and comes back, and another one.
TwoServers == [c \in Conns |-> IF c = "b1" THEN "B" ELSE "A"]

\* Ids in the order of the connections (Development mode).
OwnIds == [c \in Conns |-> IF c = "a1" THEN {1} ELSE IF c = "a2" THEN {2} ELSE {3}]
=============================================================================

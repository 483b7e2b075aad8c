------------------------ MODULE MCConnectionRecovery ------------------------
(* Small instances of ConnectionRecovery for TLC: connections of one       *)
(* server.                                                                 *)
EXTENDS ConnectionRecovery, TLC

CONSTANTS a1, a2, a3

OneServer == [c \in Conns |-> "A"]

\* Ids in the order of the connections (Development mode): each is named by the
\* connection it is generated for.
OwnIds == [c \in Conns |-> {c}]

\* Nothing tells the connections that may close apart.
Symmetry == Permutations(MayClose)
=============================================================================

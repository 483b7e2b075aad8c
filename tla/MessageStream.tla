---------------------------- MODULE MessageStream ----------------------------
(***************************************************************************)
(* What one direction of a connection promises, for a set of connections:  *)
(* the messages accepted at one end are delivered at the other in their    *)
(* order, none twice and, as long as the stream is not lossy, none left    *)
(* out.  A message is known by its position among the accepted ones; one   *)
(* step may deliver several.                                               *)
(***************************************************************************)
EXTENDS Integers, Sequences

CONSTANT Streams

VARIABLES
  accepted,   \* per stream: how many messages have been accepted
  delivered,  \* per stream: the positions delivered, in the order of delivery
  lossy       \* per stream: whether messages may be left out

vars == <<accepted, delivered, lossy>>

LastDelivered(x) == IF delivered[x] = <<>> THEN 0 ELSE delivered[x][Len(delivered[x])]
Interval(first, last) == [k \in 1 .. last - first + 1 |-> first + k - 1]

\* Messages may have been accepted before the first step.
Init ==
  /\ accepted \in [Streams -> Nat]
  /\ delivered = [x \in Streams |-> <<>>]
  /\ lossy \in [Streams -> BOOLEAN]

Accept(x) ==
  /\ accepted' = [accepted EXCEPT ![x] = @ + 1]
  /\ UNCHANGED delivered

\* The next messages, from one on that is not the next only if losses may occur.
Deliver(x) ==
  /\ \E first \in LastDelivered(x) + 1 .. accepted[x] :
     \E last \in first .. accepted[x] :
       /\ first = LastDelivered(x) + 1 \/ lossy[x]
       /\ delivered' = [delivered EXCEPT ![x] = @ \o Interval(first, last)]
  /\ UNCHANGED accepted

\* Whether losses may occur is not the stream's choice, but it never becomes
\* reliable again.
Loses == \A x \in Streams : lossy[x] => lossy'[x]

Next ==
  /\ Loses
  /\ \/ \E x \in Streams : Accept(x) \/ Deliver(x)
     \/ UNCHANGED <<accepted, delivered>>

Spec == Init /\ [][Next]_vars
=============================================================================

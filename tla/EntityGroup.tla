---------------------------- MODULE EntityGroup ----------------------------
(* Entity groups (entity.go, FlatEntityGroupController). A group is an       *)
(* instance shared by reference by the controllers of its members, so the     *)
(* state is a heap of instances and the two references of every controller:   *)
(*   handover[e], lock[e]   the index of e's handover and lock group, 0 = nil *)
(*   members                the entities of each instance                     *)
(* Entity channels that do not exist are skipped: Alive is the set of those   *)
(* GetChannel finds.                                                          *)
EXTENDS Naturals, Sequences, SequencesExt

CONSTANT Entities

NoGroups == [handover |-> [e \in Entities |-> 0], lock |-> [e \in Entities |-> 0],
             members |-> <<>>]

Members(G, i) == IF i = 0 THEN {} ELSE G.members[i]

HandoverOf(G, e) == Members(G, G.handover[e])
LockOf(G, e)     == Members(G, G.lock[e])

\* newEntityGroup, stored as the group of kind ("handover" or "lock") of e.
NewGroup(G, kind, e) ==
  [G EXCEPT !.members = Append(@, {}), ![kind][e] = Len(G.members) + 1]

\* A method called on a controller without a group of the kind makes one.
WithGroup(G, kind, e) == IF G[kind][e] = 0 THEN NewGroup(G, kind, e) ELSE G

Store(G, i, S) == [G EXCEPT !.members[i] = @ \cup S]

\* Mutant of CascadeGroup: the members are merged, the reference is not set.
CascadeGroupUnshared(G, kind, e, i) ==
  IF LockOf(G, e) # {} THEN G
  ELSE Store(G, i, HandoverOf(G, e) \cup (IF kind = "lock" THEN LockOf(G, e) ELSE {}))

\* cascadeGroup on e's controller: a locked entity keeps its groups, another
\* brings its members into instance i and refers to i from now on.
CascadeGroup(G, kind, e, i) ==
  IF LockOf(G, e) # {} THEN G
  ELSE [Store(G, i, HandoverOf(G, e) \cup (IF kind = "lock" THEN LockOf(G, e) ELSE {}))
          EXCEPT ![kind][e] = i]

\* AddToGroup on e's controller, in the order of the list.
AddToGroup(G, Alive, kind, e, list) ==
  LET H == WithGroup(G, kind, e)
      AddOne(K, x) == LET L == Store(K, K[kind][e], {x})
                      IN IF x \in Alive THEN CascadeGroup(L, kind, x, L[kind][e]) ELSE L
  IN FoldLeft(AddOne, H, list)

\* RemoveFromGroup on e's controller: an error without a group; every removed
\* entity that exists gets a new, empty group.
RemoveFromGroup(G, Alive, kind, e, list) ==
  LET RemoveOne(K, x) ==
        LET L == [K EXCEPT !.members[K[kind][e]] = @ \ {x}]
        IN IF x \in Alive THEN NewGroup(L, kind, x) ELSE L
  IN IF G[kind][e] = 0 THEN G ELSE FoldLeft(RemoveOne, G, list)

\* Uninitialize, when e's channel is removed: it is still found.
Uninitialize(G, Alive, e) ==
  RemoveFromGroup(RemoveFromGroup(G, Alive, "handover", e, <<e>>), Alive, "lock", e, <<e>>)

\* GetHandoverEntities on e's controller: itself if it never had a group,
\* nobody when its own lock group holds one of its handover group.
GetHandoverEntities(G, e) ==
  IF G.handover[e] = 0 THEN {e}
  ELSE IF HandoverOf(G, e) \cap LockOf(G, e) # {} THEN {} ELSE HandoverOf(G, e)
=============================================================================

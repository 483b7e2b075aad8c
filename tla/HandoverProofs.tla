--------------------------- MODULE HandoverProofs ---------------------------
(* Theorems about module Handover, for every value of its constants.         *)
EXTENDS Handover, SpatialGridProofs, NaturalsInduction, WellFoundedInduction, SequenceTheorems

\* A table of spatial channel instances: what the types of the code guarantee.
IsChannel(r) ==
  r = [owner |-> r.owner, subs |-> r.subs, entities |-> r.entities, queue |-> r.queue]
Channels(S) ==
  /\ S = [i \in Instances |-> S[i]]
  /\ \A i \in Instances : IsChannel(S[i])

\* The channels of T have the owners they had in S, or have lost them.
NoNewOwner(S, T) == \A i \in Instances : T[i].owner \in {S[i].owner, NoConn}
Kept(S, T) == Channels(T) /\ NoNewOwner(S, T)

\* RegionsAgreeWithOwners is inductive with the types of the tables it reads.
GridInv ==
  /\ scenario \in Scenarios
  /\ serverConnections = [i \in ServerIndexes(grid) |-> serverConnections[i]]
  /\ current \in [0..(MaxCells - 1) -> 0..MaxGen]
  /\ Channels(spatial)
  /\ RegionsAgreeWithOwners

-----------------------------------------------------------------------------
(* What the operations do to the owners of spatial channels.                 *)

\* Changing the subscribers, the entities or the queue of a channel keeps its owner.
LEMMA FieldsKeepOwner ==
  ASSUME NEW r, IsChannel(r), NEW v
  PROVE  /\ IsChannel([r EXCEPT !.subs = v]) /\ [r EXCEPT !.subs = v].owner = r.owner
         /\ IsChannel([r EXCEPT !.entities = v]) /\ [r EXCEPT !.entities = v].owner = r.owner
         /\ IsChannel([r EXCEPT !.queue = v]) /\ [r EXCEPT !.queue = v].owner = r.owner
<1>1. \A a, b, c, d : [[owner |-> a, subs |-> b, entities |-> c, queue |-> d] EXCEPT !.subs = v]
                      = [owner |-> a, subs |-> v, entities |-> c, queue |-> d]
  OBVIOUS
<1>2. \A a, b, c, d : [[owner |-> a, subs |-> b, entities |-> c, queue |-> d] EXCEPT !.entities = v]
                      = [owner |-> a, subs |-> b, entities |-> v, queue |-> d]
  OBVIOUS
<1>3. \A a, b, c, d : [[owner |-> a, subs |-> b, entities |-> c, queue |-> d] EXCEPT !.queue = v]
                      = [owner |-> a, subs |-> b, entities |-> c, queue |-> v]
  OBVIOUS
<1> QED
  BY <1>1, <1>2, <1>3 DEF IsChannel

\* Changing the owner of a channel changes nothing else.
LEMMA OwnerField ==
  ASSUME NEW r, IsChannel(r), NEW v
  PROVE  IsChannel([r EXCEPT !.owner = v]) /\ [r EXCEPT !.owner = v].owner = v
<1>1. \A a, b, c, d : [[owner |-> a, subs |-> b, entities |-> c, queue |-> d] EXCEPT !.owner = v]
                      = [owner |-> v, subs |-> b, entities |-> c, queue |-> d]
  OBVIOUS
<1> QED
  BY <1>1 DEF IsChannel

\* Replacing one channel by one with the same owner, or none, keeps the owners.
LEMMA ReplaceKeeps ==
  ASSUME NEW S, Channels(S), NEW i, NEW r,
         i \in Instances => IsChannel(r) /\ r.owner \in {S[i].owner, NoConn}
  PROVE  Kept(S, [S EXCEPT ![i] = r])
<1> DEFINE T == [S EXCEPT ![i] = r]
<1>1. ASSUME NEW j \in Instances PROVE T[j] = IF j = i THEN r ELSE S[j]
  BY DEF Channels
<1>2. T = [j \in Instances |-> T[j]]
  BY DEF Channels
<1> QED
  BY <1>1, <1>2 DEF Kept, Channels, NoNewOwner

\* A change of one field of one channel changes no owner.
LEMMA FieldsKeep ==
  ASSUME NEW S, Channels(S), NEW i, NEW v
  PROVE  /\ Kept(S, [S EXCEPT ![i].subs = v])
         /\ Kept(S, [S EXCEPT ![i].entities = v])
         /\ Kept(S, [S EXCEPT ![i].queue = v])
<1>1. i \in Instances => IsChannel(S[i])
  BY DEF Channels
<1> QED
  BY <1>1, FieldsKeepOwner, ReplaceKeeps

\* Queueing work for a channel changes no owner.
LEMMA ExecuteKeeps ==
  ASSUME NEW S, Channels(S), NEW i, NEW callback
  PROVE  Kept(S, Execute(S, i, callback))
BY FieldsKeep DEF Execute

\* Two such changes one after the other.
LEMMA KeptTwice ==
  ASSUME NEW S, NEW T, NEW U, Kept(S, T), Kept(T, U)
  PROVE  Kept(S, U)
BY DEF Kept, NoNewOwner

\* No change keeps the owners.
LEMMA KeptSame ==
  ASSUME NEW S, Channels(S)
  PROVE  Kept(S, S)
BY DEF Kept, NoNewOwner

\* The cells of a grid have their entries in the tables.
LEMMA CellsInTable ==
  ASSUME scenario \in Scenarios
  PROVE  /\ grid \in Grids
         /\ Cells \subseteq 0..(MaxCells - 1)
         /\ NoCell \notin Cells
<1>1. grid \in Grids /\ CellCount(grid) <= MaxCells
  BY HandoverAssumption DEF grid
<1>2. CellCount(grid) \in Nat
  BY <1>1 DEF Grids, CellCount
<1> QED
  BY <1>1, <1>2, HandoverAssumption DEF Cells, CellsOf, NoCell

\* An existing channel has its current instance.
LEMMA CurrentInstance ==
  ASSUME scenario \in Scenarios, current \in [0..(MaxCells - 1) -> 0..MaxGen],
         NEW c \in Cells, Exists(c)
  PROVE  Current(c) \in Instances
BY CellsInTable, HandoverAssumption DEF Exists, Current, Instances

\* As long as channels only lose owners, servers only close and the tables stay,
\* the regions go on agreeing with the owners.
LEMMA KeptAgreement ==
  ASSUME GridInv, scenario' = scenario, closing \subseteq closing',
         current' = current, serverConnections' = serverConnections, Kept(spatial, spatial')
  PROVE  GridInv'
<1>1. grid' = grid /\ Cells' = Cells
  BY DEF grid, Cells
<1>2. ASSUME NEW c \in Cells, Exists(c),
             spatial'[Current(c)].owner # NoConn, spatial'[Current(c)].owner \notin closing'
      PROVE  serverConnections[RegionServer(grid, c)] = spatial'[Current(c)].owner
  <2>1. Current(c) \in Instances
    BY <1>2, CurrentInstance DEF GridInv
  <2>2. spatial'[Current(c)].owner \in {spatial[Current(c)].owner, NoConn}
    BY <2>1 DEF Kept, NoNewOwner
  <2>3. /\ spatial'[Current(c)].owner = spatial[Current(c)].owner
        /\ Live(spatial[Current(c)].owner)
    BY <1>2, <2>2 DEF Live
  <2> QED
    BY <1>2, <2>3 DEF GridInv, RegionsAgreeWithOwners
<1>3. RegionsAgreeWithOwners'
  BY <1>1, <1>2 DEF RegionsAgreeWithOwners, Exists, Current, Live
<1>4. Channels(spatial')
  BY DEF Kept
<1> QED
  BY <1>1, <1>3, <1>4 DEF GridInv, Channels

\* A non-empty set of naturals has a least element.
LEMMA LeastNatural ==
  ASSUME NEW S, S \subseteq Nat, S # {}
  PROVE  \E i \in S : \A j \in S : i <= j
<1>1. PICK x \in S : \A y \in S : ~ (<<y, x>> \in OpToRel(<, Nat))
  BY NatLessThanWellFounded, WFMin
<1>2. ASSUME NEW y \in S PROVE x <= y
  <2>1. x \in Nat /\ y \in Nat
    OBVIOUS
  <2>2. ~ (y < x)
    BY <1>1, <2>1 DEF OpToRel
  <2> QED
    BY <2>1, <2>2
<1> QED
  BY <1>2

\* Columns and rows of a server, which may lie outside the world.
LEMMA OwnAreasAreIntegers ==
  ASSUME NEW g \in Grids, NEW i \in ServerIndexes(g)
  PROVE  OwnCols(g, i) \subseteq Int /\ OwnRows(g, i) \subseteq Int
<1>1. ServerGridCols(g) \in Nat \ {0} /\ ServerGridRows(g) \in Nat \ {0}
  BY ServersSuffice DEF Grids, ServerGridCols, ServerGridRows
<1>2. g.serverCols \in Nat \ {0} /\ i \in Nat
  BY DEF Grids, ServerIndexes
<1>3. i % g.serverCols \in Nat /\ i \div g.serverCols \in Nat
  BY <1>2, Division
<1>4. FirstCol(g, i) \in Nat /\ FirstRow(g, i) \in Nat
  BY <1>1, <1>3 DEF FirstCol, FirstRow
<1> QED
  BY <1>1, <1>4 DEF OwnCols, OwnRows

\* The owners after a creation that is not refused.
LEMMA CreationOwners ==
  ASSUME Channels(spatial), HandleCreateSpatial, ~ UNCHANGED <<worldVars, spatial, interest>>
  PROVE  LET s    == Head(globalQueue).from
             idx  == NextServerIndex(serverConnections)
             made == ChannelsOfServer(grid, idx)
             cur  == [c \in DOMAIN current |-> current[c] + (IF c \in made THEN 1 ELSE 0)]
         IN  /\ idx # ServerCount(grid) /\ NoCell \notin made
             /\ serverConnections' = [serverConnections EXCEPT ![idx] = s]
             /\ current' = cur
             /\ Channels(spatial')
             /\ \A i \in Instances : spatial'[i].owner =
                  IF i[1] \in made /\ i[2] = cur[i[1]] THEN s ELSE spatial[i].owner
<1> DEFINE s    == Head(globalQueue).from
           idx  == NextServerIndex(serverConnections)
           made == ChannelsOfServer(grid, idx)
           cur  == [c \in DOMAIN current |-> current[c] + (IF c \in made THEN 1 ELSE 0)]
           conns == [serverConnections EXCEPT ![idx] = s]
           subbed == IF NextServerIndex(conns) = ServerCount(grid)
                     THEN BorderSubscribed(cur, conns) ELSE {}
           subs(c) == {conns[i] : i \in {j \in subbed : c \in BorderOf(grid, j)}}
           base(i) == IF i[1] \in made /\ i[2] = cur[i[1]] THEN NewSpatial(s) ELSE spatial[i]
           all(i) == IF i[1] \in Cells /\ i[2] = cur[i[1]]
                     THEN [base(i) EXCEPT !.subs = base(i).subs \cup subs(i[1])] ELSE base(i)
<1>1. CreateChannels(s)
  BY DEF HandleCreateSpatial
<1>2. /\ ~ (idx = ServerCount(grid) \/ NoCell \in made)
      /\ serverConnections' = conns /\ current' = cur
      /\ spatial' = [i \in Instances |-> all(i)]
  BY <1>1 DEF CreateChannels
<1> HIDE DEF s, idx, made, cur, conns, subbed, subs
<1>3. ASSUME NEW i \in Instances
      PROVE  /\ IsChannel(base(i))
             /\ base(i).owner = IF i[1] \in made /\ i[2] = cur[i[1]] THEN s ELSE spatial[i].owner
  BY DEF Channels, NewSpatial, IsChannel
<1> HIDE DEF base
<1>4. ASSUME NEW i \in Instances
      PROVE  IsChannel(all(i)) /\ all(i).owner = base(i).owner
  BY <1>3, FieldsKeepOwner
<1> HIDE DEF all
<1>5. Channels(spatial')
  BY <1>2, <1>4 DEF Channels
<1>6. \A i \in Instances : spatial'[i].owner =
        IF i[1] \in made /\ i[2] = cur[i[1]] THEN s ELSE spatial[i].owner
  BY <1>2, <1>3, <1>4
<1> QED
  BY <1>2, <1>5, <1>6 DEF s, idx, made, cur, conns

-----------------------------------------------------------------------------
(* The steps.                                                                *)

\* The channels a server creates are in the world, as long as none is NoCell.
LEMMA ChannelsInWorld ==
  ASSUME NEW g \in Grids, NEW i \in ServerIndexes(g)
  PROVE  ChannelsOfServer(g, i) \subseteq CellsOf(g) \cup {NoCell}
<1> SUFFICES ASSUME NEW c \in ChannelsOfServer(g, i) PROVE c \in CellsOf(g) \cup {NoCell}
  OBVIOUS
<1>1. PICK col \in OwnCols(g, i), row \in OwnRows(g, i) : c = ChannelAt(g, col, row)
  BY CellsMember DEF ChannelsOfServer
<1>2. col \in Int /\ row \in Int
  BY OwnAreasAreIntegers
<1> QED
  BY <1>1, <1>2, CornerCell, PlaceOfCell

\* nextServerIndex gives a free index, or none.
LEMMA NextServerIndexIsFree ==
  ASSUME NEW conns, conns = [i \in ServerIndexes(grid) |-> conns[i]], grid \in Grids,
         NextServerIndex(conns) # ServerCount(grid)
  PROVE  NextServerIndex(conns) \in ServerIndexes(grid) /\ ~Live(conns[NextServerIndex(conns)])
<1>1. DOMAIN conns = ServerIndexes(grid)
  OBVIOUS
<1>2. FreeIndexes(conns) \subseteq ServerIndexes(grid)
  BY <1>1 DEF FreeIndexes
<1>3. FreeIndexes(conns) # {}
  BY DEF NextServerIndex
<1>4. \E i \in FreeIndexes(conns) : \A j \in FreeIndexes(conns) : i <= j
  <2>1. ServerIndexes(grid) \subseteq Nat
    BY DEF ServerIndexes
  <2> QED
    BY <1>2, <1>3, <2>1, LeastNatural
<1>5. NextServerIndex(conns) \in FreeIndexes(conns)
  BY <1>3, <1>4 DEF NextServerIndex
<1> QED
  BY <1>2, <1>5 DEF FreeIndexes

\* A server that creates its channels takes a free index: the channels of live
\* servers have other indexes, and the new ones are those whose region names it.
LEMMA CreationAgrees ==
  ASSUME GridInv, HandleCreateSpatial
  PROVE  GridInv'
<1> DEFINE s    == Head(globalQueue).from
           idx  == NextServerIndex(serverConnections)
           made == ChannelsOfServer(grid, idx)
           conns == [serverConnections EXCEPT ![idx] = s]
           cur  == [c \in DOMAIN current |-> current[c] + (IF c \in made THEN 1 ELSE 0)]
<1>1. grid' = grid /\ Cells' = Cells /\ scenario' = scenario /\ closing' = closing
  BY DEF HandleCreateSpatial, TakeGlobal, grid, Cells
<1>2. CASE UNCHANGED <<worldVars, spatial, interest>>
  BY <1>1, <1>2, KeptSame, KeptAgreement DEF GridInv, worldVars
<1>3. CASE ~ UNCHANGED <<worldVars, spatial, interest>>
  <2>1. /\ idx # ServerCount(grid) /\ NoCell \notin made
        /\ serverConnections' = conns /\ current' = cur
        /\ Channels(spatial')
        /\ \A i \in Instances : spatial'[i].owner =
             IF i[1] \in made /\ i[2] = cur[i[1]] THEN s ELSE spatial[i].owner
    BY <1>3, CreationOwners DEF GridInv, HandleCreateSpatial
  <2>2. grid \in Grids /\ Cells \subseteq 0..(MaxCells - 1) /\ NoCell \notin Cells
    BY CellsInTable DEF GridInv
  <2>3. idx \in ServerIndexes(grid) /\ ~Live(serverConnections[idx])
    BY <2>1, <2>2, NextServerIndexIsFree DEF GridInv
  <2>4. made \subseteq Cells
    BY <2>1, <2>2, <2>3, ChannelsInWorld DEF Cells
  <2>5. \A c \in Cells : current[c] < MaxGen
    BY DEF HandleCreateSpatial
  <2> HIDE DEF made, idx
  <2>6. cur \in [0..(MaxCells - 1) -> 0..MaxGen]
    BY <2>2, <2>4, <2>5, HandoverAssumption DEF GridInv
  <2>7. conns = [i \in ServerIndexes(grid) |-> conns[i]]
    BY DEF GridInv
  <2>8. \A i \in ServerIndexes(grid) : conns[i] = IF i = idx THEN s ELSE serverConnections[i]
    BY DEF GridInv
  <2> HIDE DEF s, cur, conns
  <2>9. ASSUME NEW c \in Cells, cur[c] > 0, spatial'[<<c, cur[c]>>].owner # NoConn,
               spatial'[<<c, cur[c]>>].owner \notin closing
        PROVE  conns[RegionServer(grid, c)] = spatial'[<<c, cur[c]>>].owner
    <3>1. <<c, cur[c]>> \in Instances
      BY <2>2, <2>6, <2>9, HandoverAssumption DEF Instances
    <3>2. RegionServer(grid, c) \in ServerIndexes(grid)
      BY <2>2, EveryChannelHasAServer DEF Cells
    <3>3. CASE c \in made
      <4>1. spatial'[<<c, cur[c]>>].owner = s
        BY <2>1, <3>1, <3>3
      <4>2. RegionServer(grid, c) = idx
        BY <2>2, <2>3, <3>3, RegionsAreChannels DEF Cells, made
      <4> QED
        BY <2>8, <3>2, <4>1, <4>2
    <3>4. CASE c \notin made
      <4>1. cur[c] = current[c]
        BY <2>2, <3>4 DEF cur, GridInv
      <4>2. spatial'[<<c, cur[c]>>].owner = spatial[<<c, current[c]>>].owner
        BY <2>1, <3>1, <3>4, <4>1
      <4>3. /\ serverConnections[RegionServer(grid, c)] = spatial[<<c, current[c]>>].owner
            /\ Live(spatial[<<c, current[c]>>].owner)
        BY <2>2, <2>9, <4>1, <4>2 DEF GridInv, RegionsAgreeWithOwners, Exists, Current, Live
      <4>4. RegionServer(grid, c) # idx
        BY <2>3, <4>3
      <4> QED
        BY <2>8, <3>2, <4>2, <4>3, <4>4
    <3> QED
      BY <3>3, <3>4
  <2>10. RegionsAgreeWithOwners'
    BY <1>1, <2>1, <2>9 DEF RegionsAgreeWithOwners, Exists, Current, Live
  <2> QED
    BY <1>1, <2>1, <2>6, <2>7, <2>10 DEF GridInv, Channels
<1> QED
  BY <1>2, <1>3

\* A world in which the channels exist from the start is divided by the regions.
LEMMA InitAgrees ==
  ASSUME Init
  PROVE  GridInv
<1>1. /\ grid \in Grids /\ Cells \subseteq 0..(MaxCells - 1) /\ NoCell \notin Cells
      /\ scenario \in Scenarios
  BY CellsInTable DEF Init
<1>2. serverConnections = [i \in ServerIndexes(grid) |-> serverConnections[i]]
  BY DEF Init
<1>3. /\ current = [c \in 0..(MaxCells - 1) |-> IF Ready /\ c \in Cells THEN 1 ELSE 0]
      /\ current \in [0..(MaxCells - 1) -> 0..MaxGen]
  <2>1. current = [c \in 0..(MaxCells - 1) |-> IF Ready /\ c \in Cells THEN 1 ELSE 0]
    BY DEF Init
  <2> QED
    BY <2>1, HandoverAssumption
<1>4. Channels(spatial) /\ \A i \in Instances :
        Ready /\ i[2] = 1 /\ i[1] \in Cells => spatial[i].owner = OwnerOfCell(i[1])
  <2> DEFINE first(i) == [NewSpatial(OwnerOfCell(i[1])) EXCEPT
                            !.subs = {c \in Conns : i[1] \in SubscriberCells(c)},
                            !.entities = {e \in Entities : PlacedIn(e) = i[1]}]
             channel(i) == IF Ready /\ i[2] = 1 /\ i[1] \in Cells THEN first(i)
                           ELSE NewSpatial(NoConn)
  <2>1. ASSUME NEW i PROVE IsChannel(first(i)) /\ first(i).owner = OwnerOfCell(i[1])
    <3>1. /\ IsChannel(NewSpatial(OwnerOfCell(i[1])))
          /\ NewSpatial(OwnerOfCell(i[1])).owner = OwnerOfCell(i[1])
      BY DEF NewSpatial, IsChannel
    <3> DEFINE r == [NewSpatial(OwnerOfCell(i[1])) EXCEPT
                       !.subs = {c \in Conns : i[1] \in SubscriberCells(c)}]
               there == {e \in Entities : PlacedIn(e) = i[1]}
    <3>2. IsChannel(r) /\ r.owner = OwnerOfCell(i[1])
      BY <3>1, FieldsKeepOwner
    <3>3. first(i) = [r EXCEPT !.entities = there]
      OBVIOUS
    <3> HIDE DEF r, first, there
    <3>4. /\ IsChannel([r EXCEPT !.entities = there])
          /\ [r EXCEPT !.entities = there].owner = r.owner
      BY <3>2, FieldsKeepOwner
    <3> QED
      BY <3>2, <3>3, <3>4
  <2>2. IsChannel(NewSpatial(NoConn))
    BY DEF NewSpatial, IsChannel
  <2>3. spatial = [i \in Instances |-> channel(i)]
    BY DEF Init
  <2> HIDE DEF first
  <2>4. \A i \in Instances : IsChannel(channel(i))
    BY <2>1, <2>2
  <2>5. \A i \in Instances : Ready /\ i[2] = 1 /\ i[1] \in Cells =>
          channel(i).owner = OwnerOfCell(i[1])
    BY <2>1
  <2> HIDE DEF channel
  <2> QED
    BY <2>3, <2>4, <2>5 DEF Channels
<1>5. ASSUME NEW c \in Cells, Exists(c)
      PROVE  serverConnections[RegionServer(grid, c)] = spatial[Current(c)].owner
  <2>1. Ready /\ current[c] = 1
    BY <1>1, <1>3, <1>5 DEF Exists
  <2>2. RegionServer(grid, c) \in ServerIndexes(grid)
    BY <1>1, EveryChannelHasAServer DEF Cells
  <2>3. \A i \in ServerIndexes(grid) : c \in ChannelsOfServer(grid, i) <=> i = RegionServer(grid, c)
    BY <1>1, RegionsAreChannels DEF Cells
  <2>4. (CHOOSE i \in ServerIndexes(grid) : c \in ChannelsOfServer(grid, i)) = RegionServer(grid, c)
    BY <2>2, <2>3
  <2>5. OwnerOfCell(c) = scenario.owners[1 + RegionServer(grid, c)]
    BY <2>4 DEF OwnerOfCell
  <2>6. serverConnections[RegionServer(grid, c)] = scenario.owners[RegionServer(grid, c) + 1]
    BY <2>1, <2>2 DEF Init
  <2>7. 1 + RegionServer(grid, c) = RegionServer(grid, c) + 1
    BY <1>1, <2>2 DEF ServerIndexes
  <2>8. spatial[Current(c)].owner = OwnerOfCell(c)
    <3>1. Current(c) \in Instances /\ Current(c)[1] = c /\ Current(c)[2] = 1
      BY <1>1, <1>3, <1>5, <2>1, CurrentInstance DEF Current
    <3> QED
      BY <1>4, <2>1, <3>1
  <2> QED
    BY <2>5, <2>6, <2>7, <2>8
<1> QED
  BY <1>1, <1>2, <1>3, <1>4, <1>5 DEF GridInv, RegionsAgreeWithOwners

\* The steps of connections and of GLOBAL's goroutine.
LEMMA OtherGlobalSteps ==
  ASSUME GridInv,
         \/ \E s \in Servers \cup {Master} : Send(s)
         \/ \E c \in Conns : Close(c)
         \/ SubscribeCreated
         \/ HandleCreateWorldEntity
         \/ HandleRemoveEntity
  PROVE  GridInv'
<1> USE DEF worldVars
<1>1. Channels(spatial)
  BY DEF GridInv
<1>2. ASSUME NEW s \in Servers \cup {Master}, Send(s) PROVE GridInv'
  <2>1. Kept(spatial, spatial')
    BY <1>1, <1>2, ExecuteKeeps, KeptSame DEF Send
  <2> QED
    BY <1>2, <2>1, KeptAgreement DEF Send
<1>3. ASSUME NEW c \in Conns, Close(c) PROVE GridInv'
  BY <1>1, <1>3, KeptSame, KeptAgreement DEF Close
<1>4. CASE SubscribeCreated
  <2>1. CASE spatial' = spatial
    BY <1>1, <1>4, <2>1, KeptSame, KeptAgreement DEF SubscribeCreated
  <2>2. CASE spatial' # spatial
    <3> DEFINE own == {c \in Cells : Exists(c) /\ spatial[Current(c)].owner = creating}
               channel(i) == IF i[1] \in own /\ i = Current(i[1])
                             THEN [spatial[i] EXCEPT !.subs = spatial[i].subs \cup {creating}]
                             ELSE spatial[i]
    <3>1. spatial' = [i \in Instances |-> channel(i)]
      BY <1>4, <2>2 DEF SubscribeCreated
    <3>2. ASSUME NEW i \in Instances
          PROVE  IsChannel(channel(i)) /\ channel(i).owner = spatial[i].owner
      <4>1. IsChannel(spatial[i])
        BY <1>1 DEF Channels
      <4> HIDE DEF own
      <4> QED
        BY <4>1, FieldsKeepOwner
    <3> HIDE DEF channel
    <3>3. Kept(spatial, spatial')
      BY <3>1, <3>2 DEF Kept, Channels, NoNewOwner
    <3> QED
      BY <1>4, <3>3, KeptAgreement DEF SubscribeCreated
  <2> QED
    BY <2>1, <2>2
<1>5. CASE HandleCreateWorldEntity
  <2>1. Kept(spatial, spatial')
    BY <1>1, <1>5, ExecuteKeeps, KeptSame DEF HandleCreateWorldEntity, CreateWorldEntity
  <2> QED
    BY <1>5, <2>1, KeptAgreement DEF HandleCreateWorldEntity, TakeGlobal
<1>6. CASE HandleRemoveEntity
  BY <1>1, <1>6, KeptSame, KeptAgreement DEF HandleRemoveEntity, TakeGlobal
<1> QED
  BY <1>2, <1>3, <1>4, <1>5, <1>6

\* A server that is forgotten was not live.
LEMMA ControllerTickAgrees ==
  ASSUME GridInv, ControllerTick
  PROVE  GridInv'
<1>1. /\ scenario' = scenario /\ closing' = closing /\ current' = current /\ spatial' = spatial
      /\ grid' = grid /\ Cells' = Cells
  BY DEF ControllerTick, grid, Cells
<1>2. DOMAIN serverConnections = ServerIndexes(grid)
  BY DEF GridInv
<1>3. serverConnections' = [i \in ServerIndexes(grid) |->
        IF serverConnections[i] \in closing THEN NoConn ELSE serverConnections[i]]
  BY <1>2 DEF ControllerTick
<1>4. ASSUME NEW c \in Cells, Exists(c), Live(spatial[Current(c)].owner)
      PROVE  serverConnections'[RegionServer(grid, c)] = spatial[Current(c)].owner
  <2>1. RegionServer(grid, c) \in ServerIndexes(grid)
    BY CellsInTable, EveryChannelHasAServer DEF GridInv, Cells
  <2>2. serverConnections[RegionServer(grid, c)] = spatial[Current(c)].owner
    BY <1>4 DEF GridInv, RegionsAgreeWithOwners
  <2> QED
    BY <1>3, <1>4, <2>1, <2>2 DEF Live
<1>5. RegionsAgreeWithOwners'
  BY <1>1, <1>4 DEF RegionsAgreeWithOwners, Exists, Current, Live
<1> QED
  BY <1>1, <1>3, <1>5 DEF GridInv, Channels

\* An interest update subscribes and queues work, for any channels.
LEMMA InterestKeeps ==
  ASSUME NEW S, Channels(S), NEW i, NEW m, UpdateInterest(i, S, m)
  PROVE  Kept(S, spatial')
<1> DEFINE wanted == {c \in QueryChannelIds(grid, m.query) : Exists(c)}
           left   == {c \in interest[m.client] \ QueryChannelIds(grid, m.query) : Exists(c)}
           work(c) == [type |-> IF c \in wanted THEN "sub" ELSE "unsub", client |-> m.client]
           put(c) == IF Current(c) = i \/ c \notin wanted \cup left THEN S[Current(c)]
                     ELSE [S[Current(c)] EXCEPT !.queue = Append(S[Current(c)].queue, work(c))]
           direct == IF i # Current(i[1]) THEN S[i].subs
                     ELSE IF i[1] \in wanted THEN S[i].subs \cup {m.client}
                     ELSE IF i[1] \in left THEN S[i].subs \ {m.client} ELSE S[i].subs
           channel(j) == IF j = i THEN [S[i] EXCEPT !.subs = direct]
                         ELSE IF Exists(j[1]) /\ j = Current(j[1]) THEN put(j[1]) ELSE S[j]
<1>1. CASE spatial' = S
  BY <1>1, KeptSame
<1>2. CASE spatial' # S
  <2>1. spatial' = [j \in Instances |-> channel(j)]
    BY <1>2 DEF UpdateInterest
  <2> HIDE DEF wanted, left, work, direct
  <2>2. ASSUME NEW j \in Instances
        PROVE  IsChannel(channel(j)) /\ channel(j).owner = S[j].owner
    <3>1. IsChannel(S[j])
      BY DEF Channels
    <3> QED
      BY <3>1, FieldsKeepOwner
  <2> HIDE DEF channel
  <2> QED
    BY <2>1, <2>2 DEF Kept, Channels, NoNewOwner
<1> QED
  BY <1>1, <1>2

\* The steps of a spatial channel's goroutine.
LEMMA SpatialSteps ==
  ASSUME GridInv, NEW i \in Instances, SpatialStep(i)
  PROVE  GridInv'
<1> DEFINE S == Taken(i)
<1>1. Channels(spatial) /\ Kept(spatial, S) /\ Channels(S)
  BY FieldsKeep DEF GridInv, Taken, Kept
<1>2. ASSUME scenario' = scenario, closing' = closing, worldVars' = worldVars, Kept(S, spatial')
      PROVE  GridInv'
  <2>1. Kept(spatial, spatial')
    BY <1>1, <1>2, KeptTwice
  <2> QED
    BY <1>2, <2>1, KeptAgreement DEF worldVars
<1> HIDE DEF S
<1>2a. Kept(S, S)
  BY <1>1, KeptSame
<1>2b. ASSUME NEW v PROVE Kept(S, [S EXCEPT ![i].subs = v]) /\ Kept(S, [S EXCEPT ![i].entities = v])
  BY <1>1, FieldsKeep
<1>2c. ASSUME NEW j, NEW callback PROVE Kept(S, Execute(S, j, callback))
  BY <1>1, ExecuteKeeps
<1>3. ASSUME NEW type, Take(i, type)
      PROVE  scenario' = scenario /\ closing' = closing /\ worldVars' = worldVars
  BY <1>3 DEF Take
<1>4. CASE AddToData(i)
  BY <1>1, <1>2, <1>3, <1>4, FieldsKeep DEF AddToData, S
<1>5. CASE RemoveFromData(i)
  BY <1>1, <1>2, <1>3, <1>5, FieldsKeep DEF RemoveFromData, S
<1>6. CASE HandleCreateEntity(i)
  BY <1>1, <1>2, <1>3, <1>6, KeptSame DEF HandleCreateEntity, S
<1>7. CASE HandleSpawn(i)
  <2>1. Spawn(i, S, FirstOf(i))
    BY <1>7 DEF HandleSpawn, S
  <2>2. Kept(S, spatial')
    <3>1. \/ spatial' = S
          \/ \E v : spatial' = [S EXCEPT ![i].entities = v]
          \/ \E j, callback : spatial' = Execute(S, j, callback)
      BY <2>1 DEF Spawn
    <3> QED
      BY <1>2a, <1>2b, <1>2c, <3>1
  <2> QED
    BY <1>2, <1>3, <1>7, <2>2 DEF HandleSpawn
<1>8. CASE HandleDestroy(i)
  BY <1>1, <1>2, <1>3, <1>8, FieldsKeep DEF HandleDestroy, S
<1>9. CASE HandleInterest(i)
  <2>1. UpdateInterest(i, S, FirstOf(i))
    BY <1>9 DEF HandleInterest, S
  <2>2. Kept(S, spatial')
    BY <1>1, <2>1, InterestKeeps
  <2> QED
    BY <1>2, <1>3, <1>9, <2>2 DEF HandleInterest
<1>10. CASE HandleSub(i)
  <2>1. Subscribed(i, S, FirstOf(i))
    BY <1>10 DEF HandleSub, S
  <2>2. Kept(S, spatial')
    <3>1. spatial' = S \/ \E v : spatial' = [S EXCEPT ![i].subs = v]
      BY <2>1 DEF Subscribed
    <3> QED
      BY <1>2a, <1>2b, <3>1
  <2> QED
    BY <1>2, <1>3, <1>10, <2>2 DEF HandleSub
<1>11. CASE HandleUnsub(i)
  <2>1. Unsubscribed(i, S, FirstOf(i))
    BY <1>11 DEF HandleUnsub, S
  <2>2. Kept(S, spatial')
    <3>1. spatial' = S \/ \E v : spatial' = [S EXCEPT ![i].subs = v]
      BY <2>1 DEF Unsubscribed
    <3> QED
      BY <1>2a, <1>2b, <3>1
  <2> QED
    BY <1>2, <1>3, <1>11, <2>2 DEF HandleUnsub
<1>12. CASE SpatialTick(i)
  <2> DEFINE r == [spatial[i] EXCEPT !.subs = spatial[i].subs \ closing]
             q == [r EXCEPT !.owner = IF spatial[i].owner \in spatial[i].subs \cap closing
                                      THEN NoConn ELSE spatial[i].owner]
  <2>1. spatial' = [spatial EXCEPT ![i] = q]
    BY <1>1, <1>12 DEF SpatialTick, Channels
  <2>2. IsChannel(spatial[i])
    BY <1>1 DEF Channels
  <2>3. IsChannel(r) /\ r.owner = spatial[i].owner
    BY <2>2, FieldsKeepOwner
  <2>4. IsChannel(q) /\ q.owner \in {spatial[i].owner, NoConn}
    <3> HIDE DEF r
    <3>1. \A o : IsChannel([r EXCEPT !.owner = o]) /\ [r EXCEPT !.owner = o].owner = o
      BY <2>3, OwnerField
    <3> QED
      BY <3>1
  <2> HIDE DEF q
  <2>5. Kept(spatial, spatial')
    BY <1>1, <2>1, <2>4, ReplaceKeeps
  <2> QED
    BY <1>12, <2>5, KeptAgreement DEF SpatialTick, worldVars
<1> QED
  BY <1>4, <1>5, <1>6, <1>7, <1>8, <1>9, <1>10, <1>11, <1>12 DEF SpatialStep

\* The steps of an entity channel's goroutine: a handover changes the owners of
\* entity channels, never those of the spatial channels it works on.
LEMMA EntitySteps ==
  ASSUME GridInv, NEW e \in Entities, EntityStep(e)
  PROVE  GridInv'
<1>1. Channels(spatial)
  BY DEF GridInv
<1>2. ASSUME scenario' = scenario, closing' = closing, worldVars' = worldVars, Kept(spatial, spatial')
      PROVE  GridInv'
  BY <1>2, KeptAgreement DEF worldVars
<1>3. ASSUME NEW type, Entered(e, type) PROVE GridInv'
  BY <1>1, <1>2, <1>3, KeptSame DEF Entered
<1>4. CASE HandleUpdate(e) \/ SetObjRef(e) \/ HandleAddGroup(e) \/ HandleRemoveGroup(e)
  BY <1>3, <1>4 DEF HandleUpdate, SetObjRef, HandleAddGroup, HandleRemoveGroup
<1>5. CASE EntityTick(e)
  BY <1>1, <1>2, <1>5, KeptSame DEF EntityTick
<1>6. CASE NotifyStep(e)
  <2>1. ASSUME UNCHANGED NotifyVars
        PROVE  scenario' = scenario /\ closing' = closing /\ worldVars' = worldVars
    BY <2>1 DEF NotifyVars
  <2>2. CASE NotifyRemove(e)
    BY <1>1, <1>2, <2>1, <2>2, ExecuteKeeps DEF NotifyRemove
  <2>3. CASE NotifyAdd(e)
    BY <1>1, <1>2, <2>1, <2>3, ExecuteKeeps DEF NotifyAdd
  <2>4. CASE NotifyOwners(e) \/ NotifyReturns(e) \/ \E c \in Conns : NotifySubscribe(e, c)
    BY <1>1, <1>2, <2>1, <2>4, KeptSame DEF NotifyOwners, NotifyReturns, NotifySubscribe
  <2> QED
    BY <1>6, <2>2, <2>3, <2>4 DEF NotifyStep
<1> QED
  BY <1>4, <1>5, <1>6 DEF EntityStep

-----------------------------------------------------------------------------

\* Every step keeps the tables and the agreement.
LEMMA GridStep ==
  ASSUME GridInv, [Next]_vars
  PROVE  GridInv'
<1>1. CASE Next
  <2>1. CASE \E s \in Servers \cup {Master} : Send(s)
    BY <2>1, OtherGlobalSteps
  <2>2. CASE \E c \in Conns : Close(c)
    BY <2>2, OtherGlobalSteps
  <2>3. CASE GlobalStep
    BY <2>3, OtherGlobalSteps, ControllerTickAgrees, CreationAgrees DEF GlobalStep
  <2>4. CASE \E i \in Instances : SpatialStep(i)
    BY <2>4, SpatialSteps
  <2>5. CASE \E e \in Entities : EntityStep(e)
    BY <2>5, EntitySteps
  <2> QED
    BY <1>1, <2>1, <2>2, <2>3, <2>4, <2>5 DEF Next
<1>2. CASE UNCHANGED vars
  <2>1. Kept(spatial, spatial')
    BY <1>2, KeptSame DEF GridInv, vars
  <2> QED
    BY <1>2, <2>1, KeptAgreement DEF vars, worldVars
<1> QED
  BY <1>1, <1>2

\* For every grid, divisible among the servers or not, and whatever servers are
\* lost and replaced, entities handed over and interests changed: a live owner of a
\* spatial channel is the server that GetRegions names for the channel.
THEOREM RegionsAgree == Spec => []RegionsAgreeWithOwners
<1>1. Init => GridInv
  BY InitAgrees
<1>2. GridInv /\ [Next]_vars => GridInv'
  BY GridStep
<1>3. GridInv => RegionsAgreeWithOwners
  BY DEF GridInv
<1> QED
  BY <1>1, <1>2, <1>3, PTL DEF Spec
=============================================================================

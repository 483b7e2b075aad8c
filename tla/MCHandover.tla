----------------------------- MODULE MCHandover -----------------------------
(* The scenarios that instantiate Handover for TLC: grids of at most four     *)
(* channels, three servers, one client and two entities.                      *)
EXTENDS Handover

CONSTANTS s1, s2, s3, c1, A, B

ServersDef == {s1, s2, s3}
ClientsDef == {c1}
EntitiesDef == {A, B}

Grid(cols, rows, scols, srows, border) ==
  [gridCols |-> cols, gridRows |-> rows, serverCols |-> scols, serverRows |-> srows,
   border |-> border]

\* config/spatial_static_4x1.json, and its 2x2 with a border that can be served.
Line   == Grid(4, 1, 2, 1, 1)
Block  == Grid(2, 2, 1, 2, 1)
Uneven == Grid(3, 1, 2, 1, 1)
Wide   == Grid(2, 1, 2, 1, 2)
Three  == Grid(3, 1, 3, 1, 1)

\* The middle of channel c of Line; -1 and 4 are outside the world.
In(c) == <<8 * c + 4, 4>>

CreateSpatial == [kind |-> "global", type |-> "createSpatial"]
WorldEntity(e, p) ==
  [kind |-> "global", type |-> "createEntity", entity |-> e, pos |-> p, ref |-> TRUE,
   access |-> "write"]
NewWith(c, e, p, r, a) ==
  [kind |-> "spatial", ch |-> c, type |-> "createEntity", entity |-> e, pos |-> p, ref |-> r,
   access |-> a]
NewIn(c, e, p, r) == NewWith(c, e, p, r, "write")
\* A SPAWN names the channel it is sent to, or another one.
SpawnAs(c, e, p, d) ==
  [kind |-> "spatial", ch |-> c, type |-> "spawn", entity |-> e, pos |-> p, chId |-> d]
SpawnIn(c, e, p) == SpawnAs(c, e, p, c)
DestroyIn(c, e) == [kind |-> "spatial", ch |-> c, type |-> "destroy", entity |-> e]
Interest(c, q) == [kind |-> "spatial", ch |-> c, type |-> "interest", client |-> c1, query |-> q]
Update(e, c) == [kind |-> "entity", ch |-> e, type |-> "update", pos |-> In(c)]
AddGroup(e, g, l) == [kind |-> "entity", ch |-> e, type |-> "addGroup", group |-> g, list |-> l]
RemoveGroup(e, g, l) ==
  [kind |-> "entity", ch |-> e, type |-> "removeGroup", group |-> g, list |-> l]

Box(c, e) == [kind |-> "box", center |-> In(c), extent |-> <<e, 2>>]
Sphere(c, r) == [kind |-> "sphere", center |-> In(c), radius |-> r]
Spots(S) == [kind |-> "spots", spots |-> {In(c) : c \in S}]

Nothing == [s \in ServersDef \cup {Master} |-> <<>>]
Sends(l1, l2, l3) == [Nothing EXCEPT ![s1] = l1, ![s2] = l2, ![s3] = l3]
Nobody == A :> NoPos @@ B :> NoPos
Placed(a, b) == A :> In(a) @@ B :> In(b)
Writers == [e \in EntitiesDef |-> "write"]
Readers == [e \in EntitiesDef |-> "read"]
OnlyA(a) == A :> In(a) @@ B :> NoPos

Empty(g, l, closes) ==
  [grid |-> g, owners |-> <<>>, sends |-> l, closes |-> closes,
   watch |-> [c \in ClientsDef |-> {}], placed |-> Nobody, access |-> Writers]
World(placed, watch, l, closes) ==
  [grid |-> Line, owners |-> <<s1, s2>>, sends |-> l, closes |-> closes,
   watch |-> [c \in ClientsDef |-> watch], placed |-> placed, access |-> Writers]

Trio(l) ==
  [Empty(Three, l, {}) EXCEPT !.owners = <<s1, s2, s3>>]

\* The owners of the entities have the access of defaultSubOptions.
ByDefault(w) == [w EXCEPT !.access = Readers]

\* Channels created by servers that are lost and replaced, on several grids.
CreationScenarios ==
  {Empty(Line, Sends(<<CreateSpatial>>, <<CreateSpatial>>, <<CreateSpatial>>), {s2}),
   Empty(Block, Sends(<<CreateSpatial>>, <<CreateSpatial>>, <<CreateSpatial>>), {s1}),
   Empty(Uneven, Sends(<<CreateSpatial>>, <<CreateSpatial>>, <<>>), {}),
   Empty(Wide, Sends(<<CreateSpatial>>, <<CreateSpatial>>, <<>>), {})}

\* One entity: created, spawned, moved by both servers, leaving the world, destroyed.
EntityScenarios ==
  {World(OnlyA(1), {2}, Sends(<<Update(A, 2), Update(A, 1), Update(A, 0)>>, <<Update(A, 3)>>, <<>>), {}),
   World(OnlyA(0), {}, Sends(<<Update(A, 3)>>, <<Update(A, 2), Update(A, 1)>>, <<>>), {}),
   World(OnlyA(0), {}, Sends(<<Update(A, -1), Update(A, 1), Update(A, 2)>>, <<>>, <<>>), {}),
   World(Nobody, {2}, Sends(<<NewIn(1, A, In(1), FALSE), SpawnIn(1, A, In(1)), Update(A, 2)>>, <<NewIn(2, A, In(2), TRUE), SpawnIn(2, A, In(-1))>>, <<>>), {}),
   World(Nobody, {}, Sends(<<NewIn(1, A, In(1), TRUE), SpawnIn(1, A, In(1)), Update(A, 2)>>, <<>>, <<>>), {}),
   World(Nobody, {}, Sends(<<NewIn(1, A, NoPos, TRUE), SpawnIn(1, A, In(2)), Update(A, 1), Update(A, 0)>>, <<>>, <<>>), {}),
   World(Nobody, {1}, [Sends(<<Update(A, 2)>>, <<>>, <<>>) EXCEPT ![Master] = <<WorldEntity(A, In(1)), WorldEntity(A, In(2))>>], {}),
   World(Nobody, {}, Sends(<<SpawnIn(1, A, In(1)), DestroyIn(1, A), NewIn(1, A, In(1), TRUE)>>, <<>>, <<>>), {}),
   World(Nobody, {}, Sends(<<>>, <<NewIn(1, A, In(1), TRUE), Update(A, 2)>>, <<>>), {}),
   Trio(Sends(<<NewIn(0, A, In(1), TRUE), Update(A, 2)>>, <<>>, <<>>)),
   Empty(Line, Sends(<<CreateSpatial, NewIn(1, A, In(1), TRUE), Update(A, 2)>>, <<CreateSpatial>>, <<>>), {}),
   World(OnlyA(1), {}, Sends(<<Update(A, 2), DestroyIn(1, A)>>, <<Update(A, 3), DestroyIn(2, A)>>, <<>>), {})}

\* A SPAWN without a location, also of an entity that is elsewhere or not there
\* yet, and one that names another channel than it is sent to.
SpawnScenarios ==
  {World(Nobody, {}, Sends(<<NewIn(1, A, In(1), FALSE), SpawnIn(1, A, NoPos), Update(A, 2)>>, <<Update(A, 1)>>, <<>>), {}),
   World(Nobody, {}, Sends(<<SpawnIn(1, A, NoPos), NewIn(1, A, In(1), TRUE), Update(A, 2)>>, <<>>, <<>>), {}),
   World(OnlyA(1), {}, Sends(<<SpawnIn(0, A, NoPos), Update(A, 2), Update(A, 1)>>, <<SpawnIn(2, A, NoPos)>>, <<>>), {}),
   World(Nobody, {}, Sends(<<NewIn(1, A, In(1), TRUE), SpawnAs(1, A, In(1), 0), Update(A, 2)>>, <<SpawnAs(2, A, In(1), 1)>>, <<>>), {}),
   World(Nobody, {}, Sends(<<NewIn(1, A, NoPos, FALSE), SpawnIn(1, A, NoPos), Update(A, 2)>>, <<>>, <<>>), {})}

\* Owners that asked for no write access, before and after handovers.
AccessScenarios ==
  {ByDefault(World(OnlyA(1), {2}, Sends(<<Update(A, 2)>>, <<Update(A, 1)>>, <<>>), {})),
   ByDefault(World(OnlyA(0), {}, Sends(<<Update(A, 1), Update(A, 2)>>, <<Update(A, 3)>>, <<>>), {s2})),
   World(Nobody, {2}, Sends(<<NewWith(1, A, In(1), TRUE, "read"), Update(A, 2)>>, <<NewWith(2, A, In(2), TRUE, "no"), Update(A, 1)>>, <<>>), {})}

\* The owner, the destination's owner, or both close during a handover.
LossScenarios ==
  {World(OnlyA(1), {}, Sends(<<Update(A, 2)>>, <<Update(A, 1)>>, <<CreateSpatial>>), {s2}),
   World(OnlyA(1), {2}, Sends(<<Update(A, 2)>>, <<>>, <<CreateSpatial>>), {s1, c1}),
   World(OnlyA(1), {}, Sends(<<Update(A, 2)>>, <<>>, <<>>), {s1, s2}),
   World(Nobody, {}, [Nothing EXCEPT ![Master] = <<WorldEntity(A, In(2))>>], {s2})}

\* Two entities in a handover group, locked, released, removed.
Pair == AddGroup(A, "handover", <<A, B>>)
GroupScenarios ==
  {World(Placed(1, 1), {}, Sends(<<Pair, Update(A, 2), Update(B, 2), Update(A, 1)>>, <<>>, <<>>), {}),
   World(Placed(1, 1), {}, Sends(<<Pair, Update(A, 2), AddGroup(B, "lock", <<B>>), Update(B, 2)>>, <<Update(A, 1)>>, <<>>), {}),
   World(Placed(1, 1), {}, Sends(<<AddGroup(B, "lock", <<B>>), Pair, Update(A, 2), RemoveGroup(B, "lock", <<B>>)>>, <<Update(B, 2)>>, <<>>), {}),
   World(Placed(1, 1), {}, Sends(<<Pair, RemoveGroup(A, "handover", <<B>>), Update(B, 2)>>, <<Update(A, 2)>>, <<>>), {}),
   World(Placed(1, 2), {}, Sends(<<Pair, Update(A, 2)>>, <<AddGroup(B, "handover", <<B, A>>), Update(B, 1)>>, <<>>), {}),
   World(OnlyA(1), {}, Sends(<<Pair, NewIn(1, B, In(1), TRUE), SpawnIn(1, B, In(1)), Update(A, 2)>>, <<>>, <<>>), {}),
   World(Placed(1, 1), {}, Sends(<<Pair, Update(A, 2), DestroyIn(1, B)>>, <<>>, <<>>), {})}

\* A client's spatial interest, updated through one channel or two.
InterestScenarios ==
  {World(Nobody, {0, 1}, Sends(<<Interest(1, Box(1, 9)), Interest(1, Sphere(2, 8)), Interest(1, Box(4, 8)), Interest(1, Sphere(2, 0))>>, <<>>, <<>>), {}),
   World(Nobody, {}, Sends(<<Interest(1, Box(1, 6)), Interest(0, Spots({0}))>>, <<Interest(2, Spots({2, 3, 5}))>>, <<>>), {}),
   World(Nobody, {1, 2}, Sends(<<Interest(1, Sphere(0, 2))>>, <<Interest(2, Box(3, 4))>>, <<CreateSpatial>>), {c1, s2})}

\* A server goes on moving an entity that its first update handed over.
ResidualScenarios ==
  {World(OnlyA(1), {}, Sends(<<Update(A, 2), Update(A, 1)>>, <<>>, <<>>), {})}

ScenariosDef ==
  CreationScenarios \cup EntityScenarios \cup SpawnScenarios \cup AccessScenarios
    \cup LossScenarios \cup GroupScenarios \cup InterestScenarios
=============================================================================

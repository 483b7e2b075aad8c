------------------------------ MODULE Handover ------------------------------
(* The spatial world of channeld: the spatial channels a set of servers      *)
(* creates on the static grid (spatial.go), the entity channels that live in  *)
(* them, their handover from one spatial channel to another when a merged     *)
(* update moves them (spatial.go Notify, tpspb/data.go Merge), the entity      *)
(* groups that are handed over together (entity.go), the spawn and destroy     *)
(* messages of the Unreal integration (unreal/message.go) and the clients'     *)
(* spatial interest (message_spatial.go).                                      *)
(*                                                                          *)
(* Goroutines: GLOBAL's, one per spatial channel instance, one per entity      *)
(* channel; each handles the messages of its queue one at a time. A handler is  *)
(* one step, except the two that other goroutines see half done: the creation   *)
(* of spatial channels (their server subscribes afterwards) and Notify, which   *)
(* runs in the entity's goroutine and works on other channels.                  *)
EXTENDS SpatialGrid, EntityGroup, FiniteSets

CONSTANTS
  Servers, Clients,  \* connections; clients are those with spatial interests
  Master,            \* the server that owns the GLOBAL channel
  NoConn,            \* the nil connection
  NoPos,             \* the location of an entity whose data has none
  MaxCells, MaxGen,  \* bounds: channels of the grid, instances of a channel
  Scenarios          \* what the servers send; see Init

Conns   == Servers \cup Clients \cup {Master}
Senders == Servers \cup {Master}

\* The messages servers send, by the channel that handles them: GLOBAL, a spatial
\* channel or an entity channel. Servers are those that create spatial channels.
Locations == Int \X Int
Points    == {NoPos} \cup Locations

\* ChannelDataAccess; "none" below is no subscription at all.
Rights == {"no", "read", "write"}

GlobalMessages(c) ==
  [kind : {"global"}, type : {"createEntity"}, entity : Entities, pos : Points, ref : BOOLEAN,
   access : Rights]
  \cup (IF c \in Servers THEN [kind : {"global"}, type : {"createSpatial"}] ELSE {})

SpatialMessages(g) ==
  [kind : {"spatial"}, ch : CellsOf(g), type : {"createEntity"}, entity : Entities, pos : Points,
   ref : BOOLEAN, access : Rights]
  \cup [kind : {"spatial"}, ch : CellsOf(g), type : {"spawn"}, entity : Entities, pos : Points,
        chId : CellsOf(g) \cup {NoCell}]
  \cup [kind : {"spatial"}, ch : CellsOf(g), type : {"destroy"}, entity : Entities]
  \cup [kind : {"spatial"}, ch : CellsOf(g), type : {"interest"}, client : Clients, query : Queries]

EntityMessages ==
  [kind : {"entity"}, ch : Entities, type : {"update"}, pos : Locations]
  \cup [kind : {"entity"}, ch : Entities, type : {"addGroup", "removeGroup"},
        group : {"handover", "lock"}, list : Seq(Entities)]

Messages(g, c) == GlobalMessages(c) \cup SpatialMessages(g) \cup EntityMessages

\* A world in which CreateChannels ran for every server has its owners in the order
\* of the server indexes; it can only run when the channels it makes and those on
\* the borders are in the world, as are the entities that are there already.
ASSUME HandoverAssumption ==
  /\ MaxCells \in Nat \ {0} /\ MaxGen \in Nat \ {0}
  /\ NoConn \notin Conns
  /\ Clients \cap Servers = {}
  /\ \A s \in Scenarios :
       /\ s.grid \in Grids /\ CellCount(s.grid) <= MaxCells
       /\ s.owners = <<>> \/ s.owners \in [1..ServerCount(s.grid) -> Servers]
       /\ s.owners # <<>> => \A i \in ServerIndexes(s.grid) :
            ChannelsOfServer(s.grid, i) \cup BorderOf(s.grid, i) \subseteq CellsOf(s.grid)
       /\ s.closes \subseteq Conns
       /\ s.sends = [c \in Senders |-> s.sends[c]]
       /\ \A c \in Senders : s.sends[c] \in Seq(Messages(s.grid, c))
       /\ s.watch \in [Clients -> SUBSET CellsOf(s.grid)]
       /\ s.placed \in [Entities -> Points]
       /\ s.access \in [Entities -> Rights]
       /\ \A e \in Entities : s.placed[e] # NoPos =>
            s.owners # <<>> /\ GetChannelId(s.grid, s.placed[e]) # NoCell

VARIABLES
  scenario,     \* the element of Scenarios that is played
  sends,        \* what each server has still to send
  closing,      \* the connections that are closing
  globalQueue,  \* GLOBAL's messages
  creating,     \* the server whose channels GLOBAL has just created, or NoConn
  serverConnections,  \* the controller's servers, by index
  current,      \* how often a spatial channel was created: its current instance
  spatial,      \* the instances: owner, subscribers, entities of the data, queue
  interest,     \* spatialSubscriptions of every connection, by channel
  entity,       \* the entity channels
  groups,       \* the entity groups
  notify,       \* the Notify that each entity's goroutine is in
  grouped, strayed, foreign, late,    \* history, read by properties only
  spawned, granted, orphaned, apart, asked, via, overlapped

worldVars  == <<serverConnections, current, creating>>
entityVars == <<entity, groups, notify>>
historyVars == <<grouped, strayed, foreign, late, spawned, granted, orphaned, apart, asked,
                 via, overlapped>>
vars == <<scenario, sends, closing, globalQueue, worldVars, spatial, interest,
          entityVars, historyVars>>

grid  == scenario.grid
Cells == CellsOf(grid)

\* A spatial channel instance is <<cell, n>>, the n-th one of its channel.
Instances == (0..(MaxCells - 1)) \X (1..MaxGen)
Current(c) == <<c, current[c]>>
Exists(c)  == c # NoCell /\ current[c] > 0

\* GetChannel for entity channels.
Alive == {e \in Entities : entity[e].state = "alive"}

Live(c) == c # NoConn /\ c \notin closing

NoNotify == [at |-> "idle"]
Idle(e)  == notify[e].at = "idle"

NewSpatial(owner) == [owner |-> owner, subs |-> {}, entities |-> {}, queue |-> <<>>]
NoEntity == [state |-> "none", owner |-> NoConn, pos |-> NoPos, ref |-> FALSE,
             access |-> [c \in Conns |-> "none"], inbox |-> <<>>]

CellOfPos(p) == IF p = NoPos THEN NoCell ELSE GetChannelId(grid, p)

-----------------------------------------------------------------------------
(* The spatial controller's servers and channels.                            *)

\* nextServerIndex: the first one without a server, or whose server is closing.
FreeIndexes(conns) == {i \in DOMAIN conns : ~Live(conns[i])}

NextServerIndex(conns) ==
  IF FreeIndexes(conns) = {} THEN ServerCount(grid)
  ELSE CHOOSE i \in FreeIndexes(conns) : \A j \in FreeIndexes(conns) : i <= j

\* subToAdjacentChannels for every server; cur is current after the creation. It
\* stops at the first server with a channel outside the world or not created.
BorderFails(cur, i) ==
  grid.border > 0 /\ \E c \in BorderOf(grid, i) : c = NoCell \/ cur[c] = 0

\* Mutant of BorderSubscribed: an error of one server does not stop it.
BorderSubscribedAll(cur, conns) == {i \in DOMAIN conns : grid.border > 0}

BorderSubscribed(cur, conns) ==
  {i \in DOMAIN conns : grid.border > 0 /\ \A j \in 0..i : ~BorderFails(cur, j)}

\* Handlers of GLOBAL: CREATE_CHANNEL for spatial channels by server s.
CreateChannels(s) ==
  LET idx   == NextServerIndex(serverConnections)
      made  == ChannelsOfServer(grid, idx)
      conns == [serverConnections EXCEPT ![idx] = s]
      cur   == [c \in DOMAIN current |-> current[c] + (IF c \in made THEN 1 ELSE 0)]
      complete == NextServerIndex(conns) = ServerCount(grid)
      subbed   == IF complete THEN BorderSubscribed(cur, conns) ELSE {}
      SubsOf(c) == {conns[i] : i \in {j \in subbed : c \in BorderOf(grid, j)}}
  IN IF idx = ServerCount(grid) \/ NoCell \in made
     THEN UNCHANGED <<worldVars, spatial, interest>>
     ELSE /\ serverConnections' = conns
          /\ current' = cur
          /\ spatial' = [i \in Instances |->
               LET base == IF i[1] \in made /\ i[2] = cur[i[1]]
                           THEN NewSpatial(s) ELSE spatial[i]
               IN IF i[1] \in Cells /\ i[2] = cur[i[1]]
                  THEN [base EXCEPT !.subs = @ \cup SubsOf(i[1])] ELSE base]
          /\ interest' = [c \in Conns |->
               interest[c] \cup UNION {BorderOf(grid, i) : i \in {j \in subbed : conns[j] = c}}]
          /\ creating' = IF complete /\ \E i \in DOMAIN conns : BorderFails(cur, i)
                         THEN NoConn ELSE s

\* handleCreateSpatialChannel after CreateChannels: the server subscribes.
SubscribeCreated ==
  LET s == creating
      own == {c \in Cells : Exists(c) /\ spatial[Current(c)].owner = s}
  IN /\ creating # NoConn
     /\ creating' = NoConn
     /\ IF s \in closing
        THEN UNCHANGED <<spatial, interest>>
        ELSE /\ spatial' = [i \in Instances |->
                  IF i[1] \in own /\ i = Current(i[1])
                  THEN [spatial[i] EXCEPT !.subs = @ \cup {s}] ELSE spatial[i]]
             /\ interest' = [interest EXCEPT ![s] = @ \cup own]
     /\ UNCHANGED <<scenario, sends, closing, globalQueue, serverConnections, current,
                    entityVars, historyVars>>

\* Tick of the controller, in GLOBAL: forget the servers that are closing.
ControllerTick ==
  /\ creating = NoConn
  /\ \E i \in DOMAIN serverConnections : serverConnections[i] \in closing
  /\ serverConnections' = [i \in DOMAIN serverConnections |->
       IF serverConnections[i] \in closing THEN NoConn ELSE serverConnections[i]]
  /\ UNCHANGED <<scenario, sends, closing, globalQueue, current, creating, spatial, interest,
                 entityVars, historyVars>>

-----------------------------------------------------------------------------
(* Entity channels: creation, spawn, destroy, removal.                       *)

\* SubscribeToChannel and UnsubscribeFromChannel of an entity channel record.
Subscribe(E, c, access) == IF c \in closing THEN E ELSE [E EXCEPT !.access[c] = access]
Unsubscribe(E, c)       == [E EXCEPT !.access[c] = "none"]

\* The entities that have a handover group or are listed in another's.
Grouped(G) == {e \in Entities : G.handover[e] # 0 \/ \E x \in Entities : e \in HandoverOf(G, x)}

\* Is a handover under way that will remove e from the data of its source?
Leaving(e) ==
  \/ \E x \in Entities : notify[x].at \in {"owners", "remove"} /\ e \in notify[x].entities
  \/ \E i \in Instances : \E k \in DOMAIN spatial[i].queue :
       spatial[i].queue[k].type = "remove" /\ e \in spatial[i].queue[k].entities

\* The owner is subscribed with the access that the message's SubOptions ask for.
NewEntity(owner, m) ==
  Subscribe([NoEntity EXCEPT !.state = "alive", !.owner = owner, !.pos = m.pos, !.ref = m.ref],
            owner, m.access)

Execute(S, i, callback) == [S EXCEPT ![i].queue = Append(@, callback)]

\* The callbacks of spatial channels: entities leave or join the data.
Callback(type, S) == [type |-> type, entities |-> S]

\* What is remembered of a new entity: whether its owner asked for write access,
\* and what its groups, and handovers that list it, did before it existed.
Listed(m) ==
  LET e == m.entity
  IN /\ granted' = IF m.access = "write" THEN granted \cup {e} ELSE granted
     /\ late' = IF Leaving(e) THEN late \cup {e} ELSE late
     /\ apart' = IF e \in grouped THEN apart \cup {e} ELSE apart

\* CREATE_ENTITY_CHANNEL handled by spatial channel instance i: any server may
\* send it, and be the owner from now on.
CreateEntity(i, m) ==
  IF entity[m.entity].state = "none"
  THEN /\ entity' = [entity EXCEPT ![m.entity] = NewEntity(m.from, m)]
       /\ strayed' = IF CellOfPos(m.pos) # i[1] THEN strayed \cup {m.entity} ELSE strayed
       /\ foreign' = IF m.from # spatial[i].owner THEN foreign \cup {m.entity} ELSE foreign
       /\ Listed(m)
  ELSE UNCHANGED <<entity, strayed, foreign, late, granted, apart>>

\* CREATE_ENTITY_CHANNEL handled by GLOBAL: with a location, the entity belongs
\* to the owner of the spatial channel there, whose data it joins.
CreateWorldEntity(m) ==
  LET c     == CellOfPos(m.pos)
      owner == spatial[Current(c)].owner
      owned == Exists(c) /\ Live(owner)
  IN IF entity[m.entity].state # "none"
     THEN UNCHANGED <<entity, spatial, strayed, late, spawned, granted, apart>>
     ELSE /\ Listed(m)
          /\ entity' = [entity EXCEPT ![m.entity] =
               NewEntity(IF owned THEN owner ELSE m.from, m)]
          /\ spatial' = IF owned THEN Execute(spatial, Current(c), Callback("add", {m.entity}))
                        ELSE spatial
          /\ strayed' = IF owned THEN strayed ELSE strayed \cup {m.entity}
          /\ spawned' = IF owned THEN spawned \cup {m.entity} ELSE spawned

\* SPAWN handled by spatial channel instance i. Without a location, or when the
\* location is in the channel the message names, the entity joins the data of i;
\* with a location in another channel, that channel's, if there is one; with one
\* outside the world the message is dropped. The entity's channel, if there is
\* one, learns its object reference.
Spawn(i, S, m) ==
  LET c == CellOfPos(m.pos)
      e == m.entity
      here  == m.pos = NoPos \/ c = m.chId
      there == ~here /\ Exists(c)
  IN IF m.pos # NoPos /\ c = NoCell
     THEN /\ spatial' = S
          /\ UNCHANGED <<entity, strayed, spawned, apart>>
     ELSE /\ spatial' = CASE here  -> [S EXCEPT ![i].entities = @ \cup {e}]
                          [] there -> Execute(S, Current(c), Callback("add", {e}))
                          [] OTHER -> S
          /\ entity' = IF e \in Alive
                       THEN [entity EXCEPT ![e].inbox = Append(@, [type |-> "setObjRef"])]
                       ELSE entity
          /\ strayed' = IF CellOfPos(entity[e].pos) # (IF here THEN i[1] ELSE c)
                        THEN strayed \cup {e} ELSE strayed
          /\ spawned' = IF (here \/ there) /\ e \in Alive THEN spawned \cup {e} ELSE spawned
          /\ apart' = IF e \in grouped THEN apart \cup {e} ELSE apart

\* RemoveChannel of an entity channel: it leaves its groups and is forgotten.
RemoveEntity(e) ==
  IF e \in Alive
  THEN /\ groups' = Uninitialize(groups, Alive, e)
       /\ grouped' = grouped \cup Grouped(groups')
       /\ entity' = [entity EXCEPT ![e].state = "gone", ![e].inbox = <<>>]
  ELSE UNCHANGED <<groups, grouped, entity>>

-----------------------------------------------------------------------------
(* Spatial interest of clients.                                              *)

SubscribeSpatial(S, c, ch) ==
  IF ch \in closing THEN S ELSE [S EXCEPT ![c].subs = @ \cup {ch}]

\* UPDATE_SPATIAL_INTEREST handled by instance i: the channel's own subscription
\* changes at once, the others by messages to their channels.
UpdateInterest(i, S, m) ==
  LET wanted == {c \in QueryChannelIds(grid, m.query) : Exists(c)}
      left   == {c \in interest[m.client] \ QueryChannelIds(grid, m.query) : Exists(c)}
      Put(J, c) ==
        LET type == IF c \in wanted THEN "sub" ELSE "unsub"
        IN IF Current(c) = i \/ c \notin wanted \cup left THEN J[Current(c)]
           ELSE [J[Current(c)] EXCEPT !.queue = Append(@, [type |-> type, client |-> m.client])]
      direct == IF i # Current(i[1]) THEN S[i].subs
                ELSE IF i[1] \in wanted THEN S[i].subs \cup {m.client}
                ELSE IF i[1] \in left THEN S[i].subs \ {m.client} ELSE S[i].subs
      pending == \E j \in Instances : \E k \in DOMAIN S[j].queue :
                   S[j].queue[k].type \in {"sub", "unsub"} /\ S[j].queue[k].client = m.client
  IN IF m.client \in closing \/ QueryFails(grid, m.query)
     THEN /\ spatial' = S
          /\ UNCHANGED <<interest, asked, via, overlapped>>
     ELSE /\ spatial' = [j \in Instances |->
               IF j = i THEN [S[i] EXCEPT !.subs = direct]
               ELSE IF Exists(j[1]) /\ j = Current(j[1]) THEN Put(S, j[1]) ELSE S[j]]
          /\ interest' = [interest EXCEPT ![m.client] =
               IF m.client \in direct THEN @ \cup (wanted \cap {i[1]})
               ELSE IF m.client \in S[i].subs THEN @ \ {i[1]} ELSE @]
          /\ asked' = [asked EXCEPT ![m.client] =
               [query |-> m.query, among |-> {c \in Cells : Exists(c)}]]
          /\ via' = [via EXCEPT ![m.client] = @ \cup {i}]
          /\ overlapped' = IF pending THEN overlapped \cup {m.client} ELSE overlapped

\* SUB_TO_CHANNEL and UNSUB_FROM_CHANNEL for a client, handled by instance i.
Subscribed(i, S, m) ==
  IF m.client \in closing
  THEN /\ spatial' = S
       /\ UNCHANGED interest
  ELSE /\ spatial' = [S EXCEPT ![i].subs = @ \cup {m.client}]
       /\ interest' = [interest EXCEPT ![m.client] = @ \cup {i[1]}]

Unsubscribed(i, S, m) ==
  IF m.client \in closing \/ m.client \notin S[i].subs
  THEN /\ spatial' = S
       /\ UNCHANGED interest
  ELSE /\ spatial' = [S EXCEPT ![i].subs = @ \ {m.client}]
       /\ interest' = [interest EXCEPT ![m.client] = @ \ {i[1]}]

-----------------------------------------------------------------------------
(* Steps of the connections.                                                 *)

\* A message with the connection it came from.
Delivered(s, m) == [k \in DOMAIN m \cup {"from"} |-> IF k = "from" THEN s ELSE m[k]]

\* A server's goroutine puts its next message on the channel it is for, or drops
\* it when there is no such channel.
Send(s) ==
  LET m == Head(sends[s])
      put == Delivered(s, m)
  IN /\ sends[s] # <<>>
     /\ s \notin closing
     /\ sends' = [sends EXCEPT ![s] = Tail(@)]
     /\ globalQueue' = IF m.kind = "global" THEN Append(globalQueue, put) ELSE globalQueue
     /\ spatial' = IF m.kind = "spatial" /\ Exists(m.ch)
                   THEN Execute(spatial, Current(m.ch), put) ELSE spatial
     /\ entity' = IF m.kind = "entity" /\ m.ch \in Alive
                  THEN [entity EXCEPT ![m.ch].inbox = Append(@, put)] ELSE entity
     /\ UNCHANGED <<scenario, closing, worldVars, interest, groups, notify, historyVars>>

Close(c) ==
  /\ c \in scenario.closes \ closing
  /\ closing' = closing \cup {c}
  /\ UNCHANGED <<scenario, sends, globalQueue, worldVars, spatial, interest, entityVars,
                 historyVars>>

-----------------------------------------------------------------------------
(* Steps of GLOBAL's goroutine.                                              *)

TakeGlobal(type) ==
  /\ creating = NoConn
  /\ globalQueue # <<>>
  /\ Head(globalQueue).type = type
  /\ globalQueue' = Tail(globalQueue)
  /\ UNCHANGED <<scenario, sends, closing, notify, foreign, orphaned, asked, via, overlapped>>

HandleCreateSpatial ==
  /\ TakeGlobal("createSpatial")
  /\ \A c \in Cells : current[c] < MaxGen
  /\ CreateChannels(Head(globalQueue).from)
  /\ UNCHANGED <<entity, groups, grouped, strayed, late, spawned, granted, apart>>

HandleCreateWorldEntity ==
  /\ TakeGlobal("createEntity")
  /\ CreateWorldEntity(Head(globalQueue))
  /\ UNCHANGED <<worldVars, interest, groups, grouped>>

HandleRemoveEntity ==
  /\ TakeGlobal("removeEntity")
  /\ RemoveEntity(Head(globalQueue).entity)
  /\ UNCHANGED <<worldVars, spatial, interest, strayed, late, spawned, granted, apart>>

-----------------------------------------------------------------------------
(* Steps of the spatial channels' goroutines. An instance that was replaced   *)
(* in the channel table runs on.                                              *)

Take(i, type) ==
  /\ spatial[i].queue # <<>>
  /\ Head(spatial[i].queue).type = type
  /\ UNCHANGED <<scenario, sends, closing, globalQueue, worldVars, notify, orphaned>>

Taken(i) == [spatial EXCEPT ![i].queue = Tail(@)]
FirstOf(i) == Head(spatial[i].queue)

\* The callbacks of Notify, and of spawns and creations elsewhere.
AddToData(i) ==
  /\ Take(i, "add")
  /\ spatial' = [Taken(i) EXCEPT ![i].entities = @ \cup FirstOf(i).entities]
  /\ UNCHANGED <<interest, entity, groups, historyVars>>

RemoveFromData(i) ==
  /\ Take(i, "remove")
  /\ spatial' = [Taken(i) EXCEPT ![i].entities = @ \ FirstOf(i).entities]
  /\ UNCHANGED <<interest, entity, groups, historyVars>>

HandleCreateEntity(i) ==
  /\ Take(i, "createEntity")
  /\ spatial' = Taken(i)
  /\ CreateEntity(i, FirstOf(i))
  /\ UNCHANGED <<interest, groups, grouped, spawned, asked, via, overlapped>>

HandleSpawn(i) ==
  /\ Take(i, "spawn")
  /\ Spawn(i, Taken(i), FirstOf(i))
  /\ UNCHANGED <<interest, groups, grouped, foreign, late, granted, asked, via, overlapped>>

HandleDestroy(i) ==
  /\ Take(i, "destroy")
  /\ spatial' = [Taken(i) EXCEPT ![i].entities = @ \ {FirstOf(i).entity}]
  /\ RemoveEntity(FirstOf(i).entity)
  /\ UNCHANGED <<interest, strayed, foreign, late, spawned, granted, apart, asked, via,
                 overlapped>>

HandleInterest(i) ==
  /\ Take(i, "interest")
  /\ UpdateInterest(i, Taken(i), FirstOf(i))
  /\ UNCHANGED <<entity, groups, grouped, strayed, foreign, late, spawned, granted, apart>>

HandleSub(i) ==
  /\ Take(i, "sub")
  /\ Subscribed(i, Taken(i), FirstOf(i))
  /\ UNCHANGED <<entity, groups, historyVars>>

HandleUnsub(i) ==
  /\ Take(i, "unsub")
  /\ Unsubscribed(i, Taken(i), FirstOf(i))
  /\ UNCHANGED <<entity, groups, historyVars>>

\* tickConnections of a spatial channel: closing subscribers are dropped, and the
\* owner with them; the channel stays (RemoveChannelAfterOwnerRemoved is false).
SpatialTick(i) ==
  /\ spatial[i].subs \cap closing # {}
  /\ spatial' = [spatial EXCEPT ![i].subs = @ \ closing,
                                ![i].owner = IF @ \in spatial[i].subs \cap closing
                                             THEN NoConn ELSE @]
  /\ UNCHANGED <<scenario, sends, closing, globalQueue, worldVars, interest, entityVars,
                 historyVars>>

-----------------------------------------------------------------------------
(* Steps of the entity channels' goroutines.                                 *)

Entered(e, type) ==
  /\ entity[e].state # "none"
  /\ Idle(e)
  /\ entity[e].inbox # <<>>
  /\ Head(entity[e].inbox).type = type
  /\ UNCHANGED <<scenario, sends, closing, globalQueue, worldVars, spatial, interest, foreign,
                 late, spawned, granted, orphaned, asked, via, overlapped>>

NextOf(e) == Head(entity[e].inbox)
Popped(e) == [entity[e] EXCEPT !.inbox = Tail(@)]

\* handleChannelDataUpdate: the owner, a subscriber that may write, or, as a
\* "quick fix", a server in the name of a live owner.
MayUpdate(E, c) ==
  \/ E.owner = c
  \/ E.access[c] = "write"
  \/ c \notin Clients /\ Live(E.owner)

\* Does the merge of location p into e's data call Notify, and what with?
Moves(E, p) == E.ref /\ E.pos # NoPos /\ p # E.pos

HandoverOfMove(e, p) ==
  LET src == CellOfPos(entity[e].pos)
      dst == CellOfPos(p)
      S   == GetHandoverEntities(groups, e)
  IN IF /\ Moves(entity[e], p)
        /\ Exists(src) /\ Exists(dst) /\ src # dst
        /\ e \in Alive
        /\ S # {}
     THEN [at |-> "owners", src |-> Current(src), dst |-> Current(dst),
           entities |-> S, data |-> S \cap Alive, conns |-> {}]
     ELSE NoNotify

\* CHANNEL_DATA_UPDATE with a location: merge it and start Notify.
HandleUpdate(e) ==
  LET m == NextOf(e)
      n == HandoverOfMove(e, m.pos)
      elsewhere == CellOfPos(m.pos) # CellOfPos(entity[e].pos)
  IN /\ Entered(e, "update")
     /\ IF MayUpdate(entity[e], m.from)
        THEN /\ entity' = [entity EXCEPT ![e] = [Popped(e) EXCEPT !.pos = m.pos]]
             /\ notify' = [notify EXCEPT ![e] = n]
             /\ strayed' = IF elsewhere /\ (n = NoNotify \/ e \notin n.entities)
                           THEN strayed \cup {e} ELSE strayed
        ELSE /\ entity' = [entity EXCEPT ![e] = Popped(e)]
             /\ UNCHANGED <<notify, strayed>>
     /\ UNCHANGED <<groups, grouped, apart>>

\* The callback of SPAWN: SetObjRef.
SetObjRef(e) ==
  /\ Entered(e, "setObjRef")
  /\ entity' = [entity EXCEPT ![e] = [Popped(e) EXCEPT !.ref = TRUE]]
  /\ UNCHANGED <<groups, grouped, notify, strayed, apart>>

\* Entities whose handover groups do not hold them together from now on: a
\* locked one was not brought into the group, or the group changes while one of
\* its entities is being moved.
Busy == (\E e \in Entities : ~Idle(e)) \/ (\E i \in Instances : spatial[i].queue # <<>>)
DataCells(e) == {c \in Cells : Exists(c) /\ e \in spatial[Current(c)].entities}

TornBy(m, G, H) ==
  LET changed == {x \in Entities : HandoverOf(G, x) # HandoverOf(H, x)}
      refused == {m.list[k] : k \in {k \in DOMAIN m.list : LockOf(G, m.list[k]) # {}}}
      listed(x) == {x} \cup HandoverOf(H, x)
      spread == {x \in changed : \E y \in listed(x) : DataCells(y) # DataCells(x)}
  IN IF Busy THEN UNION {listed(x) : x \in changed}
     ELSE UNION {listed(x) : x \in spread} \cup refused

\* ADD_ENTITY_GROUP and REMOVE_ENTITY_GROUP, from the owner only.
HandleAddGroup(e) ==
  LET m == NextOf(e)
      G == AddToGroup(groups, Alive, m.group, e, m.list)
  IN /\ Entered(e, "addGroup")
     /\ entity' = [entity EXCEPT ![e] = Popped(e)]
     /\ IF m.from = entity[e].owner
        THEN /\ groups' = G
             /\ grouped' = grouped \cup Grouped(G)
             /\ apart' = apart \cup TornBy(m, groups, G)
        ELSE UNCHANGED <<groups, grouped, apart>>
     /\ UNCHANGED <<notify, strayed>>

HandleRemoveGroup(e) ==
  LET m == NextOf(e)
      G == RemoveFromGroup(groups, Alive, m.group, e, m.list)
  IN /\ Entered(e, "removeGroup")
     /\ entity' = [entity EXCEPT ![e] = Popped(e)]
     /\ IF m.from = entity[e].owner
        THEN /\ groups' = G
             /\ grouped' = grouped \cup Grouped(G)
             /\ apart' = apart \cup TornBy(m, groups, G)
        ELSE UNCHANGED <<groups, grouped, apart>>
     /\ UNCHANGED <<notify, strayed>>

\* Mutant of RemovalOf: the owner is compared after it was reset.
RemovalOfReset(e, lost) == <<>>

\* OwnerRemoved of an entity channel (RemoveChannelAfterOwnerRemoved is true).
RemovalOf(e, lost) ==
  IF entity[e].owner \in lost THEN <<[type |-> "removeEntity", entity |-> e]>> ELSE <<>>

\* tickConnections of an entity channel: when its owner is among the closing
\* subscribers the channel asks GLOBAL for its removal.
EntityTick(e) ==
  LET lost == {c \in closing : entity[e].access[c] # "none"}
  IN /\ e \in Alive
     /\ Idle(e)
     /\ lost # {}
     /\ entity' = [entity EXCEPT ![e].access = [c \in Conns |-> IF c \in lost THEN "none" ELSE @[c]],
                                 ![e].owner = IF @ \in lost THEN NoConn ELSE @]
     /\ globalQueue' = globalQueue \o RemovalOf(e, lost)
     /\ UNCHANGED <<scenario, sends, closing, worldVars, spatial, interest, groups, notify,
                    historyVars>>

-----------------------------------------------------------------------------
(* Notify, in the goroutine of entity e.                                     *)

NotifyVars == <<scenario, sends, closing, globalQueue, worldVars, interest, groups, grouped,
                strayed, foreign, late, spawned, apart, asked, via, overlapped>>

At(e, step) == notify[e].at = step

\* Mutant of SameOwner: an owner with interest in the destination keeps the entity.
SameOwnerByInterest(i, j) == Live(spatial[i].owner) /\ spatial[i].owner \in spatial[j].subs

\* IsSameOwner.
SameOwner(i, j) == Live(spatial[i].owner) /\ spatial[i].owner = spatial[j].owner

\* Step 1: a handover to another server's channel changes the owners first.
NotifyOwners(e) ==
  LET n    == notify[e]
      from == spatial[n.src].owner
      to   == spatial[n.dst].owner
      Unsubbed(E) == IF Live(from) /\ n.dst[1] \notin interest[from]
                     THEN Unsubscribe(E, from) ELSE E
      crossing == IF SameOwner(n.src, n.dst) THEN {} ELSE n.entities \cap Alive
  IN /\ At(e, "owners")
     /\ entity' = [x \in Entities |->
          IF x \in crossing THEN [Unsubbed(entity[x]) EXCEPT !.owner = to] ELSE entity[x]]
     /\ orphaned' = IF Live(to) THEN orphaned ELSE orphaned \cup crossing
     /\ granted' = granted \cup crossing
     /\ notify' = [notify EXCEPT ![e].at = "remove"]
     /\ UNCHANGED <<NotifyVars, spatial>>

\* Mutant of NotifyRemove: the data of the source is changed at once.
NotifyRemoveAtOnce(e) ==
  /\ At(e, "remove")
  /\ spatial' = [spatial EXCEPT ![notify[e].src].entities = @ \ notify[e].entities]
  /\ notify' = [notify EXCEPT ![e].at = "add"]
  /\ UNCHANGED <<NotifyVars, entity, granted, orphaned>>

\* Steps 2-1 and 2-2: the data of both channels change in their own goroutines.
NotifyRemove(e) ==
  /\ At(e, "remove")
  /\ spatial' = Execute(spatial, notify[e].src, Callback("remove", notify[e].entities))
  /\ notify' = [notify EXCEPT ![e].at = "add"]
  /\ UNCHANGED <<NotifyVars, entity, granted, orphaned>>

\* With the add, the subscribers of the destination are read (step 4).
NotifyAdd(e) ==
  /\ At(e, "add")
  /\ spatial' = Execute(spatial, notify[e].dst, Callback("add", notify[e].data))
  /\ notify' = [notify EXCEPT ![e].at = "subscribe", ![e].conns = spatial[notify[e].dst].subs]
  /\ UNCHANGED <<NotifyVars, entity, granted, orphaned>>

\* Mutant of AccessOf: every subscriber of the destination may write.
AccessOfAll(E, c) == "write"

\* "Only the owner can update the entity".
AccessOf(E, c) == IF c = E.owner THEN "write" ELSE "read"

\* Step 4-2: one subscriber of the destination after the other subscribes to the
\* entity channels.
NotifySubscribe(e, c) ==
  LET n == notify[e]
  IN /\ At(e, "subscribe")
     /\ c \in n.conns
     /\ entity' = [x \in Entities |->
          IF x \in n.data \cap Alive THEN Subscribe(entity[x], c, AccessOf(entity[x], c))
          ELSE entity[x]]
     /\ notify' = [notify EXCEPT ![e].conns = @ \ {c}]
     /\ UNCHANGED <<NotifyVars, spatial, granted, orphaned>>

NotifyReturns(e) ==
  /\ At(e, "subscribe")
  /\ notify[e].conns = {}
  /\ notify' = [notify EXCEPT ![e] = NoNotify]
  /\ UNCHANGED <<NotifyVars, spatial, entity, granted, orphaned>>

NotifyStep(e) ==
  \/ NotifyOwners(e) \/ NotifyRemove(e) \/ NotifyAdd(e) \/ NotifyReturns(e)
  \/ \E c \in Conns : NotifySubscribe(e, c)

-----------------------------------------------------------------------------
NoQuery == [query |-> "none"]

\* A scenario either starts without spatial channels or, with "owners" for every
\* server index, in a world that CreateChannels made; "watch" are the channels
\* each client is subscribed to, "placed" the entities that are in the world and
\* "access" what their owners asked for.
Ready == scenario.owners # <<>>

OwnerOfCell(c) == scenario.owners[1 + CHOOSE i \in ServerIndexes(grid) :
                                        c \in ChannelsOfServer(grid, i)]

PlacedIn(e) == CellOfPos(scenario.placed[e])

SubscriberCells(c) ==
  IF c \in Clients THEN scenario.watch[c]
  ELSE UNION {ChannelsOfServer(grid, i) \cup BorderOf(grid, i) :
                i \in {i \in ServerIndexes(grid) : Ready /\ scenario.owners[i + 1] = c}}

Init ==
  /\ scenario \in Scenarios
  /\ sends = scenario.sends
  /\ closing = {}
  /\ globalQueue = <<>>
  /\ creating = NoConn
  /\ serverConnections = [i \in ServerIndexes(grid) |->
                            IF Ready THEN scenario.owners[i + 1] ELSE NoConn]
  /\ current = [c \in 0..(MaxCells - 1) |-> IF Ready /\ c \in Cells THEN 1 ELSE 0]
  /\ spatial = [i \in Instances |->
       IF Ready /\ i[2] = 1 /\ i[1] \in Cells
       THEN [NewSpatial(OwnerOfCell(i[1])) EXCEPT
               !.subs = {c \in Conns : i[1] \in SubscriberCells(c)},
               !.entities = {e \in Entities : PlacedIn(e) = i[1]}]
       ELSE NewSpatial(NoConn)]
  /\ interest = [c \in Conns |-> SubscriberCells(c)]
  /\ entity = [e \in Entities |->
       IF scenario.placed[e] = NoPos THEN NoEntity
       ELSE NewEntity(OwnerOfCell(PlacedIn(e)),
                      [pos |-> scenario.placed[e], ref |-> TRUE, access |-> scenario.access[e]])]
  /\ groups = NoGroups
  /\ notify = [e \in Entities |-> NoNotify]
  /\ grouped = {}
  /\ strayed = {}
  /\ foreign = {}
  /\ late = {}
  /\ spawned = {e \in Entities : scenario.placed[e] # NoPos}
  /\ granted = {e \in spawned : scenario.access[e] = "write"}
  /\ orphaned = {}
  /\ apart = {}
  /\ asked = [c \in Clients |-> NoQuery]
  /\ via = [c \in Clients |-> {}]
  /\ overlapped = {}

GlobalStep ==
  \/ SubscribeCreated \/ ControllerTick
  \/ HandleCreateSpatial \/ HandleCreateWorldEntity \/ HandleRemoveEntity

SpatialStep(i) ==
  \/ AddToData(i) \/ RemoveFromData(i)
  \/ HandleCreateEntity(i) \/ HandleSpawn(i) \/ HandleDestroy(i)
  \/ HandleInterest(i) \/ HandleSub(i) \/ HandleUnsub(i)
  \/ SpatialTick(i)

EntityStep(e) ==
  \/ HandleUpdate(e) \/ SetObjRef(e) \/ HandleAddGroup(e) \/ HandleRemoveGroup(e)
  \/ EntityTick(e) \/ NotifyStep(e)

Next ==
  \/ \E s \in Servers \cup {Master} : Send(s)
  \/ \E c \in Conns : Close(c)
  \/ GlobalStep
  \/ \E i \in Instances : SpatialStep(i)
  \/ \E e \in Entities : EntityStep(e)

\* The goroutines of GLOBAL and of the entity channels run whenever they can, as
\* Go's scheduler makes them; those of the spatial channels do too, but nothing
\* below needs it. Nothing makes a server send or close.
Fairness ==
  /\ WF_vars(GlobalStep)
  /\ \A e \in Entities : WF_vars(EntityStep(e))

Spec == Init /\ [][Next]_vars /\ Fairness

-----------------------------------------------------------------------------
(* Properties.                                                               *)

Positions == {m.pos : m \in {m \in UNION {Range(scenario.sends[s]) : s \in Servers \cup {Master}} :
                               m.type \in {"createEntity", "update"}}} \cup {NoPos}
             \cup Range(scenario.placed)

\* Every variable has the values the code's types allow.
TypeOK ==
  /\ scenario \in Scenarios
  /\ closing \subseteq scenario.closes
  /\ creating \in Servers \cup {NoConn}
  /\ serverConnections \in [ServerIndexes(grid) -> Servers \cup {NoConn}]
  /\ current \in [0..(MaxCells - 1) -> 0..MaxGen]
  /\ \A i \in Instances : /\ spatial[i].owner \in Servers \cup {NoConn}
                          /\ spatial[i].subs \subseteq Conns
                          /\ spatial[i].entities \subseteq Entities
  /\ interest \in [Conns -> SUBSET Cells]
  /\ \A e \in Entities : /\ entity[e].state \in {"none", "alive", "gone"}
                         /\ entity[e].owner \in Servers \cup {Master, NoConn}
                         /\ entity[e].pos \in Positions
                         /\ entity[e].access \in [Conns -> {"none"} \cup Rights]
  /\ \A e \in Entities : notify[e].at \in {"idle", "owners", "remove", "add", "subscribe"}

\* The regions GetRegions announces agree with the channels CreateChannels made:
\* the live owner of a channel is the server whose index the region of the
\* channel names, also after servers were lost and their indexes reused.
RegionsAgreeWithOwners ==
  \A c \in Cells : Exists(c) /\ Live(spatial[Current(c)].owner) =>
    serverConnections[RegionServer(grid, c)] = spatial[Current(c)].owner

\* When every server index is taken by a live server, each server is subscribed
\* to its own channels and, of the others, to those within border grids of its
\* own columns or rows; unless the border is wider than a server's grids.
NearBy(i) ==
  LET near(a, S) == \E b \in S : a - b \in -grid.border..grid.border
  IN {c \in Cells : LET col == c % grid.gridCols
                        row == c \div grid.gridCols
                    IN \/ col \in OwnCols(grid, i) /\ near(row, OwnRows(grid, i))
                       \/ row \in OwnRows(grid, i) /\ near(col, OwnCols(grid, i))}

ServersWatchTheirBorders ==
  creating = NoConn /\ FreeIndexes(serverConnections) = {} =>
    \A i \in ServerIndexes(grid) :
      \/ grid.border > ServerGridCols(grid) \/ grid.border > ServerGridRows(grid)
      \/ \A c \in NearBy(i) : Exists(c) /\ serverConnections[i] \in spatial[Current(c)].subs

\* No goroutine is moving e and no callback for it waits.
Settled(e) ==
  /\ \A x \in Entities : Idle(x) \/ e \notin notify[x].entities
  /\ \A i \in Instances : \A k \in DOMAIN spatial[i].queue :
       spatial[i].queue[k].type \in {"add", "remove"} => e \notin spatial[i].queue[k].entities

Replaced == \E c \in Cells : current[c] > 1

\* However updates, handovers and callbacks interleave, an entity that entered
\* the world is never lost: once nothing moves it some spatial channel's data
\* holds it; only one that was listed in a group before it existed, and created
\* while the group was being moved, may be. One that never was in a group is in
\* exactly the channel of its location, unless it strayed: an update moved it
\* without a handover, or it was created or spawned through another channel than
\* its location's. Excepted is a world where channels were created anew.
EntityIsPlaced ==
  \A e \in Alive : Settled(e) /\ ~Replaced =>
    /\ e \in spawned \ late => DataCells(e) # {}
    /\ e \notin grouped \cup strayed => DataCells(e) \subseteq {CellOfPos(entity[e].pos)}

\* The owner of an entity that never was in a group is the live owner of the
\* channel where it is as soon as its Notify changed the owners; unless another
\* server created it in that channel.
OwnerFollowsChannel ==
  \A e \in Alive : Idle(e) /\ ~Replaced /\ e \notin grouped \cup strayed \cup foreign =>
    LET owner == spatial[Current(CellOfPos(entity[e].pos))].owner
    IN Live(owner) => entity[e].owner = owner

\* Once Notify has returned, nobody but the owner of an entity that never was in a
\* group may write, also not the server that lost it; unless it had another owner
\* than its channel, which nobody unsubscribes. And the owner itself may write if
\* it asked for that when the entity was created, or got it by a handover, whoever
\* had which access before. This is so as long as no channels are created: their
\* owner owns them before it subscribes to them, and the interest of others may be
\* in channels that are gone.
OnlyOwnerWrites ==
  \A e \in Alive : Idle(e) /\ e \notin grouped /\ Ready /\ ~Replaced =>
    /\ e \notin strayed \cup foreign =>
         \A c \in Conns \ closing : entity[e].access[c] = "write" => c = entity[e].owner
    /\ e \in granted /\ Live(entity[e].owner) => entity[e].access[entity[e].owner] = "write"

\* Entities that are in one handover group are in the same spatial channels' data
\* once nothing moves them, whichever of them crossed a border and whatever order
\* their goroutines ran in; unless the group was torn (see TornBy).
GroupMovesTogether ==
  \A x, y \in Alive :
    /\ y \in HandoverOf(groups, x)
    /\ {x, y} \subseteq spawned \ (apart \cup late)
    /\ Settled(x) /\ Settled(y)
    /\ ~Replaced
    => DataCells(x) = DataCells(y)

\* When no subscription message for a client waits, it is subscribed to what its
\* latest spatial interest reaches among the channels there were, and to nothing
\* else. A query handled while messages of an earlier one wait may leave too much,
\* and too little when it was handled in another channel.
InterestFollowsQuery ==
  \A c \in Clients \ closing :
    LET subbed == {x \in Cells : Exists(x) /\ c \in spatial[Current(x)].subs}
        waits  == \E i \in Instances : \E k \in DOMAIN spatial[i].queue :
                    spatial[i].queue[k].type \in {"sub", "unsub"} /\ spatial[i].queue[k].client = c
    IN asked[c] # NoQuery /\ ~waits /\ ~Replaced =>
         /\ c \notin overlapped \/ Cardinality(via[c]) = 1 =>
              MustReach(grid, asked[c].query) \cap asked[c].among \subseteq subbed
         /\ c \notin overlapped => subbed \subseteq MayReach(grid, asked[c].query)

\* An entity whose owner closes is removed, or handed over to a live owner; only
\* one that was handed over to a channel without a live owner stays, and one
\* whose owner closes after NotifyOwners and before it is subscribed.
LostOwnerRemovesEntity ==
  \A e \in Entities :
    e \in Alive /\ entity[e].owner \in closing /\ entity[e].access[entity[e].owner] # "none"
      ~> e \notin Alive \/ Live(entity[e].owner) \/ e \in orphaned

\* "Set the owner of the entity channel to the dst spatial server, so the src
\* spatial server's residual update will be ignored": a location in an update is
\* merged only for the owner or a subscriber that may write.
ResidualUpdateIgnored ==
  [][\A e \in Entities :
       entity[e].state # "none" /\ entity'[e].pos # entity[e].pos =>
         LET from == NextOf(e).from
         IN entity[e].owner = from \/ entity[e].access[from] = "write"]_vars
=============================================================================

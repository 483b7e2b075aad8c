-------------------------- MODULE ChannelLifecycle --------------------------
(***************************************************************************)
(* Creation, use and removal of channels: the table allChannels, the ids   *)
(* given out by CreateChannel, one goroutine per channel (Channel.Tick),   *)
(* its message queue that RemoveChannel closes, its subLock, and the       *)
(* removal of channels whose owner is gone.                                *)
(*                                                                         *)
(* An instance is a Channel object; an id is looked up in allChannels and  *)
(* may belong to several instances one after the other.  Instance 0 is     *)
(* globalChannel.  Spatial channels exist from the start, the channels of  *)
(* the other types (NORMAL) and the entity channels are created here.  A   *)
(* connection goroutine looks up the channel and tests IsRemoving in one   *)
(* step and sends to the queue in another; a channel goroutine is cut      *)
(* where it takes locks, sends to another queue, or acts on a state that   *)
(* others change.  A tick with nothing to do is no step.                   *)
(***************************************************************************)
EXTENDS Integers, Sequences, FiniteSets

CONSTANTS
  Conns,         \* the connections
  Nobody,        \* no connection (also the nil *Connection), no request
  MaxId,         \* NORMAL channels have the ids 1 .. MaxId (SpatialChannelIdStart - 1)
  SpatialIds,    \* ids of the spatial channels that exist
  EntityIds,     \* ids an entity channel may have
  MaxInst,       \* bound: the instances 0 .. MaxInst
  QueueSize,     \* capacity of inMsgQueue
  Requests,      \* bound: the messages connections send, and whether they close; each at most once
  Scenarios,     \* bound: which of the requests are made in one behaviour
  Recoverable,   \* those whose closing leaves a recoverHandle
  ACL,           \* ACLSettings: per channel type and access type, the level
  RemoveAfterOwnerRemoved,  \* the channel types with this setting
  SendOwnerLost             \* the channel types with this setting

GLOBAL == 0
Kinds == {"GLOBAL", "NORMAL", "SPATIAL", "ENTITY"}
Accesses == {"Sub", "Unsub", "Remove"}
Levels == {"None", "OwnerOnly", "OwnerAndGlobalOwner", "Any"}
NormalIds == 1 .. MaxId
Ids == {GLOBAL} \cup NormalIds \cup SpatialIds \cup EntityIds
Insts == 0 .. MaxInst
Creating == {"create", "createEntity"}

\* A message: who sends it to which channel id; target is the connection to be
\* (un)subscribed, id the channel to be created or removed.
Request ==
  [kind : {"create", "createEntity", "possess", "remove", "sub", "unsub", "close"},
   conn : Conns, to : Ids, target : Conns, id : Ids]

ASSUME LifecycleAssumption ==
  /\ Nobody \notin Conns /\ Nobody \notin Int
  /\ MaxId \in Nat \ {0, 1} /\ MaxInst \in Nat /\ QueueSize \in Nat \ {0}
  /\ IsFiniteSet(SpatialIds) /\ Cardinality(SpatialIds) <= MaxInst
  /\ SpatialIds = MaxId + 1 .. MaxId + Cardinality(SpatialIds)
  /\ EntityIds \subseteq {n \in Nat : n > MaxId + Cardinality(SpatialIds)}
  /\ Requests \subseteq Request /\ IsFiniteSet(Requests)
  /\ \A r \in Requests : /\ r.kind = "createEntity" => r.id \in EntityIds
                         /\ r.kind \notin {"sub", "unsub"} => r.target = r.conn
  /\ Scenarios \subseteq SUBSET Requests
  /\ \A S \in Scenarios :
       Cardinality({r \in S : r.kind \in Creating}) + Cardinality(SpatialIds) <= MaxInst
  /\ Recoverable \subseteq Conns
  /\ ACL \in [Kinds -> [Accesses -> Levels]]
  /\ RemoveAfterOwnerRemoved \subseteq Kinds /\ SendOwnerLost \subseteq Kinds

VARIABLES
  allChannels,   \* per id: the instance, or Nobody
  nextChannelId,
  full,          \* nonSpatialChannelFull
  made,          \* instances made so far
  ch,            \* per instance: the fields of Channel
  pc,            \* per instance: where its goroutine is
  job,           \* per instance: the message its goroutine handles, and the instance it works on
  reading,       \* per instance: subLock is held for reading (by its own goroutine)
  writer,        \* per instance: the goroutine that waits for subLock.Lock, or holds it
  kept,          \* per instance: recoverableSubs is not empty
  sent,          \* the requests sent so far (for the bound)
  put,           \* per connection: the message it is about to send to a queue, and where
  closing,       \* connections for which IsClosing() holds
  panicked,      \* what ended the process: "no", "send", "close" or "nil"
  \* history variables, read by properties only
  removedElsewhere,  \* a NORMAL channel was removed outside the GLOBAL goroutine
  removedBy,         \* per instance: why it was removed
  raced              \* two goroutines worked on one entity id at the same time

tableVars == <<allChannels, nextChannelId, full, made>>
lockVars  == <<reading, writer>>
connVars  == <<sent, put, closing>>
history   == <<removedElsewhere, removedBy, raced>>
vars == <<tableVars, ch, pc, job, kept, lockVars, connVars, panicked, history>>

NoChannel == [kind |-> "NORMAL", id |-> GLOBAL, owner |-> Nobody, subs |-> {},
              removing |-> 0, closed |-> FALSE, queue |-> <<>>]
NoMessage == [kind |-> "none", conn |-> Nobody, to |-> GLOBAL, target |-> Nobody, id |-> GLOBAL]
NoJob     == [msg |-> NoMessage, at |-> GLOBAL]

Exists(i) == i < made
FirstId(i) == IF i = 0 THEN GLOBAL ELSE MaxId + i
IsFirst(i) == i <= Cardinality(SpatialIds)

\* InitChannels, and the spatial controller has created its channels, which
\* have no owner yet.
Init ==
  /\ allChannels = [x \in Ids |-> IF x \in SpatialIds THEN x - MaxId
                                  ELSE IF x = GLOBAL THEN GLOBAL ELSE Nobody]
  /\ nextChannelId = 0 /\ full = FALSE /\ made = 1 + Cardinality(SpatialIds)
  /\ ch = [i \in Insts |-> IF ~IsFirst(i) THEN NoChannel ELSE
             [NoChannel EXCEPT !.kind = IF i = 0 THEN "GLOBAL" ELSE "SPATIAL", !.id = FirstId(i)]]
  /\ pc = [i \in Insts |-> IF IsFirst(i) THEN "top" ELSE "none"]
  /\ job = [i \in Insts |-> NoJob]
  /\ reading = [i \in Insts |-> FALSE] /\ writer = [i \in Insts |-> Nobody]
  /\ kept = [i \in Insts |-> FALSE] /\ sent \in {Requests \ S : S \in Scenarios}
  /\ put = [c \in Conns |-> Nobody] /\ closing = {} /\ panicked = "no"
  /\ removedElsewhere = FALSE /\ removedBy = [i \in Insts |-> "no"]
  /\ raced = FALSE

IsRemoving(i) == ch[i].removing > 0
Running == panicked = "no"

-----------------------------------------------------------------------------
(* The goroutines of the connections.                                      *)

\* receiveMessage finds the channel and PutMessage tests IsRemoving ...
Receive(c, r) ==
  /\ Running /\ c \notin closing /\ put[c] = Nobody
  /\ r \in Requests \ sent /\ r.conn = c /\ r.kind # "close"
  /\ sent' = sent \cup {r}
  /\ LET i == allChannels[r.to] IN
       put' = IF i = Nobody \/ IsRemoving(i) THEN put
              ELSE [put EXCEPT ![c] = [msg |-> r, at |-> i]]
  /\ UNCHANGED <<tableVars, ch, pc, job, kept, lockVars, closing, panicked, history>>

\* Mutant of Put: it does not wait for room.
PutUnbounded(c) ==
  /\ Running /\ put[c] # Nobody
  /\ LET i == put[c].at IN
       \/ /\ ch[i].closed
          /\ panicked' = "send" /\ UNCHANGED ch
       \/ /\ ~ch[i].closed
          /\ ch' = [ch EXCEPT ![i].queue = Append(@, put[c].msg)]
          /\ UNCHANGED panicked
  /\ put' = [put EXCEPT ![c] = Nobody]
  /\ UNCHANGED <<tableVars, pc, job, kept, lockVars, sent, closing, history>>

\* ... and then sends to inMsgQueue, which blocks while it is full and panics
\* when RemoveChannel has closed it.
Put(c) ==
  /\ Running /\ put[c] # Nobody
  /\ LET i == put[c].at IN
       \/ /\ ch[i].closed
          /\ panicked' = "send" /\ UNCHANGED ch
       \/ /\ ~ch[i].closed /\ Len(ch[i].queue) < QueueSize
          /\ ch' = [ch EXCEPT ![i].queue = Append(@, put[c].msg)]
          /\ UNCHANGED panicked
  /\ put' = [put EXCEPT ![c] = Nobody]
  /\ UNCHANGED <<tableVars, pc, job, kept, lockVars, sent, closing, history>>

Close(c) ==
  /\ Running /\ c \notin closing
  /\ \E r \in Requests \ sent : r.conn = c /\ r.kind = "close" /\ sent' = sent \cup {r}
  /\ closing' = closing \cup {c}
  /\ UNCHANGED <<tableVars, ch, pc, job, kept, lockVars, put, panicked, history>>

-----------------------------------------------------------------------------
(* tickMessages: the handlers.                                             *)

\* The goroutine of i takes a message of this kind: its loop starts when the
\* channel is not being removed and goes on while there are messages.
Takes(i, kind) ==
  /\ Running
  /\ pc[i] = "messages" \/ (pc[i] = "top" /\ ~IsRemoving(i))
  /\ ch[i].queue # <<>> /\ Head(ch[i].queue).kind = kind

Taken(i) == [ch EXCEPT ![i].queue = Tail(@)]

Goto(i, p) == pc' = [pc EXCEPT ![i] = p]

\* A handled message is followed by the next one, or by the rest of the tick
\* when the queue is empty or the tick interval has elapsed.
Handled(i) == Goto(i, "messages") /\ job' = [job EXCEPT ![i] = NoJob]

HasOwner(i) == ch[i].owner # Nobody /\ ch[i].owner \notin closing

\* CheckACL
CheckACL(c, i, access) ==
  LET level == ACL[ch[i].kind][access] IN
    \/ level = "Any"
    \/ level \in {"OwnerOnly", "OwnerAndGlobalOwner"} /\ ch[i].owner = c
    \/ level = "OwnerAndGlobalOwner" /\ ch[GLOBAL].owner = c

\* handleCreateChannel for the type GLOBAL: the connection becomes its owner.
\* Anywhere else the message is refused.
Possess(i) ==
  /\ Takes(i, "possess")
  /\ LET c == Head(ch[i].queue).conn IN
       IF i = GLOBAL /\ ~HasOwner(GLOBAL)
       THEN /\ ch' = [Taken(i) EXCEPT ![GLOBAL].owner = c]
            /\ job' = [job EXCEPT ![i] = [msg |-> Head(ch[i].queue), at |-> GLOBAL]]
            /\ Goto(i, "subTest")
       ELSE ch' = Taken(i) /\ Handled(i)
  /\ UNCHANGED <<tableVars, kept, lockVars, connVars, panicked, history>>

\* GetNextIdTyped(allChannels, start, 1, MaxId): the ids in the order it tries them
Tried(start, k) == IF start + k <= MaxId THEN start + k ELSE start + k - MaxId
Free(x) == allChannels[x] = Nobody
NextIdIndexes(start) == {k \in 0 .. MaxId - 1 : Free(Tried(start, k))}
\* Mutant of NextId: the id is taken as it is.
NextIdUntested(start) ==
  Tried(start, 0)

NextId(start) ==
  Tried(start, CHOOSE k \in NextIdIndexes(start) : \A j \in NextIdIndexes(start) : k <= j)

\* createChannelWithId: the instance is stored under its id, whatever was there,
\* and its goroutine starts.  (LifecycleAssumption leaves room for all that are asked for.)
createChannelWithId(i, x, kind, msg, m) ==
  /\ made \in Insts
  /\ allChannels' = [allChannels EXCEPT ![x] = made]
  /\ ch' = [m EXCEPT ![made] = [NoChannel EXCEPT !.kind = kind, !.id = x, !.owner = msg.conn]]
  /\ made' = made + 1
  /\ job' = [job EXCEPT ![i] = [msg |-> msg, at |-> made]]
  /\ pc' = [pc EXCEPT ![i] = "subTest", ![made] = "top"]

\* handleCreateChannel for the other types (CreateChannel): the id is searched,
\* unless the channels are known to be full.
CreateChannel(i) ==
  /\ Takes(i, "create") /\ i = GLOBAL /\ ~full /\ NextIdIndexes(nextChannelId) # {}
  /\ LET x == NextId(nextChannelId) IN
       /\ nextChannelId' = x
       /\ createChannelWithId(i, x, "NORMAL", Head(ch[i].queue), Taken(i))
  /\ UNCHANGED <<full, kept, lockVars, connVars, panicked, history>>

\* There is none: the search is over, the flag is set next.
FindFull(i) ==
  /\ Takes(i, "create") /\ i = GLOBAL /\ ~full /\ NextIdIndexes(nextChannelId) = {}
  /\ ch' = Taken(i) /\ Goto(i, "setFull")
  /\ UNCHANGED <<tableVars, job, kept, lockVars, connVars, panicked, history>>
SetFull(i) ==
  /\ Running /\ pc[i] = "setFull"
  /\ full' = TRUE /\ Handled(i)
  /\ UNCHANGED <<allChannels, nextChannelId, made, ch, kept, lockVars, connVars, panicked, history>>

RefuseCreate(i) ==
  /\ Takes(i, "create") /\ (i # GLOBAL \/ full)
  /\ ch' = Taken(i) /\ Handled(i)
  /\ UNCHANGED <<tableVars, kept, lockVars, connVars, panicked, history>>

\* handleCreateEntityChannel: the test for a channel with this id ...
TestEntity(i) ==
  /\ Takes(i, "createEntity")
  /\ LET x   == Head(ch[i].queue).id
         old == allChannels[x] IN
       IF ch[i].kind \in {"GLOBAL", "SPATIAL"} /\ (old = Nobody \/ IsRemoving(old))
       THEN /\ job' = [job EXCEPT ![i] = [msg |-> Head(ch[i].queue), at |-> old]]
            /\ Goto(i, "store")
       ELSE Handled(i)
  /\ ch' = Taken(i)
  /\ UNCHANGED <<tableVars, kept, lockVars, connVars, panicked, history>>

\* ... and its creation.
StoreEntity(i) ==
  /\ Running /\ pc[i] = "store"
  /\ LET x == job[i].msg.id IN
       /\ raced' = (raced \/ allChannels[x] # job[i].at)
       /\ createChannelWithId(i, x, "ENTITY", job[i].msg, ch)
  /\ UNCHANGED <<nextChannelId, full, kept, lockVars, connVars, panicked,
                 removedElsewhere, removedBy>>

\* SubscribeToChannel: the test of IsClosing ...
SubTest(i) ==
  /\ Running /\ pc[i] = "subTest"
  /\ IF job[i].msg.target \in closing THEN Handled(i) ELSE Goto(i, "subLock") /\ UNCHANGED job
  /\ UNCHANGED <<tableVars, ch, kept, lockVars, connVars, panicked, history>>

\* ... subLock.Lock, which keeps new readers out from now on ...
SubLock(i) ==
  /\ Running /\ pc[i] = "subLock" /\ writer[job[i].at] = Nobody
  /\ writer' = [writer EXCEPT ![job[i].at] = i]
  /\ Goto(i, "subWait")
  /\ UNCHANGED <<tableVars, ch, job, kept, reading, connVars, panicked, history>>

\* Mutant of Subscribe: subLock is not unlocked.
SubscribeNoUnlock(i) ==
  /\ Running /\ pc[i] = "subWait"
  /\ LET t == job[i].at
         c == job[i].msg.target IN
       /\ ~reading[t]
       /\ ch' = [ch EXCEPT ![t].subs = @ \cup {c}]
       /\ UNCHANGED writer
  /\ Handled(i)
  /\ UNCHANGED <<tableVars, kept, reading, connVars, panicked, history>>

\* ... and is granted when the readers are gone.
Subscribe(i) ==
  /\ Running /\ pc[i] = "subWait"
  /\ LET t == job[i].at
         c == job[i].msg.target IN
       /\ ~reading[t]
       /\ ch' = [ch EXCEPT ![t].subs = @ \cup {c}]
       /\ writer' = [writer EXCEPT ![t] = Nobody]
  /\ Handled(i)
  /\ UNCHANGED <<tableVars, kept, reading, connVars, panicked, history>>

\* A connection (un)subscribes itself, or another one if the ACL lets it.
MaySubscribe(i, access) ==
  LET m == Head(ch[i].queue) IN
    /\ m.target \notin closing
    /\ m.target = m.conn \/ CheckACL(m.conn, i, access)

\* handleSubToChannel
HandleSub(i) ==
  /\ Takes(i, "sub")
  /\ IF MaySubscribe(i, "Sub")
     THEN /\ job' = [job EXCEPT ![i] = [msg |-> Head(ch[i].queue), at |-> i]]
          /\ Goto(i, "subTest")
     ELSE Handled(i)
  /\ ch' = Taken(i)
  /\ UNCHANGED <<tableVars, kept, lockVars, connVars, panicked, history>>

\* handleUnsubFromChannel: an owner that unsubscribes is the owner no more.
HandleUnsub(i) ==
  /\ Takes(i, "unsub") /\ writer[i] = Nobody
  /\ LET c == Head(ch[i].queue).target IN
       ch' = IF ~(MaySubscribe(i, "Unsub") /\ c \in ch[i].subs) THEN Taken(i)
             ELSE [Taken(i) EXCEPT ![i].subs = @ \ {c}, ![i].owner = IF @ = c THEN Nobody ELSE @]
  /\ Handled(i)
  /\ UNCHANGED <<tableVars, kept, lockVars, connVars, panicked, history>>

\* handleRemoveChannel, in whatever channel it is handled: the message of a
\* connection that has closed meanwhile counts as an internal one.
HasConnection(m) == m.conn # Nobody /\ m.conn \notin closing

\* GetChannel returns nil: the error is logged with the logger of the sender.
RemoveUnknown(i) ==
  /\ Takes(i, "remove") /\ allChannels[Head(ch[i].queue).id] = Nobody
  /\ panicked' = IF Head(ch[i].queue).conn = Nobody THEN "nil" ELSE "no"
  /\ ch' = Taken(i) /\ Handled(i)
  /\ UNCHANGED <<tableVars, kept, lockVars, connVars, history>>

HandleRemove(i) ==
  /\ Takes(i, "remove")
  /\ LET m == Head(ch[i].queue)
         t == allChannels[m.id] IN
       /\ t # Nobody
       /\ IF HasConnection(m) /\ ~CheckACL(m.conn, t, "Remove")
          THEN Handled(i)
          ELSE job' = [job EXCEPT ![i] = [msg |-> m, at |-> t]] /\ Goto(i, "remove")
  /\ ch' = Taken(i)
  /\ UNCHANGED <<tableVars, kept, lockVars, connVars, panicked, history>>

\* RemoveChannel: removing is counted up and the queue closed ...
RemoveChannel(i) ==
  /\ Running /\ pc[i] = "remove"
  /\ LET t == job[i].at IN
       IF ch[t].closed
       THEN panicked' = "close" /\ UNCHANGED <<ch, pc, removedBy>>
       ELSE /\ ch' = [ch EXCEPT ![t].removing = @ + 1, ![t].closed = TRUE]
            /\ removedBy' = [removedBy EXCEPT ![t] =
                 IF job[i].msg.conn # Nobody THEN "request" ELSE "internal"]
            /\ Goto(i, "delete") /\ UNCHANGED panicked
  /\ UNCHANGED <<tableVars, job, kept, lockVars, connVars, removedElsewhere, raced>>

\* Mutant of DeleteChannel: the flag is not reset.
DeleteChannelKeepFull(i) ==
  /\ Running /\ pc[i] = "delete"
  /\ LET t == job[i].at
         x == ch[t].id IN
       /\ allChannels' = [allChannels EXCEPT ![x] = Nobody]
       /\ raced' = (raced \/ allChannels[x] # t)
       /\ IF ch[t].kind \in {"GLOBAL", "NORMAL"}
          THEN nextChannelId' = x /\ UNCHANGED full
          ELSE UNCHANGED <<full, nextChannelId>>
       /\ removedElsewhere' = (removedElsewhere \/ (ch[t].kind = "NORMAL" /\ i # GLOBAL))
  /\ Handled(i)
  /\ UNCHANGED <<made, ch, kept, lockVars, connVars, panicked, removedBy>>

\* ... and the entry of its id deleted, which is free again.
DeleteChannel(i) ==
  /\ Running /\ pc[i] = "delete"
  /\ LET t == job[i].at
         x == ch[t].id IN
       /\ allChannels' = [allChannels EXCEPT ![x] = Nobody]
       /\ raced' = (raced \/ allChannels[x] # t)
       /\ IF ch[t].kind \in {"GLOBAL", "NORMAL"}
          THEN full' = FALSE /\ nextChannelId' = x
          ELSE UNCHANGED <<full, nextChannelId>>
       /\ removedElsewhere' = (removedElsewhere \/ (ch[t].kind = "NORMAL" /\ i # GLOBAL))
  /\ Handled(i)
  /\ UNCHANGED <<made, ch, kept, lockVars, connVars, panicked, removedBy>>

-----------------------------------------------------------------------------
(* The rest of the tick: tickConnections under subLock.RLock, and          *)
(* tickRecoverableSubscriptions.                                           *)

Gone(i) == ch[i].subs \cap closing

\* A tick without closed subscribers goes back to its start.
EndTick(i) ==
  /\ Running /\ pc[i] = "messages" /\ Gone(i) = {} /\ writer[i] = Nobody
  /\ Goto(i, "top")
  /\ UNCHANGED <<tableVars, ch, job, kept, lockVars, connVars, panicked, history>>

\* subLock.RLock, which waits behind a writer that waits.
TickConnections(i) ==
  /\ Running /\ writer[i] = Nobody /\ Gone(i) # {}
  /\ pc[i] = "messages" \/ (pc[i] = "top" /\ ~IsRemoving(i) /\ ch[i].queue = <<>>)
  /\ reading' = [reading EXCEPT ![i] = TRUE] /\ Goto(i, "connections")
  /\ UNCHANGED <<tableVars, ch, job, kept, writer, connVars, panicked, history>>

\* The subscription of c is deleted; what is needed to recover it is kept.
Dropped(i, c) == [ch EXCEPT ![i].subs = @ \ {c}, ![i].owner = IF @ = c THEN Nobody ELSE @]
Keep(i, c) == kept' = [kept EXCEPT ![i] = @ \/ c \in Recoverable]

DropSubscriber(i, c) ==
  /\ Running /\ pc[i] = "connections" /\ c \in Gone(i) /\ ch[i].owner # c
  /\ ch' = Dropped(i, c) /\ Keep(i, c)
  /\ UNCHANGED <<tableVars, pc, job, lockVars, connVars, panicked, history>>

\* The owner may come back: the others are told, if the channel type wants it,
\* by Broadcast, which takes subLock.RLock once more.
AnnouncesLoss(i, c) == c \in Recoverable /\ ch[i].kind \in SendOwnerLost
OwnerLost(i, c) ==
  /\ Running /\ pc[i] = "connections" /\ c \in Gone(i) /\ ch[i].owner = c
  /\ AnnouncesLoss(i, c)
  /\ Goto(i, "broadcast")
  /\ UNCHANGED <<tableVars, ch, job, kept, lockVars, connVars, panicked, history>>
Broadcast(i) ==
  /\ Running /\ pc[i] = "broadcast" /\ writer[i] = Nobody
  /\ ch' = Dropped(i, ch[i].owner) /\ Keep(i, ch[i].owner) /\ Goto(i, "connections")
  /\ UNCHANGED <<tableVars, job, lockVars, connVars, panicked, history>>

\* removeChannelAfterOwnerRemoved marks the channel and, unless it is GLOBAL,
\* asks the GLOBAL channel to remove it.
OwnerRemoved(i, c) ==
  /\ Running /\ pc[i] = "connections" /\ c \in Gone(i) /\ ch[i].owner = c
  /\ ~AnnouncesLoss(i, c)
  /\ Keep(i, c)
  /\ IF ch[i].kind \in RemoveAfterOwnerRemoved /\ c \notin Recoverable
     THEN ch' = [Dropped(i, c) EXCEPT ![i].removing = @ + 1] /\ Goto(i, "ask")
     ELSE ch' = Dropped(i, c) /\ UNCHANGED pc
  /\ UNCHANGED <<tableVars, job, lockVars, connVars, panicked, history>>

AfterUnlock(i) == IF kept[i] THEN "recover" ELSE "top"
Unlock(i) ==
  /\ Running /\ pc[i] = "connections" /\ Gone(i) = {}
  /\ reading' = [reading EXCEPT ![i] = FALSE] /\ Goto(i, AfterUnlock(i))
  /\ UNCHANGED <<tableVars, ch, job, kept, writer, connVars, panicked, history>>

\* The end of tickConnections, or of the tick.
Leave(i) ==
  /\ reading' = [reading EXCEPT ![i] = FALSE]
  /\ Goto(i, IF reading[i] THEN AfterUnlock(i) ELSE "top")

\* Mutant of TestGlobal: nothing is sent when the channel itself is being removed.
TestGlobalOnce(i) ==
  /\ Running /\ pc[i] = "ask"
  /\ IF i = GLOBAL \/ IsRemoving(i) THEN Leave(i) ELSE Goto(i, "send") /\ UNCHANGED reading
  /\ UNCHANGED <<tableVars, ch, job, kept, writer, connVars, panicked, history>>

\* The message goes through PutMessage, which tests whether GLOBAL is being removed ...
TestGlobal(i) ==
  /\ Running /\ pc[i] = "ask"
  /\ IF i = GLOBAL \/ IsRemoving(GLOBAL) THEN Leave(i) ELSE Goto(i, "send") /\ UNCHANGED reading
  /\ UNCHANGED <<tableVars, ch, job, kept, writer, connVars, panicked, history>>

RemovalOf(i) == [NoMessage EXCEPT !.kind = "remove", !.id = ch[i].id]
\* Mutant of AskForRemoval: the message is sent twice.
AskForRemovalTwice(i) ==
  /\ Running /\ pc[i] = "send"
  /\ IF ch[GLOBAL].closed THEN panicked' = "send" /\ UNCHANGED <<ch, pc, reading>>
     ELSE /\ Len(ch[GLOBAL].queue) < QueueSize
          /\ ch' = [ch EXCEPT ![GLOBAL].queue = @ \o <<RemovalOf(i), RemovalOf(i)>>]
          /\ Leave(i) /\ UNCHANGED panicked
  /\ UNCHANGED <<tableVars, job, kept, writer, connVars, history>>

\* ... and waits for room, with subLock held when it comes from tickConnections, which
\* ends here.
AskForRemoval(i) ==
  /\ Running /\ pc[i] = "send"
  /\ IF ch[GLOBAL].closed THEN panicked' = "send" /\ UNCHANGED <<ch, pc, reading>>
     ELSE /\ Len(ch[GLOBAL].queue) < QueueSize
          /\ ch' = [ch EXCEPT ![GLOBAL].queue = Append(@, RemovalOf(i))]
          /\ Leave(i) /\ UNCHANGED panicked
  /\ UNCHANGED <<tableVars, job, kept, writer, connVars, history>>

\* One of the kept handles has timed out: all that was kept is given up, and
\* the channel too, whoever owns it.
GiveUp(i) ==
  /\ Running /\ kept[i]
  /\ \/ pc[i] = "recover"
     \/ pc[i] = "top" /\ ~IsRemoving(i) /\ ch[i].queue = <<>> /\ writer[i] = Nobody
  /\ kept' = [kept EXCEPT ![i] = FALSE]
  /\ IF ch[i].kind \in RemoveAfterOwnerRemoved
     THEN ch' = [ch EXCEPT ![i].removing = @ + 1] /\ Goto(i, "ask")
     ELSE Goto(i, "top") /\ UNCHANGED ch
  /\ UNCHANGED <<tableVars, job, lockVars, connVars, panicked, history>>
Wait(i) ==
  /\ Running /\ pc[i] = "recover" /\ Goto(i, "top")
  /\ UNCHANGED <<tableVars, ch, job, kept, lockVars, connVars, panicked, history>>

Stop(i) ==
  /\ Running /\ pc[i] = "top" /\ IsRemoving(i)
  /\ Goto(i, "stopped")
  /\ UNCHANGED <<tableVars, ch, job, kept, lockVars, connVars, panicked, history>>

-----------------------------------------------------------------------------

Tick(i) ==
  \/ Possess(i) \/ CreateChannel(i) \/ FindFull(i) \/ SetFull(i) \/ RefuseCreate(i)
  \/ TestEntity(i) \/ StoreEntity(i) \/ SubTest(i) \/ SubLock(i) \/ Subscribe(i)
  \/ HandleSub(i) \/ HandleUnsub(i)
  \/ RemoveUnknown(i) \/ HandleRemove(i) \/ RemoveChannel(i) \/ DeleteChannel(i)
  \/ EndTick(i) \/ TickConnections(i) \/ Broadcast(i)
  \/ \E c \in Conns : DropSubscriber(i, c) \/ OwnerLost(i, c) \/ OwnerRemoved(i, c)
  \/ Unlock(i) \/ TestGlobal(i) \/ AskForRemoval(i) \/ GiveUp(i) \/ Wait(i) \/ Stop(i)

Next ==
  \/ \E c \in Conns, r \in Requests : Receive(c, r)
  \/ \E c \in Conns : Put(c) \/ Close(c)
  \/ \E i \in Insts : Tick(i)

\* The Go scheduler runs every goroutine that can go on.
Fairness == /\ \A i \in Insts : WF_vars(Tick(i))
            /\ \A c \in Conns : WF_vars(Put(c))
Spec == Init /\ [][Next]_vars /\ Fairness

-----------------------------------------------------------------------------
(* Properties.                                                             *)

Messages == Requests \cup
  {[NoMessage EXCEPT !.kind = "remove", !.id = x] : x \in Ids}
PCs == {"none", "top", "messages", "setFull", "store", "subTest", "subLock", "subWait", "remove", "delete",
        "connections", "broadcast", "ask", "send", "recover", "stopped"}

\* Types; the queues stay within their capacity, instances that were not made have
\* no goroutine, and only the goroutine of a channel holds its lock for reading.
TypeOK ==
  /\ allChannels \in [Ids -> Insts \cup {Nobody}]
  /\ nextChannelId \in Ids /\ full \in BOOLEAN /\ made \in 0 .. MaxInst + 1
  /\ \A i \in Insts :
       /\ ch[i].kind \in Kinds /\ ch[i].id \in Ids /\ ch[i].owner \in Conns \cup {Nobody}
       /\ ch[i].subs \subseteq Conns /\ ch[i].removing \in 0 .. 3 /\ ch[i].closed \in BOOLEAN
       /\ Len(ch[i].queue) <= QueueSize
       /\ \A k \in DOMAIN ch[i].queue : ch[i].queue[k] \in Messages
       /\ pc[i] = "none" <=> ~Exists(i)
       /\ reading[i] => pc[i] \in {"connections", "broadcast", "ask", "send"}
  /\ pc \in [Insts -> PCs]
  /\ \A i \in Insts : job[i].msg \in Messages \cup {NoMessage} /\ job[i].at \in Insts \cup {Nobody}
  /\ kept \in [Insts -> BOOLEAN]
  /\ reading \in [Insts -> BOOLEAN] /\ writer \in [Insts -> Insts \cup {Nobody}]
  /\ sent \subseteq Requests /\ closing \subseteq Conns
  /\ \A c \in Conns : put[c] = Nobody \/ (put[c].msg \in Requests /\ put[c].at \in Insts)
  /\ panicked \in {"no", "send", "close", "nil"}
  /\ removedElsewhere \in BOOLEAN /\ raced \in BOOLEAN
  /\ removedBy \in [Insts -> {"no", "request", "internal"}]

\* Channels are refused as full only while no id is free (channel.go:114): the flag
\* is set and reset in time, as long as NORMAL channels are removed by the GLOBAL
\* goroutine, which also sets it, and GLOBAL itself stays (its id is below the first
\* that may be given out, so that a search from there does not try them all).
FullFlagIsTrue ==
  full => \/ removedElsewhere \/ removedBy[GLOBAL] # "no"
          \/ \A x \in NormalIds : allChannels[x] # Nobody

\* A channel that is not being removed can be found under its id: no goroutine
\* ticks on for a channel that nobody can reach or remove, unless two goroutines
\* created or removed one entity id at the same time.
LiveChannelIsFound ==
  \A i \in Insts : Exists(i) /\ ~IsRemoving(i) => allChannels[ch[i].id] = i \/ raced

\* Removing a channel ends the process (nil connection, queue closed twice) only
\* when the removal was asked for more than once, by a connection or in one tick, or
\* when its id was used by two instances: each removal on its own is safe.
AskedByConnection ==
  \E i \in Insts : removedBy[i] = "request" \/ (pc[i] = "remove" /\ job[i].msg.conn # Nobody)
AskedTwiceInATick == \E i \in Insts : ch[i].removing > 2
SomeIdUsedAgain ==
  \E i, j \in Insts : i # j /\ Exists(i) /\ Exists(j) /\ ch[i].id = ch[j].id
OneRemovalIsSafe ==
  panicked \in {"nil", "close"} => AskedByConnection \/ AskedTwiceInATick \/ SomeIdUsedAgain

\* The two ways in which channel goroutines wait for each other for good: a
\* goroutine that reads subLock reads it again behind a writer (Broadcast), or waits
\* for room in the queue of the GLOBAL channel, whose goroutine waits for the lock.
Deadlocked ==
  \E i \in Insts :
    \/ pc[i] = "broadcast" /\ writer[i] # Nobody
    \/ /\ pc[i] = "send" /\ Len(ch[GLOBAL].queue) = QueueSize
       /\ pc[GLOBAL] = "subWait" /\ job[GLOBAL].at = i
Over == ~Running \/ Deadlocked

\* A channel whose subscribed owner closes, with RemoveChannelAfterOwnerRemoved set
\* and no recovery, can in the end no longer be found (channel.go:464); nothing but
\* the end of the process, one of the two deadlocks or the removal of GLOBAL itself
\* prevents it.
LostOwnerRemovesChannel ==
  \A i \in Insts :
    (ch[i].kind \in RemoveAfterOwnerRemoved /\ ch[i].owner \in Gone(i) \ Recoverable)
      ~> (allChannels[ch[i].id] # i \/ IsRemoving(GLOBAL) \/ Over)

\* The messages a channel has accepted, and those waiting for room in its queue, are
\* handled, unless the channel is removed, the process ends or it is deadlocked: no
\* other combination of subLock, queues and handlers blocks a goroutine for good.
QueuesDrain ==
  \A i \in Insts :
    (ch[i].queue # <<>> \/ \E c \in Conns : put[c] # Nobody /\ put[c].at = i)
      ~> (IsRemoving(i) \/ Over \/
          (ch[i].queue = <<>> /\ \A c \in Conns : put[c] # Nobody => put[c].at # i))
=============================================================================

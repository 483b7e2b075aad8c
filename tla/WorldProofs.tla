---------------------------- MODULE WorldProofs ----------------------------
(* Theorems about module Handover, for every value of its constants: where     *)
(* entities are, who owns them and who may write them, which channels servers    *)
(* and clients watch, while handovers, callbacks, subscription messages,        *)
(* closing connections and new channels interleave.                            *)
EXTENDS HandoverProofs, FiniteSetTheorems

-----------------------------------------------------------------------------
(* Queues: what is waiting, and what a step puts there or takes away.        *)

IsQueue(q) == q \in Seq(Range(q))

\* Waiting messages after the first one was taken.
LEMMA TailOfWork ==
  ASSUME NEW q, IsQueue(q), q # <<>>
  PROVE  /\ IsQueue(Tail(q))
         /\ Len(q) \in Nat /\ Len(q) > 0 /\ Len(Tail(q)) = Len(q) - 1
         /\ DOMAIN q = 1..Len(q) /\ DOMAIN Tail(q) = 1..(Len(q) - 1)
         /\ Head(q) = q[1]
         /\ \A k \in DOMAIN Tail(q) : k + 1 \in DOMAIN q /\ Tail(q)[k] = q[k + 1]
<1> DEFINE S == Range(q)
<1>1. q \in Seq(S)
  BY DEF IsQueue
<1> HIDE DEF S
<1>2. /\ Tail(q) \in Seq(S)
      /\ Len(q) \in Nat /\ Len(q) > 0 /\ Len(Tail(q)) = Len(q) - 1
      /\ DOMAIN q = 1..Len(q) /\ DOMAIN Tail(q) = 1..(Len(q) - 1)
      /\ Head(q) = q[1]
      /\ \A k \in 1..(Len(q) - 1) : Tail(q)[k] = q[k + 1]
  BY <1>1
<1>3. Tail(q) \in Seq(Range(Tail(q)))
  BY <1>2, SeqOfRange
<1>4. \A k \in 1..(Len(q) - 1) : k + 1 \in 1..Len(q)
  BY <1>2
<1> QED
  BY <1>2, <1>3, <1>4 DEF IsQueue

\* Waiting messages after another one was put there.
LEMMA AppendedWork ==
  ASSUME NEW q, IsQueue(q), NEW m
  PROVE  /\ IsQueue(Append(q, m))
         /\ Len(q) \in Nat
         /\ DOMAIN q = 1..Len(q) /\ DOMAIN Append(q, m) = 1..(Len(q) + 1)
         /\ \A k \in DOMAIN q : Append(q, m)[k] = q[k]
         /\ Append(q, m)[Len(q) + 1] = m
<1> DEFINE S == Range(q) \cup {m}
           r == Append(q, m)
<1>1. q \in Seq(S)
  <2>1. Range(q) \subseteq S
    OBVIOUS
  <2> QED
    BY <2>1, SeqMonotonic DEF IsQueue
<1> HIDE DEF S
<1>2. m \in S
  BY DEF S
<1>3. /\ r \in Seq(S)
      /\ Len(q) \in Nat /\ Len(r) = Len(q) + 1
      /\ DOMAIN q = 1..Len(q) /\ DOMAIN r = 1..(Len(q) + 1)
      /\ \A k \in 1..Len(q) : r[k] = q[k]
      /\ r[Len(q) + 1] = m
  BY <1>1, <1>2
<1>4. r \in Seq(Range(r))
  BY <1>3, SeqOfRange
<1> QED
  BY <1>3, <1>4 DEF IsQueue

\* The empty queue.
LEMMA NoWork == IsQueue(<<>>) /\ DOMAIN <<>> = {}
<1>1. <<>> \in Seq(Range(<<>>))
  OBVIOUS
<1>2. DOMAIN <<>> = {}
  OBVIOUS
<1> QED
  BY <1>1, <1>2 DEF IsQueue

\* After position n of the queue a callback waits that removes e from the data.
RemovedAfter(q, n, e) == \E k \in DOMAIN q : k > n /\ q[k].type = "remove" /\ e \in q[k].entities
RemoveWaits(q, e) == RemovedAfter(q, 0, e)

\* Data S will hold e when everything that waits was done.
WillHold(S, q, e) ==
  \/ e \in S /\ ~RemovedAfter(q, 0, e)
  \/ \E n \in DOMAIN q : q[n].type = "add" /\ e \in q[n].entities /\ ~RemovedAfter(q, n, e)

\* A callback that is put in the queue decides about its entities, and no other.
LEMMA WorkAppended ==
  ASSUME NEW q, IsQueue(q), NEW S, NEW m, NEW e
  PROVE  /\ m.type = "add" /\ e \in m.entities => WillHold(S, Append(q, m), e)
         /\ m.type = "remove" /\ e \in m.entities => ~WillHold(S, Append(q, m), e)
         /\ ~(m.type \in {"add", "remove"} /\ e \in m.entities) =>
              (WillHold(S, Append(q, m), e) <=> WillHold(S, q, e))
         /\ RemoveWaits(Append(q, m), e) =>
              RemoveWaits(q, e) \/ (m.type = "remove" /\ e \in m.entities)
<1> DEFINE r == Append(q, m)
           last == Len(q) + 1
<1>1. /\ Len(q) \in Nat /\ DOMAIN q = 1..Len(q) /\ DOMAIN r = DOMAIN q \cup {last}
      /\ \A k \in DOMAIN q : r[k] = q[k] /\ k < last /\ k \in Nat /\ k > 0
      /\ r[last] = m /\ last \in Nat /\ last > 0
  BY AppendedWork
<1> HIDE DEF r, last
<1>2. ASSUME NEW n \in DOMAIN q \cup {0}
      PROVE  RemovedAfter(r, n, e) <=> RemovedAfter(q, n, e) \/ (m.type = "remove" /\ e \in m.entities)
  <2>1. n < last
    BY <1>1
  <2> QED
    BY <1>1, <2>1 DEF RemovedAfter
<1>3. ~RemovedAfter(r, last, e)
  BY <1>1 DEF RemovedAfter
<1>4. \A n \in DOMAIN q : r[n] = q[n]
  BY <1>1
<1>5. ASSUME m.type = "add", e \in m.entities PROVE WillHold(S, r, e)
  BY <1>1, <1>3, <1>5 DEF WillHold
<1>6. ASSUME m.type = "remove", e \in m.entities PROVE ~WillHold(S, r, e)
  BY <1>1, <1>2, <1>6 DEF WillHold
<1>7. ASSUME ~(m.type \in {"add", "remove"} /\ e \in m.entities)
      PROVE  WillHold(S, r, e) <=> WillHold(S, q, e)
  BY <1>1, <1>2, <1>4, <1>7 DEF WillHold
<1>8. RemoveWaits(r, e) => RemoveWaits(q, e) \/ (m.type = "remove" /\ e \in m.entities)
  BY <1>2 DEF RemoveWaits
<1> QED
  BY <1>5, <1>6, <1>7, <1>8 DEF r

\* Doing what waits first does not change what the data will be in the end.
LEMMA WorkTaken ==
  ASSUME NEW q, IsQueue(q), q # <<>>, NEW S, NEW e
  PROVE  /\ RemoveWaits(Tail(q), e) => RemoveWaits(q, e)
         /\ Head(q).type = "add" =>
              (WillHold(S \cup Head(q).entities, Tail(q), e) <=> WillHold(S, q, e))
         /\ Head(q).type = "remove" =>
              (WillHold(S \ Head(q).entities, Tail(q), e) <=> WillHold(S, q, e))
         /\ Head(q).type \notin {"add", "remove"} =>
              (WillHold(S, Tail(q), e) <=> WillHold(S, q, e))
<1> DEFINE r == Tail(q)
<1>1. /\ Len(q) \in Nat /\ Len(q) > 0 /\ DOMAIN q = 1..Len(q) /\ DOMAIN r = 1..(Len(q) - 1)
      /\ Head(q) = q[1]
      /\ \A k \in DOMAIN r : k + 1 \in DOMAIN q /\ r[k] = q[k + 1]
  BY TailOfWork
<1>2. \A k \in DOMAIN q : k = 1 \/ (k - 1 \in DOMAIN r /\ q[k] = r[k - 1])
  BY <1>1
<1> HIDE DEF r
<1>3. ASSUME NEW n \in DOMAIN r \cup {0}
      PROVE  RemovedAfter(r, n, e) <=> RemovedAfter(q, n + 1, e)
  <2>1. ASSUME NEW k \in DOMAIN r, k > n PROVE k + 1 \in DOMAIN q /\ k + 1 > n + 1 /\ q[k + 1] = r[k]
    BY <1>1, <2>1
  <2>2. ASSUME NEW k \in DOMAIN q, k > n + 1
        PROVE  k - 1 \in DOMAIN r /\ k - 1 > n /\ q[k] = r[k - 1]
    BY <1>1, <1>2, <2>2
  <2>3. RemovedAfter(r, n, e) => RemovedAfter(q, n + 1, e)
    BY <2>1 DEF RemovedAfter
  <2>4. RemovedAfter(q, n + 1, e) => RemovedAfter(r, n, e)
    BY <2>2 DEF RemovedAfter
  <2> QED
    BY <2>3, <2>4
<1>4. RemovedAfter(q, 0, e) <=> RemovedAfter(q, 1, e) \/ (q[1].type = "remove" /\ e \in q[1].entities)
  <2>1. \A k \in DOMAIN q : k > 0 <=> k > 1 \/ k = 1
    BY <1>1
  <2>2. 1 \in DOMAIN q
    BY <1>1
  <2> QED
    BY <2>1, <2>2 DEF RemovedAfter
<1>5. RemovedAfter(r, 0, e) <=> RemovedAfter(q, 1, e)
  BY <1>3
<1> DEFINE Later(p, n) == p[n].type = "add" /\ e \in p[n].entities /\ ~RemovedAfter(p, n, e)
<1>6. (\E n \in DOMAIN q : Later(q, n)) <=> Later(q, 1) \/ \E n \in DOMAIN r : Later(r, n)
  <2>1. ASSUME NEW n \in DOMAIN r PROVE n + 1 \in DOMAIN q /\ (Later(q, n + 1) <=> Later(r, n))
    BY <1>1, <1>3
  <2>2. ASSUME NEW n \in DOMAIN q, n # 1 PROVE n - 1 \in DOMAIN r /\ (Later(q, n) <=> Later(r, n - 1))
    <3>1. n - 1 \in DOMAIN r /\ q[n] = r[n - 1] /\ (n - 1) + 1 = n
      BY <1>1, <1>2, <2>2
    <3> QED
      BY <1>3, <3>1
  <2>3. 1 \in DOMAIN q
    BY <1>1
  <2> HIDE DEF Later
  <2> QED
    BY <2>1, <2>2, <2>3
<1>7. WillHold(S, q, e) <=> (e \in S /\ ~RemovedAfter(q, 0, e)) \/ Later(q, 1) \/ \E n \in DOMAIN r : Later(r, n)
  BY <1>6 DEF WillHold
<1>8. \A T : WillHold(T, r, e) <=> (e \in T /\ ~RemovedAfter(q, 1, e)) \/ \E n \in DOMAIN r : Later(r, n)
  BY <1>5 DEF WillHold
<1>9. Later(q, 1) <=> Head(q).type = "add" /\ e \in Head(q).entities /\ ~RemovedAfter(q, 1, e)
  BY <1>1
<1>10. RemovedAfter(q, 0, e) <=> RemovedAfter(q, 1, e) \/ (Head(q).type = "remove" /\ e \in Head(q).entities)
  BY <1>1, <1>4
<1>11. RemoveWaits(r, e) => RemoveWaits(q, e)
  BY <1>4, <1>5 DEF RemoveWaits
<1> HIDE DEF Later
<1>12. Head(q).type = "add" => (WillHold(S \cup Head(q).entities, r, e) <=> WillHold(S, q, e))
  BY <1>7, <1>8, <1>9, <1>10
<1>13. Head(q).type = "remove" => (WillHold(S \ Head(q).entities, r, e) <=> WillHold(S, q, e))
  BY <1>7, <1>8, <1>9, <1>10
<1>14. Head(q).type \notin {"add", "remove"} => (WillHold(S, r, e) <=> WillHold(S, q, e))
  BY <1>7, <1>8, <1>9, <1>10
<1> QED
  BY <1>11, <1>12, <1>13, <1>14 DEF r

\* A change of the data now, besides what waits.
LEMMA DataChanged ==
  ASSUME NEW q, NEW S, NEW e, NEW f
  PROVE  /\ WillHold(S, q, e) => WillHold(S \cup {f}, q, e)
         /\ WillHold(S \ {f}, q, e) => WillHold(S, q, e)
         /\ e # f => (WillHold(S \cup {f}, q, e) <=> WillHold(S, q, e))
         /\ e # f => (WillHold(S \ {f}, q, e) <=> WillHold(S, q, e))
BY DEF WillHold

\* When no callback for e waits the data is what it will be.
LEMMA NothingWaits ==
  ASSUME NEW q, NEW S, NEW e,
         \A k \in DOMAIN q : q[k].type \in {"add", "remove"} => e \notin q[k].entities
  PROVE  WillHold(S, q, e) <=> e \in S
BY DEF WillHold, RemovedAfter

-----------------------------------------------------------------------------
(* The types of the tables.                                                  *)

\* The messages and callbacks that wait in the queues, with what handlers read.
SpatialWork(m) ==
  \/ m.type = "add" /\ m.entities \subseteq Entities
  \/ m.type = "remove"
  \/ m.type = "createEntity" /\ m.entity \in Entities /\ m.pos \in Positions /\ m.from \in Senders
     /\ m.access \in Rights
  \/ m.type = "spawn" /\ m.entity \in Entities /\ m.pos \in Points
  \/ m.type = "destroy" /\ m.entity \in Entities
  \/ m.type = "interest" /\ m.client \in Clients /\ m.query \in Queries
  \/ m.type \in {"sub", "unsub"} /\ m.client \in Clients

GlobalWork(m) ==
  \/ m.type = "createSpatial" /\ m.from \in Servers
  \/ m.type = "createEntity" /\ m.entity \in Entities /\ m.pos \in Positions /\ m.from \in Senders
     /\ m.access \in Rights
  \/ m.type = "removeEntity" /\ m.entity \in Entities

EntityWork(m) ==
  \/ m.type = "update" /\ m.pos \in Positions /\ m.from \in Senders
  \/ m.type \in {"addGroup", "removeGroup", "setObjRef"}

\* An instance that was created; the others are untouched.
Born(i) == i[1] \in Cells /\ i[2] <= current[i[1]]

ChannelOK(S, i) ==
  /\ S[i].owner \in Servers \cup {NoConn}
  /\ S[i].subs \subseteq Conns
  /\ S[i].entities \subseteq Entities
  /\ IsQueue(S[i].queue)
  /\ \A k \in DOMAIN S[i].queue : SpatialWork(S[i].queue[k])
  /\ ~Born(i) => S[i].owner = NoConn /\ S[i].subs = {} /\ S[i].entities = {} /\ S[i].queue = <<>>

ChannelsOK(S) == Channels(S) /\ \A i \in Instances : ChannelOK(S, i)

IsEntity(r) ==
  r = [state |-> r.state, owner |-> r.owner, pos |-> r.pos, ref |-> r.ref,
       access |-> r.access, inbox |-> r.inbox]

EntityOK(r) ==
  /\ IsEntity(r)
  /\ r.state \in {"none", "alive", "gone"}
  /\ r.owner \in Senders \cup {NoConn}
  /\ r.pos \in Positions
  /\ r.access \in [Conns -> {"none"} \cup Rights]
  /\ IsQueue(r.inbox)
  /\ \A k \in DOMAIN r.inbox : EntityWork(r.inbox[k])

EntitiesOK(E) == E = [e \in Entities |-> E[e]] /\ \A e \in Entities : EntityOK(E[e])

NotifyOK(n) ==
  \/ n = NoNotify
  \/ /\ n = [at |-> n.at, src |-> n.src, dst |-> n.dst, entities |-> n.entities,
             data |-> n.data, conns |-> n.conns]
     /\ n.at \in {"owners", "remove", "add", "subscribe"}
     /\ n.src \in Instances /\ Born(n.src) /\ n.dst \in Instances /\ Born(n.dst)
     /\ n.data \subseteq Entities /\ n.data \subseteq n.entities
     /\ n.conns \subseteq Conns

\* No entity channel that does not exist is in Notify.
NotifiesOK(N, E) ==
  /\ N = [e \in Entities |-> N[e]]
  /\ \A e \in Entities : NotifyOK(N[e]) /\ (N[e].at # "idle" => E[e].state # "none")

SendersOK(Q, C) ==
  /\ Q = [s \in Senders |-> Q[s]]
  /\ \A s \in Senders : Q[s] \in Seq(Range(scenario.sends[s]))
  /\ C \subseteq scenario.closes

ServersOK(c, T, I) ==
  /\ c \in Servers \cup {NoConn}
  /\ \A i \in ServerIndexes(grid) : T[i] \in Servers \cup {NoConn}
  /\ I \in [Conns -> SUBSET Cells]

GlobalOK(q) == IsQueue(q) /\ \A k \in DOMAIN q : GlobalWork(q[k])

\* No channel outside the world is ever created.
NoneOutside == \A c \in (0..(MaxCells - 1)) \ Cells : current[c] = 0

\* The types of all variables: inductive, with the tables' domains (GridInv).
TypeInv ==
  /\ GridInv
  /\ NoneOutside
  /\ SendersOK(sends, closing)
  /\ ServersOK(creating, serverConnections, interest)
  /\ ChannelsOK(spatial)
  /\ GlobalOK(globalQueue)
  /\ EntitiesOK(entity)
  /\ NotifiesOK(notify, entity)

-----------------------------------------------------------------------------
(* What changes of one field do to a table.                                  *)

SameOwners(S, T) == \A j \in Instances : T[j].owner = S[j].owner
SameSubs(S, T)   == \A j \in Instances : T[j].subs = S[j].subs
SameData(S, T)   == \A j \in Instances : T[j].entities = S[j].entities
SameQueues(S, T) == \A j \in Instances : T[j].queue = S[j].queue

\* T is S but for one field of channel i, which is v.
SubsSet(S, T, i, v) ==
  /\ Channels(T) /\ SameOwners(S, T) /\ SameData(S, T) /\ SameQueues(S, T)
  /\ \A j \in Instances : T[j].subs = IF j = i THEN v ELSE S[j].subs
DataSet(S, T, i, v) ==
  /\ Channels(T) /\ SameOwners(S, T) /\ SameSubs(S, T) /\ SameQueues(S, T)
  /\ \A j \in Instances : T[j].entities = IF j = i THEN v ELSE S[j].entities
QueueSet(S, T, i, v) ==
  /\ Channels(T) /\ SameOwners(S, T) /\ SameSubs(S, T) /\ SameData(S, T)
  /\ \A j \in Instances : T[j].queue = IF j = i THEN v ELSE S[j].queue

LEMMA ChannelField ==
  ASSUME NEW r, IsChannel(r), NEW v
  PROVE  /\ [r EXCEPT !.owner = v] =
              [owner |-> v, subs |-> r.subs, entities |-> r.entities, queue |-> r.queue]
         /\ [r EXCEPT !.subs = v] =
              [owner |-> r.owner, subs |-> v, entities |-> r.entities, queue |-> r.queue]
         /\ [r EXCEPT !.entities = v] =
              [owner |-> r.owner, subs |-> r.subs, entities |-> v, queue |-> r.queue]
         /\ [r EXCEPT !.queue = v] =
              [owner |-> r.owner, subs |-> r.subs, entities |-> r.entities, queue |-> v]
<1>1. \A a, b, c, d : [[owner |-> a, subs |-> b, entities |-> c, queue |-> d] EXCEPT !.owner = v]
                      = [owner |-> v, subs |-> b, entities |-> c, queue |-> d]
  OBVIOUS
<1>2. \A a, b, c, d : [[owner |-> a, subs |-> b, entities |-> c, queue |-> d] EXCEPT !.subs = v]
                      = [owner |-> a, subs |-> v, entities |-> c, queue |-> d]
  OBVIOUS
<1>3. \A a, b, c, d : [[owner |-> a, subs |-> b, entities |-> c, queue |-> d] EXCEPT !.entities = v]
                      = [owner |-> a, subs |-> b, entities |-> v, queue |-> d]
  OBVIOUS
<1>4. \A a, b, c, d : [[owner |-> a, subs |-> b, entities |-> c, queue |-> d] EXCEPT !.queue = v]
                      = [owner |-> a, subs |-> b, entities |-> c, queue |-> v]
  OBVIOUS
<1> QED
  BY <1>1, <1>2, <1>3, <1>4 DEF IsChannel

\* A record of the four fields is a channel that has them.
LEMMA ChannelRecord ==
  ASSUME NEW r, NEW a, NEW b, NEW c, NEW d,
         r = [owner |-> a, subs |-> b, entities |-> c, queue |-> d]
  PROVE  IsChannel(r) /\ r.owner = a /\ r.subs = b /\ r.entities = c /\ r.queue = d
BY DEF IsChannel

\* The entry of one channel is replaced.
LEMMA ChannelReplaced ==
  ASSUME NEW S, Channels(S), NEW i \in Instances, NEW r, IsChannel(r)
  PROVE  /\ Channels([S EXCEPT ![i] = r])
         /\ \A j \in Instances : [S EXCEPT ![i] = r][j] = IF j = i THEN r ELSE S[j]
<1> DEFINE T == [S EXCEPT ![i] = r]
<1>1. ASSUME NEW j \in Instances PROVE T[j] = IF j = i THEN r ELSE S[j]
  BY DEF Channels
<1>2. T = [j \in Instances |-> T[j]]
  BY DEF Channels
<1> QED
  BY <1>1, <1>2 DEF Channels

LEMMA SubsChanged ==
  ASSUME NEW S, Channels(S), NEW i \in Instances, NEW v
  PROVE  SubsSet(S, [S EXCEPT ![i].subs = v], i, v)
<1> DEFINE r == [S[i] EXCEPT !.subs = v]
<1>1. IsChannel(S[i])
  BY DEF Channels
<1>2. r = [owner |-> S[i].owner, subs |-> v, entities |-> S[i].entities, queue |-> S[i].queue]
  BY <1>1, ChannelField
<1> HIDE DEF r
<1>3. /\ IsChannel(r) /\ r.owner = S[i].owner /\ r.subs = v
      /\ r.entities = S[i].entities /\ r.queue = S[i].queue
  BY <1>2, ChannelRecord
<1>4. /\ Channels([S EXCEPT ![i] = r])
      /\ \A j \in Instances : [S EXCEPT ![i] = r][j] = IF j = i THEN r ELSE S[j]
  BY <1>3, ChannelReplaced
<1>5. [S EXCEPT ![i].subs = v] = [S EXCEPT ![i] = r]
  BY DEF r
<1> QED
  BY <1>3, <1>4, <1>5 DEF SubsSet, SameOwners, SameData, SameQueues

LEMMA EntitiesChanged ==
  ASSUME NEW S, Channels(S), NEW i \in Instances, NEW v
  PROVE  DataSet(S, [S EXCEPT ![i].entities = v], i, v)
<1> DEFINE r == [S[i] EXCEPT !.entities = v]
<1>1. IsChannel(S[i])
  BY DEF Channels
<1>2. r = [owner |-> S[i].owner, subs |-> S[i].subs, entities |-> v, queue |-> S[i].queue]
  BY <1>1, ChannelField
<1> HIDE DEF r
<1>3. /\ IsChannel(r) /\ r.owner = S[i].owner /\ r.subs = S[i].subs
      /\ r.entities = v /\ r.queue = S[i].queue
  BY <1>2, ChannelRecord
<1>4. /\ Channels([S EXCEPT ![i] = r])
      /\ \A j \in Instances : [S EXCEPT ![i] = r][j] = IF j = i THEN r ELSE S[j]
  BY <1>3, ChannelReplaced
<1>5. [S EXCEPT ![i].entities = v] = [S EXCEPT ![i] = r]
  BY DEF r
<1> QED
  BY <1>3, <1>4, <1>5 DEF DataSet, SameOwners, SameSubs, SameQueues

LEMMA QueueChanged ==
  ASSUME NEW S, Channels(S), NEW i \in Instances, NEW v
  PROVE  QueueSet(S, [S EXCEPT ![i].queue = v], i, v)
<1> DEFINE r == [S[i] EXCEPT !.queue = v]
<1>1. IsChannel(S[i])
  BY DEF Channels
<1>2. r = [owner |-> S[i].owner, subs |-> S[i].subs, entities |-> S[i].entities, queue |-> v]
  BY <1>1, ChannelField
<1> HIDE DEF r
<1>3. /\ IsChannel(r) /\ r.owner = S[i].owner /\ r.subs = S[i].subs
      /\ r.entities = S[i].entities /\ r.queue = v
  BY <1>2, ChannelRecord
<1>4. /\ Channels([S EXCEPT ![i] = r])
      /\ \A j \in Instances : [S EXCEPT ![i] = r][j] = IF j = i THEN r ELSE S[j]
  BY <1>3, ChannelReplaced
<1>5. [S EXCEPT ![i].queue = v] = [S EXCEPT ![i] = r]
  BY DEF r
<1> QED
  BY <1>3, <1>4, <1>5 DEF QueueSet, SameOwners, SameSubs, SameData

\* Work put in the queue of a channel.
LEMMA ExecuteChanges ==
  ASSUME NEW S, Channels(S), NEW i \in Instances, NEW m
  PROVE  QueueSet(S, Execute(S, i, m), i, Append(S[i].queue, m))
BY QueueChanged DEF Execute

\* The first message of channel i is taken.
LEMMA TakenChanges ==
  ASSUME Channels(spatial), NEW i \in Instances
  PROVE  QueueSet(spatial, Taken(i), i, Tail(spatial[i].queue))
BY QueueChanged DEF Taken

-----------------------------------------------------------------------------
(* Types are kept by the changes of the tables.                              *)

LEMMA QueuedOK ==
  ASSUME NEW S, ChannelsOK(S), NEW i \in Instances, Born(i), NEW m, SpatialWork(m),
         NEW T, QueueSet(S, T, i, Append(S[i].queue, m))
  PROVE  ChannelsOK(T)
<1>1. IsQueue(S[i].queue) /\ \A k \in DOMAIN S[i].queue : SpatialWork(S[i].queue[k])
  BY DEF ChannelsOK, ChannelOK
<1>2. /\ IsQueue(T[i].queue)
      /\ \A k \in DOMAIN T[i].queue : SpatialWork(T[i].queue[k])
  <2>1. T[i].queue = Append(S[i].queue, m)
    BY DEF QueueSet
  <2> HIDE DEF SpatialWork
  <2> QED
    BY <1>1, <2>1, AppendedWork
<1>3. ASSUME NEW j \in Instances PROVE ChannelOK(T, j)
  <2>1. ChannelOK(S, j) /\ T[j].owner = S[j].owner /\ T[j].subs = S[j].subs /\ T[j].entities = S[j].entities
    BY DEF ChannelsOK, QueueSet, SameOwners, SameSubs, SameData
  <2>2. j # i => T[j].queue = S[j].queue
    BY DEF QueueSet
  <2> QED
    BY <1>2, <2>1, <2>2 DEF ChannelOK
<1> QED
  BY <1>3 DEF ChannelsOK, QueueSet

LEMMA TakenOK ==
  ASSUME NEW S, ChannelsOK(S), NEW i \in Instances, S[i].queue # <<>>,
         NEW T, QueueSet(S, T, i, Tail(S[i].queue))
  PROVE  ChannelsOK(T) /\ Born(i) /\ SpatialWork(Head(S[i].queue))
<1>1. IsQueue(S[i].queue) /\ \A k \in DOMAIN S[i].queue : SpatialWork(S[i].queue[k])
  BY DEF ChannelsOK, ChannelOK
<1>2. Born(i)
  BY DEF ChannelsOK, ChannelOK
<1>3. /\ IsQueue(T[i].queue)
      /\ \A k \in DOMAIN T[i].queue : SpatialWork(T[i].queue[k])
      /\ SpatialWork(Head(S[i].queue))
  <2>1. T[i].queue = Tail(S[i].queue)
    BY DEF QueueSet
  <2>2. 1 \in DOMAIN S[i].queue /\ Head(S[i].queue) = S[i].queue[1]
    BY <1>1, TailOfWork
  <2> HIDE DEF SpatialWork
  <2> QED
    BY <1>1, <2>1, <2>2, TailOfWork
<1>4. ASSUME NEW j \in Instances PROVE ChannelOK(T, j)
  <2>1. ChannelOK(S, j) /\ T[j].owner = S[j].owner /\ T[j].subs = S[j].subs /\ T[j].entities = S[j].entities
    BY DEF ChannelsOK, QueueSet, SameOwners, SameSubs, SameData
  <2>2. j # i => T[j].queue = S[j].queue
    BY DEF QueueSet
  <2> QED
    BY <1>2, <1>3, <2>1, <2>2 DEF ChannelOK
<1> QED
  BY <1>2, <1>3, <1>4 DEF ChannelsOK, QueueSet

LEMMA SubsOK ==
  ASSUME NEW S, ChannelsOK(S), NEW i \in Instances, NEW v, v \subseteq Conns, Born(i) \/ v = {},
         NEW T, SubsSet(S, T, i, v)
  PROVE  ChannelsOK(T)
<1>1. ASSUME NEW j \in Instances PROVE ChannelOK(T, j)
  <2>1. /\ ChannelOK(S, j) /\ T[j].owner = S[j].owner /\ T[j].queue = S[j].queue
        /\ T[j].entities = S[j].entities /\ T[j].subs = IF j = i THEN v ELSE S[j].subs
    BY DEF ChannelsOK, SubsSet, SameOwners, SameQueues, SameData
  <2> QED
    BY <2>1 DEF ChannelOK
<1> QED
  BY <1>1 DEF ChannelsOK, SubsSet

LEMMA DataOK ==
  ASSUME NEW S, ChannelsOK(S), NEW i \in Instances, NEW v, v \subseteq Entities, Born(i) \/ v = {},
         NEW T, DataSet(S, T, i, v)
  PROVE  ChannelsOK(T)
<1>1. ASSUME NEW j \in Instances PROVE ChannelOK(T, j)
  <2>1. /\ ChannelOK(S, j) /\ T[j].owner = S[j].owner /\ T[j].queue = S[j].queue
        /\ T[j].subs = S[j].subs /\ T[j].entities = IF j = i THEN v ELSE S[j].entities
    BY DEF ChannelsOK, DataSet, SameOwners, SameQueues, SameSubs
  <2> QED
    BY <2>1 DEF ChannelOK
<1> QED
  BY <1>1 DEF ChannelsOK, DataSet

\* The types read the world and which instances it has, nothing else.
LEMMA SameWorld ==
  ASSUME scenario' = scenario, current' = current
  PROVE  /\ grid' = grid /\ Cells' = Cells /\ Positions' = Positions /\ Ready' = Ready
         /\ \A i : Born(i)' <=> Born(i)
         /\ SendersOK(sends', closing') => SendersOK(sends, closing)'
         /\ ServersOK(creating', serverConnections', interest')
              => ServersOK(creating, serverConnections, interest)'
         /\ NoneOutside => NoneOutside'
         /\ ChannelsOK(spatial') => ChannelsOK(spatial)'
         /\ GlobalOK(globalQueue') => GlobalOK(globalQueue)'
         /\ EntitiesOK(entity') => EntitiesOK(entity)'
         /\ NotifiesOK(notify', entity') => NotifiesOK(notify, entity)'
<1>1. grid' = grid /\ Cells' = Cells /\ Positions' = Positions /\ Ready' = Ready
  BY DEF grid, Cells, Positions, Ready
<1>2. \A i : Born(i)' <=> Born(i)
  BY <1>1 DEF Born
<1>3. \A m : SpatialWork(m)' <=> SpatialWork(m)
  BY <1>1 DEF SpatialWork
<1>4. \A m : EntityWork(m)' <=> EntityWork(m)
  BY <1>1 DEF EntityWork
<1>5. \A m : GlobalWork(m)' <=> GlobalWork(m)
  BY <1>1 DEF GlobalWork
<1>6. ChannelsOK(spatial') => ChannelsOK(spatial)'
  BY <1>2, <1>3 DEF ChannelsOK, ChannelOK, Channels
<1>7. EntitiesOK(entity') => EntitiesOK(entity)'
  BY <1>1, <1>4 DEF EntitiesOK, EntityOK
<1>8. NotifiesOK(notify', entity') => NotifiesOK(notify, entity)'
  BY <1>2 DEF NotifiesOK, NotifyOK
<1>9. SendersOK(sends', closing') => SendersOK(sends, closing)'
  BY DEF SendersOK
<1>10. GlobalOK(globalQueue') => GlobalOK(globalQueue)'
  BY <1>5 DEF GlobalOK
<1>11. ServersOK(creating', serverConnections', interest')
         => ServersOK(creating, serverConnections, interest)'
  BY <1>1 DEF ServersOK
<1>12. NoneOutside => NoneOutside'
  BY <1>1 DEF NoneOutside
<1> QED
  BY <1>1, <1>2, <1>6, <1>7, <1>8, <1>9, <1>10, <1>11, <1>12

\* A step in the same world keeps the types when each part is kept.
LEMMA TypesKept ==
  ASSUME TypeInv, GridInv', scenario' = scenario, current' = current,
         SendersOK(sends', closing'), ServersOK(creating', serverConnections', interest'),
         ChannelsOK(spatial'), GlobalOK(globalQueue'), EntitiesOK(entity'),
         NotifiesOK(notify', entity')
  PROVE  TypeInv'
BY SameWorld DEF TypeInv

\* The points of a world are in one of its channels or in none.
LEMMA PointCell ==
  ASSUME scenario \in Scenarios, NEW p \in Points
  PROVE  CellOfPos(p) \in Cells \cup {NoCell}
<1>1. CASE p = NoPos
  BY <1>1 DEF CellOfPos
<1>2. CASE p # NoPos
  <2> DEFINE W == GridWidth
             x == p[1] \div W
             z == p[2] \div W
  <2>1. grid \in Grids
    BY CellsInTable
  <2>2. CASE p[1] \in 0..(grid.gridCols * W - 1) /\ p[2] \in 0..(grid.gridRows * W - 1)
    <3>1. W \in Nat \ {0} /\ grid.gridCols \in Nat \ {0} /\ grid.gridRows \in Nat \ {0}
      BY <2>1, GridWidthAssumption DEF Grids
    <3>2. ASSUME NEW n \in Nat \ {0}, NEW a \in 0..(n * W - 1) PROVE a \div W \in 0..(n - 1)
      <4>1. a \in Nat /\ n * W \in Nat
        BY <3>1, <3>2
      <4>2. a \div W \in Nat /\ a % W \in 0..(W - 1) /\ a = W * (a \div W) + (a % W)
        BY <3>1, <4>1, Division
      <4>3. W * (a \div W) = (a \div W) * W
        BY <3>1, <4>2
      <4>4. (a \div W) * W < n * W
        BY <3>1, <4>1, <4>2, <4>3
      <4> HIDE DEF W
      <4>5. a \div W < n
        BY <3>1, <4>2, <4>4, Multiples
      <4> QED
        BY <3>1, <4>2, <4>5
    <3>3. x \in 0..(grid.gridCols - 1) /\ z \in 0..(grid.gridRows - 1)
      BY <2>2, <3>1, <3>2
    <3>4. CellOfPos(p) = x + z * grid.gridCols
      BY <1>2, <2>2 DEF CellOfPos, GetChannelId
    <3> QED
      BY <2>1, <3>3, <3>4, PlaceOfCell DEF Cells
  <2>3. CASE ~(p[1] \in 0..(grid.gridCols * W - 1) /\ p[2] \in 0..(grid.gridRows * W - 1))
    BY <1>2, <2>3 DEF CellOfPos, GetChannelId
  <2> QED
    BY <2>2, <2>3
<1> QED
  BY <1>1, <1>2

-----------------------------------------------------------------------------
(* What the operations do to the record of an entity channel.                *)

LEMMA EntityField ==
  ASSUME NEW r, IsEntity(r), NEW v
  PROVE  /\ [r EXCEPT !.state = v] =
              [state |-> v, owner |-> r.owner, pos |-> r.pos, ref |-> r.ref, access |-> r.access, inbox |-> r.inbox]
         /\ [r EXCEPT !.owner = v] =
              [state |-> r.state, owner |-> v, pos |-> r.pos, ref |-> r.ref, access |-> r.access, inbox |-> r.inbox]
         /\ [r EXCEPT !.pos = v] =
              [state |-> r.state, owner |-> r.owner, pos |-> v, ref |-> r.ref, access |-> r.access, inbox |-> r.inbox]
         /\ [r EXCEPT !.ref = v] =
              [state |-> r.state, owner |-> r.owner, pos |-> r.pos, ref |-> v, access |-> r.access, inbox |-> r.inbox]
         /\ [r EXCEPT !.access = v] =
              [state |-> r.state, owner |-> r.owner, pos |-> r.pos, ref |-> r.ref, access |-> v, inbox |-> r.inbox]
         /\ [r EXCEPT !.inbox = v] =
              [state |-> r.state, owner |-> r.owner, pos |-> r.pos, ref |-> r.ref, access |-> r.access, inbox |-> v]
<1>1. \A a, b, c, d, f, g :
        [[state |-> a, owner |-> b, pos |-> c, ref |-> d, access |-> f, inbox |-> g] EXCEPT !.state = v]
        = [state |-> v, owner |-> b, pos |-> c, ref |-> d, access |-> f, inbox |-> g]
  OBVIOUS
<1>2. \A a, b, c, d, f, g :
        [[state |-> a, owner |-> b, pos |-> c, ref |-> d, access |-> f, inbox |-> g] EXCEPT !.owner = v]
        = [state |-> a, owner |-> v, pos |-> c, ref |-> d, access |-> f, inbox |-> g]
  OBVIOUS
<1>3. \A a, b, c, d, f, g :
        [[state |-> a, owner |-> b, pos |-> c, ref |-> d, access |-> f, inbox |-> g] EXCEPT !.pos = v]
        = [state |-> a, owner |-> b, pos |-> v, ref |-> d, access |-> f, inbox |-> g]
  OBVIOUS
<1>4. \A a, b, c, d, f, g :
        [[state |-> a, owner |-> b, pos |-> c, ref |-> d, access |-> f, inbox |-> g] EXCEPT !.ref = v]
        = [state |-> a, owner |-> b, pos |-> c, ref |-> v, access |-> f, inbox |-> g]
  OBVIOUS
<1>5. \A a, b, c, d, f, g :
        [[state |-> a, owner |-> b, pos |-> c, ref |-> d, access |-> f, inbox |-> g] EXCEPT !.access = v]
        = [state |-> a, owner |-> b, pos |-> c, ref |-> d, access |-> v, inbox |-> g]
  OBVIOUS
<1>6. \A a, b, c, d, f, g :
        [[state |-> a, owner |-> b, pos |-> c, ref |-> d, access |-> f, inbox |-> g] EXCEPT !.inbox = v]
        = [state |-> a, owner |-> b, pos |-> c, ref |-> d, access |-> f, inbox |-> v]
  OBVIOUS
<1> QED
  BY <1>1, <1>2, <1>3, <1>4, <1>5, <1>6 DEF IsEntity

LEMMA EntityRecord ==
  ASSUME NEW r, NEW a, NEW b, NEW c, NEW d, NEW f, NEW g,
         r = [state |-> a, owner |-> b, pos |-> c, ref |-> d, access |-> f, inbox |-> g]
  PROVE  /\ IsEntity(r) /\ r.state = a /\ r.owner = b /\ r.pos = c /\ r.ref = d
         /\ r.access = f /\ r.inbox = g
BY DEF IsEntity

\* What an entity channel's subscriptions say, but for connection c.
AccessSet(A, B, c, v) ==
  B \in [Conns -> {"none"} \cup Rights]
  /\ \A d \in Conns : B[d] = IF d = c THEN v ELSE A[d]

\* The fields in which r and t agree.
SameCore(r, t) == t.state = r.state /\ t.owner = r.owner /\ t.access = r.access
SameBut(r, t)  == t.state = r.state /\ t.owner = r.owner /\ t.pos = r.pos

LEMMA AccessChanged ==
  ASSUME NEW r, EntityOK(r), NEW c \in Conns, NEW v \in {"none"} \cup Rights
  PROVE  /\ EntityOK([r EXCEPT !.access[c] = v])
         /\ SameBut(r, [r EXCEPT !.access[c] = v])
         /\ AccessSet(r.access, [r EXCEPT !.access[c] = v].access, c, v)
<1> DEFINE w == [r.access EXCEPT ![c] = v]
           t == [r EXCEPT !.access = w]
<1>1. [r EXCEPT !.access[c] = v] = t
  OBVIOUS
<1>2. IsEntity(r) /\ r.access \in [Conns -> {"none"} \cup Rights]
  BY DEF EntityOK
<1>3. w \in [Conns -> {"none"} \cup Rights] /\ AccessSet(r.access, w, c, v)
  BY <1>2 DEF AccessSet
<1> HIDE DEF w
<1>4. t = [state |-> r.state, owner |-> r.owner, pos |-> r.pos, ref |-> r.ref,
           access |-> w, inbox |-> r.inbox]
  BY <1>2, EntityField
<1> HIDE DEF t
<1>5. /\ IsEntity(t) /\ t.state = r.state /\ t.owner = r.owner /\ t.pos = r.pos /\ t.ref = r.ref
      /\ t.access = w /\ t.inbox = r.inbox
  BY <1>4, EntityRecord
<1> QED
  BY <1>1, <1>3, <1>5 DEF EntityOK, SameBut

LEMMA Subscribes ==
  ASSUME NEW r, EntityOK(r), NEW c \in Conns, NEW v \in {"none"} \cup Rights
  PROVE  /\ EntityOK(Subscribe(r, c, v)) /\ SameBut(r, Subscribe(r, c, v))
         /\ c \in closing => Subscribe(r, c, v) = r
         /\ c \notin closing => AccessSet(r.access, Subscribe(r, c, v).access, c, v)
BY AccessChanged DEF Subscribe, SameBut

LEMMA Unsubscribes ==
  ASSUME NEW r, EntityOK(r), NEW c \in Conns
  PROVE  /\ EntityOK(Unsubscribe(r, c)) /\ SameBut(r, Unsubscribe(r, c))
         /\ AccessSet(r.access, Unsubscribe(r, c).access, c, "none")
BY AccessChanged DEF Unsubscribe

LEMMA OwnerChanged ==
  ASSUME NEW r, EntityOK(r), NEW v \in Senders \cup {NoConn}
  PROVE  LET t == [r EXCEPT !.owner = v]
         IN  EntityOK(t) /\ t.owner = v /\ t.state = r.state /\ t.pos = r.pos /\ t.access = r.access
<1> DEFINE t == [r EXCEPT !.owner = v]
<1>1. IsEntity(r)
  BY DEF EntityOK
<1>2. t = [state |-> r.state, owner |-> v, pos |-> r.pos, ref |-> r.ref,
           access |-> r.access, inbox |-> r.inbox]
  BY <1>1, EntityField
<1> HIDE DEF t
<1>3. /\ IsEntity(t) /\ t.state = r.state /\ t.owner = v /\ t.pos = r.pos /\ t.ref = r.ref
      /\ t.access = r.access /\ t.inbox = r.inbox
  BY <1>2, EntityRecord
<1> QED
  BY <1>3 DEF EntityOK, t

LEMMA InboxChanged ==
  ASSUME NEW r, EntityOK(r), NEW v, IsQueue(v), \A k \in DOMAIN v : EntityWork(v[k])
  PROVE  LET t == [r EXCEPT !.inbox = v]
         IN  EntityOK(t) /\ SameCore(r, t) /\ t.pos = r.pos /\ t.ref = r.ref /\ t.inbox = v
<1> DEFINE t == [r EXCEPT !.inbox = v]
<1>1. IsEntity(r)
  BY DEF EntityOK
<1>2. t = [state |-> r.state, owner |-> r.owner, pos |-> r.pos, ref |-> r.ref,
           access |-> r.access, inbox |-> v]
  BY <1>1, EntityField
<1> HIDE DEF t
<1>3. /\ IsEntity(t) /\ t.state = r.state /\ t.owner = r.owner /\ t.pos = r.pos /\ t.ref = r.ref
      /\ t.access = r.access /\ t.inbox = v
  BY <1>2, EntityRecord
<1> QED
  BY <1>3 DEF EntityOK, SameCore, t

LEMMA InboxAppended ==
  ASSUME NEW r, EntityOK(r), NEW m, EntityWork(m)
  PROVE  LET t == [r EXCEPT !.inbox = Append(r.inbox, m)]
         IN  EntityOK(t) /\ SameCore(r, t) /\ t.pos = r.pos
<1> DEFINE v == Append(r.inbox, m)
<1>1. IsQueue(r.inbox) /\ \A k \in DOMAIN r.inbox : EntityWork(r.inbox[k])
  BY DEF EntityOK
<1> HIDE DEF EntityWork
<1>2. IsQueue(v) /\ \A k \in DOMAIN v : EntityWork(v[k])
  BY <1>1, AppendedWork
<1> HIDE DEF v
<1>3. LET t == [r EXCEPT !.inbox = v]
      IN  EntityOK(t) /\ SameCore(r, t) /\ t.pos = r.pos /\ t.ref = r.ref /\ t.inbox = v
  BY <1>2, InboxChanged
<1> QED
  BY <1>3 DEF v

LEMMA InboxTaken ==
  ASSUME NEW e, EntityOK(entity[e]), entity[e].inbox # <<>>
  PROVE  /\ EntityOK(Popped(e)) /\ SameCore(entity[e], Popped(e)) /\ Popped(e).pos = entity[e].pos
         /\ EntityWork(NextOf(e))
<1> DEFINE r == entity[e]
           v == Tail(r.inbox)
<1>1. IsQueue(r.inbox) /\ \A k \in DOMAIN r.inbox : EntityWork(r.inbox[k])
  BY DEF EntityOK
<1> HIDE DEF EntityWork
<1>2. IsQueue(v) /\ (\A k \in DOMAIN v : EntityWork(v[k])) /\ EntityWork(Head(r.inbox))
  <2>1. 1 \in DOMAIN r.inbox /\ Head(r.inbox) = r.inbox[1]
    BY <1>1, TailOfWork
  <2> HIDE DEF r
  <2>2. r.inbox # <<>>
    BY DEF r
  <2> QED
    BY <1>1, <2>1, <2>2, TailOfWork
<1> HIDE DEF v
<1>3. LET t == [r EXCEPT !.inbox = v]
      IN  EntityOK(t) /\ SameCore(r, t) /\ t.pos = r.pos /\ t.ref = r.ref /\ t.inbox = v
  BY <1>2, InboxChanged
<1>4. Popped(e) = [r EXCEPT !.inbox = v] /\ NextOf(e) = Head(r.inbox)
  BY DEF Popped, NextOf, v
<1> QED
  BY <1>2, <1>3, <1>4

LEMMA PlaceChanged ==
  ASSUME NEW r, EntityOK(r), NEW v \in Positions
  PROVE  LET t == [r EXCEPT !.pos = v]
         IN  EntityOK(t) /\ SameCore(r, t) /\ t.pos = v
<1> DEFINE t == [r EXCEPT !.pos = v]
<1>1. IsEntity(r)
  BY DEF EntityOK
<1>2. t = [state |-> r.state, owner |-> r.owner, pos |-> v, ref |-> r.ref,
           access |-> r.access, inbox |-> r.inbox]
  BY <1>1, EntityField
<1> HIDE DEF t
<1>3. /\ IsEntity(t) /\ t.state = r.state /\ t.owner = r.owner /\ t.pos = v /\ t.ref = r.ref
      /\ t.access = r.access /\ t.inbox = r.inbox
  BY <1>2, EntityRecord
<1> QED
  BY <1>3 DEF EntityOK, SameCore, t

LEMMA RefChanged ==
  ASSUME NEW r, EntityOK(r), NEW v
  PROVE  LET t == [r EXCEPT !.ref = v]
         IN  EntityOK(t) /\ SameCore(r, t) /\ t.pos = r.pos
<1> DEFINE t == [r EXCEPT !.ref = v]
<1>1. IsEntity(r)
  BY DEF EntityOK
<1>2. t = [state |-> r.state, owner |-> r.owner, pos |-> r.pos, ref |-> v,
           access |-> r.access, inbox |-> r.inbox]
  BY <1>1, EntityField
<1> HIDE DEF t
<1>3. /\ IsEntity(t) /\ t.state = r.state /\ t.owner = r.owner /\ t.pos = r.pos /\ t.ref = v
      /\ t.access = r.access /\ t.inbox = r.inbox
  BY <1>2, EntityRecord
<1> QED
  BY <1>3 DEF EntityOK, SameCore, t

\* The record of a new entity: its owner has the access that the message asks for.
LEMMA NewEntityFields ==
  ASSUME NEW owner \in Senders, NEW m, m.pos \in Positions, m.access \in Rights
  PROVE  /\ EntityOK(NewEntity(owner, m))
         /\ NewEntity(owner, m).state = "alive" /\ NewEntity(owner, m).owner = owner
         /\ NewEntity(owner, m).pos = m.pos
         /\ \A d \in Conns : NewEntity(owner, m).access[d] =
              IF d = owner /\ owner \notin closing THEN m.access ELSE "none"
<1> DEFINE none == [c \in Conns |-> "none"]
           r1 == [NoEntity EXCEPT !.state = "alive"]
           r2 == [r1 EXCEPT !.owner = owner]
           r3 == [r2 EXCEPT !.pos = m.pos]
           r4 == [r3 EXCEPT !.ref = m.ref]
<1>1. NewEntity(owner, m) = Subscribe(r4, owner, m.access)
  BY DEF NewEntity
<1>2. none \in [Conns -> {"none"} \cup Rights] /\ \A d \in Conns : none[d] = "none"
  OBVIOUS
<1>3. r1 = [state |-> "alive", owner |-> NoConn, pos |-> NoPos, ref |-> FALSE,
            access |-> none, inbox |-> <<>>]
  <2>1. NoEntity = [state |-> "none", owner |-> NoConn, pos |-> NoPos, ref |-> FALSE,
                    access |-> none, inbox |-> <<>>]
    BY DEF NoEntity
  <2> HIDE DEF none
  <2>2. /\ IsEntity(NoEntity) /\ NoEntity.owner = NoConn /\ NoEntity.pos = NoPos
        /\ NoEntity.ref = FALSE /\ NoEntity.access = none /\ NoEntity.inbox = <<>>
    BY <2>1, EntityRecord
  <2>3. \A v : [NoEntity EXCEPT !.state = v] =
          [state |-> v, owner |-> NoEntity.owner, pos |-> NoEntity.pos, ref |-> NoEntity.ref,
           access |-> NoEntity.access, inbox |-> NoEntity.inbox]
    BY <2>2, EntityField
  <2>4. r1 = [state |-> "alive", owner |-> NoEntity.owner, pos |-> NoEntity.pos,
              ref |-> NoEntity.ref, access |-> NoEntity.access, inbox |-> NoEntity.inbox]
    BY <2>3
  <2> HIDE DEF r1
  <2> QED
    BY <2>2, <2>4
<1> HIDE DEF none, r1
<1>4. IsQueue(<<>>) /\ \A k \in DOMAIN <<>> : EntityWork(<<>>[k])
  BY NoWork
<1>5. EntityOK(r1) /\ r1.state = "alive" /\ r1.access = none
  <2>1. /\ IsEntity(r1) /\ r1.state = "alive" /\ r1.owner = NoConn /\ r1.pos = NoPos
        /\ r1.access = none /\ r1.inbox = <<>>
    BY <1>3, EntityRecord
  <2>2. NoPos \in Positions
    BY DEF Positions
  <2> QED
    BY <1>2, <1>4, <2>1, <2>2 DEF EntityOK
<1>6. EntityOK(r2) /\ r2.state = "alive" /\ r2.owner = owner /\ r2.access = none
  BY <1>5, OwnerChanged
<1> HIDE DEF r2
<1>7. EntityOK(r3) /\ r3.state = "alive" /\ r3.owner = owner /\ r3.access = none /\ r3.pos = m.pos
  BY <1>6, PlaceChanged DEF SameCore
<1> HIDE DEF r3
<1>8. EntityOK(r4) /\ r4.state = "alive" /\ r4.owner = owner /\ r4.access = none /\ r4.pos = m.pos
  BY <1>7, RefChanged DEF SameCore
<1> HIDE DEF r4
<1>9. owner \in Conns
  BY DEF Senders, Conns
<1>10. /\ EntityOK(Subscribe(r4, owner, m.access)) /\ SameBut(r4, Subscribe(r4, owner, m.access))
       /\ owner \in closing => Subscribe(r4, owner, m.access) = r4
       /\ owner \notin closing =>
            AccessSet(r4.access, Subscribe(r4, owner, m.access).access, owner, m.access)
  BY <1>8, <1>9, Subscribes
<1> QED
  BY <1>1, <1>2, <1>8, <1>10 DEF SameBut, AccessSet

\* E is F but for the record of e, which is r.
EntitySet(E, F, e, r) ==
  F = [x \in Entities |-> F[x]] /\ \A x \in Entities : F[x] = IF x = e THEN r ELSE E[x]

LEMMA EntityReplaced ==
  ASSUME NEW E, EntitiesOK(E), NEW e \in Entities, NEW r
  PROVE  EntitySet(E, [E EXCEPT ![e] = r], e, r)
<1>1. E = [x \in Entities |-> E[x]]
  BY DEF EntitiesOK
<1> QED
  BY <1>1 DEF EntitySet

LEMMA EntitySetOK ==
  ASSUME NEW E, EntitiesOK(E), NEW e \in Entities, NEW r, EntityOK(r),
         NEW F, EntitySet(E, F, e, r)
  PROVE  EntitiesOK(F)
BY DEF EntitiesOK, EntitySet

\* RemoveChannel of an entity channel.
LEMMA EntityGone ==
  ASSUME EntitiesOK(entity), NEW e \in Entities
  PROVE  LET r == [[entity[e] EXCEPT !.state = "gone"] EXCEPT !.inbox = <<>>]
         IN  /\ [entity EXCEPT ![e].state = "gone", ![e].inbox = <<>>] = [entity EXCEPT ![e] = r]
             /\ EntityOK(r) /\ r.state = "gone" /\ r.owner = entity[e].owner
             /\ r.pos = entity[e].pos /\ r.access = entity[e].access
<1> DEFINE p == [entity[e] EXCEPT !.state = "gone"]
           r == [p EXCEPT !.inbox = <<>>]
<1>1. entity = [x \in Entities |-> entity[x]] /\ EntityOK(entity[e])
  BY DEF EntitiesOK
<1>2. [entity EXCEPT ![e].state = "gone", ![e].inbox = <<>>] = [entity EXCEPT ![e] = r]
  BY <1>1
<1>3. p = [state |-> "gone", owner |-> entity[e].owner, pos |-> entity[e].pos,
           ref |-> entity[e].ref, access |-> entity[e].access, inbox |-> entity[e].inbox]
  BY <1>1, EntityField DEF EntityOK
<1> HIDE DEF p
<1>4. /\ IsEntity(p) /\ p.state = "gone" /\ p.owner = entity[e].owner /\ p.pos = entity[e].pos
      /\ p.access = entity[e].access /\ p.inbox = entity[e].inbox
  BY <1>3, EntityRecord
<1>5. EntityOK(p)
  BY <1>1, <1>4 DEF EntityOK
<1>6. IsQueue(<<>>) /\ \A k \in DOMAIN <<>> : EntityWork(<<>>[k])
  BY NoWork
<1>7. EntityOK(r) /\ SameCore(p, r) /\ r.pos = p.pos
  BY <1>5, <1>6, InboxChanged
<1> HIDE DEF r
<1>8. EntityOK(r) /\ r.state = "gone" /\ r.owner = entity[e].owner
      /\ r.pos = entity[e].pos /\ r.access = entity[e].access
  BY <1>4, <1>7 DEF SameCore
<1> QED
  BY <1>2, <1>8 DEF p, r

\* What RemoveEntity leaves of the entity channels.
Removed(e) ==
  /\ EntitiesOK(entity')
  /\ \A x \in Entities :
       /\ entity'[x].state = IF x = e /\ e \in Alive THEN "gone" ELSE entity[x].state
       /\ entity'[x].owner = entity[x].owner /\ entity'[x].pos = entity[x].pos
       /\ entity'[x].access = entity[x].access

LEMMA RemoveEntityChanges ==
  ASSUME EntitiesOK(entity), NEW e \in Entities, RemoveEntity(e)
  PROVE  Removed(e)
<1>1. CASE e \in Alive
  <2> DEFINE r == [[entity[e] EXCEPT !.state = "gone"] EXCEPT !.inbox = <<>>]
  <2>1. /\ [entity EXCEPT ![e].state = "gone", ![e].inbox = <<>>] = [entity EXCEPT ![e] = r]
        /\ EntityOK(r) /\ r.state = "gone" /\ r.owner = entity[e].owner
        /\ r.pos = entity[e].pos /\ r.access = entity[e].access
    BY EntityGone
  <2>2. entity' = [entity EXCEPT ![e] = r]
    BY <1>1, <2>1 DEF RemoveEntity
  <2> HIDE DEF r
  <2>3. EntitySet(entity, entity', e, r)
    BY <2>2, EntityReplaced
  <2>4. EntitiesOK(entity')
    BY <2>1, <2>3, EntitySetOK
  <2> QED
    BY <1>1, <2>1, <2>3, <2>4 DEF Removed, EntitySet
<1>2. CASE e \notin Alive
  BY <1>2 DEF RemoveEntity, Removed
<1> QED
  BY <1>1, <1>2

-----------------------------------------------------------------------------
(* The messages that servers send.                                           *)

LEMMA DeliveredFields ==
  ASSUME NEW s, NEW m
  PROVE  /\ Delivered(s, m).from = s
         /\ \A k \in DOMAIN m : k # "from" => Delivered(s, m)[k] = m[k]
BY DEF Delivered

\* A message of a scenario has the fields its handlers read.
LEMMA MessageTypes ==
  ASSUME scenario \in Scenarios, NEW s \in Senders, NEW m \in Range(scenario.sends[s])
  PROVE  /\ m.kind = "global" => GlobalWork(Delivered(s, m))
         /\ m.kind = "spatial" => SpatialWork(Delivered(s, m)) /\ m.ch \in Cells
         /\ m.kind = "entity" => EntityWork(Delivered(s, m)) /\ m.ch \in Entities
<1>1. m \in Messages(grid, s)
  <2>1. scenario.sends[s] \in Seq(Messages(grid, s))
    BY HandoverAssumption DEF grid
  <2> QED
    BY <2>1 DEF Range
<1>2. m.type \in {"createEntity", "update"} => m.pos \in Positions
  BY DEF Positions, Senders
<1>3. CASE m \in GlobalMessages(s)
  <2>1. CASE m \in [kind : {"global"}, type : {"createEntity"}, entity : Entities, pos : Points,
                    ref : BOOLEAN, access : Rights]
    <3>1. /\ DOMAIN m = {"kind", "type", "entity", "pos", "ref", "access"}
          /\ m.kind = "global" /\ m.type = "createEntity" /\ m.entity \in Entities
          /\ m.access \in Rights
      BY <2>1
    <3> QED
      BY <1>2, <3>1, DeliveredFields DEF GlobalWork
  <2>2. CASE m \in [kind : {"global"}, type : {"createSpatial"}] /\ s \in Servers
    <3>1. DOMAIN m = {"kind", "type"} /\ m.kind = "global" /\ m.type = "createSpatial"
      BY <2>2
    <3> QED
      BY <2>2, <3>1, DeliveredFields DEF GlobalWork
  <2> QED
    BY <1>3, <2>1, <2>2 DEF GlobalMessages
<1>4. CASE m \in SpatialMessages(grid)
  <2>1. CASE m \in [kind : {"spatial"}, ch : CellsOf(grid), type : {"createEntity"},
                    entity : Entities, pos : Points, ref : BOOLEAN, access : Rights]
    <3>1. /\ DOMAIN m = {"kind", "ch", "type", "entity", "pos", "ref", "access"} /\ m.ch \in Cells
          /\ m.kind = "spatial" /\ m.type = "createEntity" /\ m.entity \in Entities
          /\ m.access \in Rights
      BY <2>1 DEF Cells
    <3> QED
      BY <1>2, <3>1, DeliveredFields DEF SpatialWork
  <2>2. CASE m \in [kind : {"spatial"}, ch : CellsOf(grid), type : {"spawn"}, entity : Entities,
                    pos : Points, chId : CellsOf(grid) \cup {NoCell}]
    <3>1. /\ DOMAIN m = {"kind", "ch", "type", "entity", "pos", "chId"} /\ m.ch \in Cells
          /\ m.kind = "spatial" /\ m.type = "spawn" /\ m.entity \in Entities /\ m.pos \in Points
      BY <2>2 DEF Cells
    <3> QED
      BY <3>1, DeliveredFields DEF SpatialWork
  <2>3. CASE m \in [kind : {"spatial"}, ch : CellsOf(grid), type : {"destroy"}, entity : Entities]
    <3>1. /\ DOMAIN m = {"kind", "ch", "type", "entity"} /\ m.ch \in Cells
          /\ m.kind = "spatial" /\ m.type = "destroy" /\ m.entity \in Entities
      BY <2>3 DEF Cells
    <3> QED
      BY <3>1, DeliveredFields DEF SpatialWork
  <2>4. CASE m \in [kind : {"spatial"}, ch : CellsOf(grid), type : {"interest"}, client : Clients,
                    query : Queries]
    <3>1. /\ DOMAIN m = {"kind", "ch", "type", "client", "query"} /\ m.ch \in Cells
          /\ m.kind = "spatial" /\ m.type = "interest" /\ m.client \in Clients
          /\ m.query \in Queries
      BY <2>4 DEF Cells
    <3> QED
      BY <3>1, DeliveredFields DEF SpatialWork
  <2> QED
    BY <1>4, <2>1, <2>2, <2>3, <2>4 DEF SpatialMessages
<1>5. CASE m \in EntityMessages
  <2>1. CASE m \in [kind : {"entity"}, ch : Entities, type : {"update"}, pos : Locations]
    <3>1. /\ DOMAIN m = {"kind", "ch", "type", "pos"} /\ m.ch \in Entities
          /\ m.kind = "entity" /\ m.type = "update"
      BY <2>1
    <3> QED
      BY <1>2, <3>1, DeliveredFields DEF EntityWork
  <2>2. CASE m \in [kind : {"entity"}, ch : Entities, type : {"addGroup", "removeGroup"},
                    group : {"handover", "lock"}, list : Seq(Entities)]
    <3>1. /\ DOMAIN m = {"kind", "ch", "type", "group", "list"} /\ m.ch \in Entities
          /\ m.kind = "entity" /\ m.type \in {"addGroup", "removeGroup"}
      BY <2>2
    <3> QED
      BY <3>1, DeliveredFields DEF EntityWork
  <2> QED
    BY <1>5, <2>1, <2>2 DEF EntityMessages
<1> QED
  BY <1>1, <1>3, <1>4, <1>5 DEF Messages

\* Locations are points: of the scenario's messages and of its first entities.
LEMMA PositionsArePoints ==
  ASSUME scenario \in Scenarios
  PROVE  Positions \subseteq Points
<1>1. ASSUME NEW s \in Senders, NEW m \in Range(scenario.sends[s]),
             m.type \in {"createEntity", "update"}
      PROVE  m.pos \in Points
  <2>1. m \in Messages(grid, s)
    <3>1. scenario.sends[s] \in Seq(Messages(grid, s))
      BY HandoverAssumption DEF grid
    <3> QED
      BY <3>1 DEF Range
  <2> QED
    BY <1>1, <2>1 DEF Messages, GlobalMessages, SpatialMessages, EntityMessages, Points
<1>2. Range(scenario.placed) \subseteq Points
  <2>1. scenario.placed \in [Entities -> Points]
    BY HandoverAssumption
  <2> QED
    BY <2>1 DEF Range
<1>3. NoPos \in Points
  BY DEF Points
<1> QED
  BY <1>1, <1>2, <1>3 DEF Positions, Senders

\* The current instance of a channel that exists was created.
LEMMA CurrentBorn ==
  ASSUME GridInv, NEW c \in Cells, Exists(c)
  PROVE  Current(c) \in Instances /\ Born(Current(c)) /\ Current(c)[1] = c
<1>1. Current(c) \in Instances
  BY CurrentInstance DEF GridInv
<1>2. current[c] <= current[c]
  BY CellsInTable, HandoverAssumption DEF GridInv
<1> QED
  BY <1>1, <1>2 DEF Born, Current

\* Constants are connections of one kind or another.
LEMMA Kinds ==
  /\ Servers \subseteq Senders /\ Senders \subseteq Conns /\ Clients \subseteq Conns
  /\ Servers \subseteq Conns /\ NoConn \notin Conns
BY HandoverAssumption DEF Senders, Conns

-----------------------------------------------------------------------------
(* Every step keeps the types.                                               *)

LEMMA HeadAndTail ==
  ASSUME NEW R, NEW q \in Seq(R), q # <<>>
  PROVE  Head(q) \in R /\ Tail(q) \in Seq(R)
OBVIOUS

LEMMA SendTypes ==
  ASSUME TypeInv, GridInv', NEW s \in Senders, Send(s)
  PROVE  TypeInv'
<1> DEFINE m == Head(sends[s])
           put == Delivered(s, m)
<1>1. /\ scenario' = scenario /\ current' = current /\ closing' = closing /\ creating' = creating
      /\ serverConnections' = serverConnections /\ interest' = interest /\ notify' = notify
  BY DEF Send, worldVars
<1>2. sends[s] \in Seq(Range(scenario.sends[s])) /\ sends[s] # <<>>
  BY DEF TypeInv, SendersOK, Send
<1>3. m \in Range(scenario.sends[s]) /\ Tail(sends[s]) \in Seq(Range(scenario.sends[s]))
  BY <1>2, HeadAndTail
<1>4. /\ m.kind = "global" => GlobalWork(put)
      /\ m.kind = "spatial" => SpatialWork(put) /\ m.ch \in Cells
      /\ m.kind = "entity" => EntityWork(put) /\ m.ch \in Entities
  BY <1>3, MessageTypes DEF TypeInv, GridInv
<1>5. SendersOK(sends', closing')
  <2>1. sends' = [sends EXCEPT ![s] = Tail(sends[s])]
    BY DEF Send
  <2> HIDE DEF m, put
  <2> QED
    BY <1>1, <1>3, <2>1 DEF TypeInv, SendersOK
<1>6. GlobalOK(globalQueue')
  <2>1. globalQueue' = IF m.kind = "global" THEN Append(globalQueue, put) ELSE globalQueue
    BY DEF Send
  <2>2. GlobalOK(globalQueue)
    BY DEF TypeInv
  <2> HIDE DEF m, put
  <2>3. m.kind = "global" => GlobalOK(Append(globalQueue, put))
    <3> HIDE DEF GlobalWork
    <3> QED
      BY <1>4, <2>2, AppendedWork DEF GlobalOK
  <2> QED
    BY <2>1, <2>2, <2>3
<1>7. ChannelsOK(spatial')
  <2>1. CASE m.kind = "spatial" /\ Exists(m.ch)
    <3>1. spatial' = Execute(spatial, Current(m.ch), put)
      BY <2>1 DEF Send
    <3>2. Current(m.ch) \in Instances /\ Born(Current(m.ch)) /\ SpatialWork(put)
      BY <1>4, <2>1, CurrentBorn DEF TypeInv
    <3> HIDE DEF m, put
    <3>3. QueueSet(spatial, spatial', Current(m.ch), Append(spatial[Current(m.ch)].queue, put))
      BY <3>1, <3>2, ExecuteChanges DEF TypeInv, ChannelsOK
    <3> QED
      BY <3>2, <3>3, QueuedOK DEF TypeInv
  <2>2. CASE ~(m.kind = "spatial" /\ Exists(m.ch))
    BY <2>2 DEF Send, TypeInv
  <2> QED
    BY <2>1, <2>2
<1>8. EntitiesOK(entity') /\ \A x \in Entities : entity'[x].state = entity[x].state
  <2>1. CASE m.kind = "entity" /\ m.ch \in Alive
    <3> DEFINE r == [entity[m.ch] EXCEPT !.inbox = Append(entity[m.ch].inbox, put)]
    <3>1. entity' = [entity EXCEPT ![m.ch] = r]
      BY <2>1 DEF Send
    <3>2. EntityOK(r) /\ r.state = entity[m.ch].state
      BY <1>4, <2>1, InboxAppended DEF TypeInv, EntitiesOK, SameCore
    <3> HIDE DEF r, put
    <3>3. EntitySet(entity, entity', m.ch, r)
      BY <1>4, <2>1, <3>1, EntityReplaced DEF TypeInv
    <3> QED
      BY <1>4, <2>1, <3>2, <3>3, EntitySetOK DEF TypeInv, EntitySet
  <2>2. CASE ~(m.kind = "entity" /\ m.ch \in Alive)
    BY <2>2 DEF Send, TypeInv
  <2> QED
    BY <2>1, <2>2
<1>9. NotifiesOK(notify', entity')
  BY <1>1, <1>8 DEF TypeInv, NotifiesOK
<1> QED
  BY <1>1, <1>5, <1>6, <1>7, <1>8, <1>9, TypesKept DEF TypeInv

LEMMA CloseTypes ==
  ASSUME TypeInv, GridInv', NEW c \in Conns, Close(c)
  PROVE  TypeInv'
<1>1. SendersOK(sends', closing')
  BY DEF Close, TypeInv, SendersOK
<1> QED
  BY <1>1, TypesKept DEF Close, TypeInv, worldVars, entityVars

LEMMA SubscribeCreatedTypes ==
  ASSUME TypeInv, GridInv', SubscribeCreated
  PROVE  TypeInv'
<1> DEFINE own == {c \in Cells : Exists(c) /\ spatial[Current(c)].owner = creating}
           channel(i) == IF i[1] \in own /\ i = Current(i[1])
                         THEN [spatial[i] EXCEPT !.subs = spatial[i].subs \cup {creating}]
                         ELSE spatial[i]
<1>1. /\ scenario' = scenario /\ current' = current /\ closing' = closing /\ creating' = NoConn
      /\ serverConnections' = serverConnections /\ notify' = notify /\ entity' = entity
      /\ sends' = sends /\ globalQueue' = globalQueue
  BY DEF SubscribeCreated, entityVars
<1>2. creating \in Servers
  BY DEF SubscribeCreated, TypeInv, ServersOK
<1>3. /\ ChannelsOK(spatial')
      /\ interest' \in [Conns -> SUBSET Cells]
  <2>1. CASE creating \in closing
    BY <2>1 DEF SubscribeCreated, TypeInv, ServersOK
  <2>2. CASE creating \notin closing
    <3>1. /\ spatial' = [i \in Instances |-> channel(i)]
          /\ interest' = [interest EXCEPT ![creating] = interest[creating] \cup own]
      BY <2>2 DEF SubscribeCreated
    <3>2. interest' \in [Conns -> SUBSET Cells]
      BY <1>2, <3>1, Kinds DEF TypeInv, ServersOK
    <3>3. ASSUME NEW i \in Instances PROVE IsChannel(channel(i)) /\ ChannelOK(spatial', i)
      <4>1. IsChannel(spatial[i]) /\ ChannelOK(spatial, i)
        BY DEF TypeInv, ChannelsOK, Channels
      <4>2. CASE i[1] \in own /\ i = Current(i[1])
        <5>1. channel(i) = [owner |-> spatial[i].owner, subs |-> spatial[i].subs \cup {creating},
                            entities |-> spatial[i].entities, queue |-> spatial[i].queue]
          BY <4>1, <4>2, ChannelField
        <5>2. Born(i)
          BY <4>2, CurrentBorn DEF TypeInv
        <5>3. spatial'[i] = channel(i)
          BY <3>1
        <5> HIDE DEF channel
        <5>4. /\ IsChannel(channel(i)) /\ channel(i).owner = spatial[i].owner
              /\ channel(i).subs = spatial[i].subs \cup {creating}
              /\ channel(i).entities = spatial[i].entities /\ channel(i).queue = spatial[i].queue
          BY <5>1, ChannelRecord
        <5> QED
          BY <1>2, <4>1, <5>2, <5>3, <5>4, Kinds DEF ChannelOK
      <4>3. CASE ~(i[1] \in own /\ i = Current(i[1]))
        BY <3>1, <4>1, <4>3 DEF ChannelOK
      <4> QED
        BY <4>2, <4>3
    <3>4. Channels(spatial')
      <4> HIDE DEF channel
      <4> QED
        BY <3>1, <3>3 DEF Channels
    <3> QED
      BY <3>2, <3>3, <3>4 DEF ChannelsOK
  <2> QED
    BY <2>1, <2>2
<1>4. ServersOK(creating', serverConnections', interest')
  BY <1>1, <1>3 DEF TypeInv, ServersOK
<1> QED
  BY <1>1, <1>3, <1>4, TypesKept DEF TypeInv

LEMMA ControllerTickTypes ==
  ASSUME TypeInv, GridInv', ControllerTick
  PROVE  TypeInv'
<1>1. DOMAIN serverConnections = ServerIndexes(grid)
  BY DEF TypeInv, GridInv
<1>2. ServersOK(creating', serverConnections', interest')
  BY <1>1 DEF ControllerTick, TypeInv, ServersOK
<1> QED
  BY <1>2, TypesKept DEF ControllerTick, TypeInv, entityVars

\* The channels at some columns and rows are in the world, or NoCell.
LEMMA CellsAtInWorld ==
  ASSUME NEW g \in Grids, NEW cols \in SUBSET Int, NEW rows \in SUBSET Int
  PROVE  CellsAt(g, cols, rows) \subseteq CellsOf(g) \cup {NoCell}
<1> SUFFICES ASSUME NEW c \in CellsAt(g, cols, rows) PROVE c \in CellsOf(g) \cup {NoCell}
  OBVIOUS
<1>1. PICK col \in cols, row \in rows : c = ChannelAt(g, col, row)
  BY DEF CellsAt
<1>2. col \in Int /\ row \in Int
  OBVIOUS
<1> QED
  BY <1>1, <1>2, CornerCell, PlaceOfCell

\* So are the channels a server subscribes to on its border.
LEMMA BorderInWorld ==
  ASSUME NEW g \in Grids, NEW i \in ServerIndexes(g)
  PROVE  BorderOf(g, i) \subseteq CellsOf(g) \cup {NoCell}
<1> DEFINE W == CellsOf(g) \cup {NoCell}
<1>1. OwnCols(g, i) \in SUBSET Int /\ OwnRows(g, i) \in SUBSET Int
  BY OwnAreasAreIntegers
<1>2. \A cols, rows \in SUBSET Int : CellsAt(g, cols, rows) \subseteq W
  BY CellsAtInWorld
<1>3. \A a, b : a..b \in SUBSET Int
  OBVIOUS
<1> HIDE DEF W
<1>4. \A a, b : CellsAt(g, a..b, OwnRows(g, i)) \subseteq W /\ CellsAt(g, OwnCols(g, i), a..b) \subseteq W
  BY <1>1, <1>2, <1>3
<1> QED
  BY <1>4 DEF BorderOf, W

\* When no index is free every server is live.
LEMMA CompleteIsLive ==
  ASSUME NEW conns, conns = [i \in ServerIndexes(grid) |-> conns[i]], grid \in Grids,
         NextServerIndex(conns) = ServerCount(grid)
  PROVE  FreeIndexes(conns) = {} /\ \A i \in ServerIndexes(grid) : Live(conns[i])
<1>1. DOMAIN conns = ServerIndexes(grid)
  OBVIOUS
<1>2. FreeIndexes(conns) \subseteq ServerIndexes(grid)
  BY <1>1 DEF FreeIndexes
<1>3. FreeIndexes(conns) = {}
  <2>1. SUFFICES ASSUME FreeIndexes(conns) # {} PROVE FALSE
    OBVIOUS
  <2>2. ServerIndexes(grid) \subseteq Nat
    BY DEF ServerIndexes
  <2>3. \E i \in FreeIndexes(conns) : \A j \in FreeIndexes(conns) : i <= j
    BY <1>2, <2>1, <2>2, LeastNatural
  <2>4. NextServerIndex(conns) \in ServerIndexes(grid)
    BY <1>2, <2>1, <2>3 DEF NextServerIndex
  <2>5. ServerCount(grid) \in Int
    BY DEF ServerCount, Grids
  <2> QED
    BY <2>4, <2>5 DEF ServerIndexes
<1> QED
  BY <1>1, <1>3 DEF FreeIndexes

\* Did the server that GLOBAL handles create channels?
Creates ==
  LET idx == NextServerIndex(serverConnections)
  IN idx # ServerCount(grid) /\ NoCell \notin ChannelsOfServer(grid, idx)

Creator  == Head(globalQueue).from
NewIndex == NextServerIndex(serverConnections)
Made     == ChannelsOfServer(grid, NewIndex)
NewConns == [serverConnections EXCEPT ![NewIndex] = Creator]
NewCurrent == [c \in DOMAIN current |-> current[c] + (IF c \in Made THEN 1 ELSE 0)]
NewSubscribed ==
  IF NextServerIndex(NewConns) = ServerCount(grid) THEN BorderSubscribed(NewCurrent, NewConns)
  ELSE {}
NewSubscribers(c) == {NewConns[i] : i \in {j \in NewSubscribed : c \in BorderOf(grid, j)}}
NewInstance(i)   == i[1] \in Made /\ i[2] = NewCurrent[i[1]]
NewestOfCell(i)  == i[1] \in Cells /\ i[2] = NewCurrent[i[1]]

\* A creation that is not refused, field by field.
Creation ==
  /\ NewIndex \in ServerIndexes(grid) /\ ~Live(serverConnections[NewIndex])
  /\ Made \subseteq Cells
  /\ serverConnections' = NewConns
  /\ NewConns = [i \in ServerIndexes(grid) |-> NewConns[i]]
  /\ \A i \in ServerIndexes(grid) :
       NewConns[i] = IF i = NewIndex THEN Creator ELSE serverConnections[i]
  /\ current' = NewCurrent
  /\ NewCurrent \in [0..(MaxCells - 1) -> 0..MaxGen]
  /\ \A c \in 0..(MaxCells - 1) : NewCurrent[c] = current[c] + (IF c \in Made THEN 1 ELSE 0)
  /\ NewSubscribed \subseteq ServerIndexes(grid)
  /\ \A i \in NewSubscribed : BorderOf(grid, i) \subseteq Cells /\ Live(NewConns[i])
  /\ Channels(spatial')
  /\ \A i \in Instances :
       /\ spatial'[i].owner = IF NewInstance(i) THEN Creator ELSE spatial[i].owner
       /\ spatial'[i].subs = (IF NewInstance(i) THEN {} ELSE spatial[i].subs)
                             \cup (IF NewestOfCell(i) THEN NewSubscribers(i[1]) ELSE {})
       /\ spatial'[i].entities = IF NewInstance(i) THEN {} ELSE spatial[i].entities
       /\ spatial'[i].queue = IF NewInstance(i) THEN <<>> ELSE spatial[i].queue
  /\ interest' = [c \in Conns |->
       interest[c] \cup UNION {BorderOf(grid, i) : i \in {j \in NewSubscribed : NewConns[j] = c}}]
  /\ creating' = IF /\ NextServerIndex(NewConns) = ServerCount(grid)
                    /\ \E i \in DOMAIN NewConns : BorderFails(NewCurrent, i)
                 THEN NoConn ELSE Creator

LEMMA CreationChanges ==
  ASSUME TypeInv, HandleCreateSpatial
  PROVE  /\ Creates => Creation
         /\ ~Creates => UNCHANGED <<worldVars, spatial, interest>>
<1>1. CreateChannels(Creator)
  BY DEF HandleCreateSpatial, Creator
<1>2. ASSUME ~Creates PROVE UNCHANGED <<worldVars, spatial, interest>>
  BY <1>1, <1>2 DEF Creates, CreateChannels
<1>3. ASSUME Creates PROVE Creation
  <2> DEFINE base(i) == IF NewInstance(i) THEN NewSpatial(Creator) ELSE spatial[i]
             all(i) == IF NewestOfCell(i)
                       THEN [base(i) EXCEPT !.subs = base(i).subs \cup NewSubscribers(i[1])]
                       ELSE base(i)
  <2>1. /\ NewIndex # ServerCount(grid) /\ NoCell \notin Made
        /\ serverConnections' = NewConns /\ current' = NewCurrent
        /\ spatial' = [i \in Instances |-> all(i)]
        /\ interest' = [c \in Conns |->
             interest[c] \cup UNION {BorderOf(grid, i) : i \in {j \in NewSubscribed : NewConns[j] = c}}]
        /\ creating' = IF /\ NextServerIndex(NewConns) = ServerCount(grid)
                          /\ \E i \in DOMAIN NewConns : BorderFails(NewCurrent, i)
                       THEN NoConn ELSE Creator
    BY <1>1, <1>3 DEF Creates, CreateChannels, NewIndex, Made, NewConns, NewCurrent,
       NewSubscribed, NewSubscribers, NewInstance, NewestOfCell
  <2>2. grid \in Grids /\ Cells \subseteq 0..(MaxCells - 1)
    BY CellsInTable DEF TypeInv, GridInv
  <2>3. /\ serverConnections = [i \in ServerIndexes(grid) |-> serverConnections[i]]
        /\ current \in [0..(MaxCells - 1) -> 0..MaxGen]
    BY DEF TypeInv, GridInv
  <2>4. NewIndex \in ServerIndexes(grid) /\ ~Live(serverConnections[NewIndex])
    BY <2>1, <2>2, <2>3, NextServerIndexIsFree DEF NewIndex
  <2>5. Made \subseteq Cells
    BY <2>1, <2>2, <2>4, ChannelsInWorld DEF Made, Cells
  <2>6. /\ NewConns = [i \in ServerIndexes(grid) |-> NewConns[i]]
        /\ \A i \in ServerIndexes(grid) :
             NewConns[i] = IF i = NewIndex THEN Creator ELSE serverConnections[i]
    BY <2>3 DEF NewConns
  <2>7. /\ NewCurrent \in [0..(MaxCells - 1) -> 0..MaxGen]
        /\ \A c \in 0..(MaxCells - 1) : NewCurrent[c] = current[c] + (IF c \in Made THEN 1 ELSE 0)
    <3>1. \A c \in Cells : current[c] < MaxGen
      BY DEF HandleCreateSpatial
    <3> QED
      BY <2>2, <2>3, <2>5, <3>1, HandoverAssumption DEF NewCurrent
  <2>8. /\ NewSubscribed \subseteq ServerIndexes(grid)
        /\ \A i \in NewSubscribed : BorderOf(grid, i) \subseteq Cells /\ Live(NewConns[i])
    <3>1. CASE NextServerIndex(NewConns) = ServerCount(grid)
      <4>1. \A i \in ServerIndexes(grid) : Live(NewConns[i])
        BY <2>2, <2>6, <3>1, CompleteIsLive
      <4>2. NewSubscribed = BorderSubscribed(NewCurrent, NewConns)
        BY <3>1 DEF NewSubscribed
      <4>3. NewSubscribed \subseteq ServerIndexes(grid)
        BY <2>6, <4>2 DEF BorderSubscribed
      <4>4. ASSUME NEW i \in NewSubscribed PROVE BorderOf(grid, i) \subseteq Cells
        <5>1. i \in ServerIndexes(grid) /\ i \in 0..i
          BY <4>3 DEF ServerIndexes
        <5>2. ~BorderFails(NewCurrent, i) /\ grid.border > 0
          BY <4>2, <5>1 DEF BorderSubscribed
        <5>3. NoCell \notin BorderOf(grid, i)
          BY <5>2 DEF BorderFails
        <5> QED
          BY <2>2, <5>1, <5>3, BorderInWorld DEF Cells
      <4> QED
        BY <4>1, <4>3, <4>4
    <3>2. CASE NextServerIndex(NewConns) # ServerCount(grid)
      BY <3>2 DEF NewSubscribed
    <3> QED
      BY <3>1, <3>2
  <2> HIDE DEF NewConns, NewCurrent
  <2>9. ASSUME NEW i \in Instances
        PROVE  /\ IsChannel(base(i))
               /\ base(i).owner = IF NewInstance(i) THEN Creator ELSE spatial[i].owner
               /\ base(i).subs = IF NewInstance(i) THEN {} ELSE spatial[i].subs
               /\ base(i).entities = IF NewInstance(i) THEN {} ELSE spatial[i].entities
               /\ base(i).queue = IF NewInstance(i) THEN <<>> ELSE spatial[i].queue
    BY DEF TypeInv, GridInv, Channels, NewSpatial, IsChannel
  <2> HIDE DEF base
  <2>10. ASSUME NEW i \in Instances
         PROVE  /\ IsChannel(all(i)) /\ all(i).owner = base(i).owner
                /\ all(i).subs = base(i).subs \cup (IF NewestOfCell(i) THEN NewSubscribers(i[1]) ELSE {})
                /\ all(i).entities = base(i).entities /\ all(i).queue = base(i).queue
    <3> DEFINE more == base(i).subs \cup NewSubscribers(i[1])
               r == [base(i) EXCEPT !.subs = more]
    <3>1. r = [owner |-> base(i).owner, subs |-> more, entities |-> base(i).entities,
               queue |-> base(i).queue]
      BY <2>9, ChannelField
    <3>2. all(i) = IF NewestOfCell(i) THEN r ELSE base(i)
      OBVIOUS
    <3> HIDE DEF r
    <3>3. /\ IsChannel(r) /\ r.owner = base(i).owner /\ r.subs = more
          /\ r.entities = base(i).entities /\ r.queue = base(i).queue
      BY <3>1, ChannelRecord
    <3> HIDE DEF all
    <3> QED
      BY <2>9, <3>2, <3>3
  <2> HIDE DEF all
  <2>11. /\ Channels(spatial')
         /\ \A i \in Instances :
              /\ spatial'[i].owner = IF NewInstance(i) THEN Creator ELSE spatial[i].owner
              /\ spatial'[i].subs = (IF NewInstance(i) THEN {} ELSE spatial[i].subs)
                                    \cup (IF NewestOfCell(i) THEN NewSubscribers(i[1]) ELSE {})
              /\ spatial'[i].entities = IF NewInstance(i) THEN {} ELSE spatial[i].entities
              /\ spatial'[i].queue = IF NewInstance(i) THEN <<>> ELSE spatial[i].queue
    BY <2>1, <2>9, <2>10 DEF Channels
  <2> QED
    BY <2>1, <2>4, <2>5, <2>6, <2>7, <2>8, <2>11 DEF Creation
<1> QED
  BY <1>2, <1>3

LEMMA GlobalTaken ==
  ASSUME GlobalOK(globalQueue), NEW type, TakeGlobal(type)
  PROVE  /\ GlobalOK(globalQueue') /\ GlobalWork(Head(globalQueue))
         /\ Head(globalQueue).type = type
<1>1. /\ IsQueue(globalQueue) /\ globalQueue # <<>> /\ globalQueue' = Tail(globalQueue)
      /\ Head(globalQueue).type = type
  BY DEF GlobalOK, TakeGlobal
<1>2. 1 \in DOMAIN globalQueue /\ Head(globalQueue) = globalQueue[1]
  BY <1>1, TailOfWork
<1>3. \A k \in DOMAIN globalQueue : GlobalWork(globalQueue[k])
  BY DEF GlobalOK
<1> HIDE DEF GlobalWork
<1>4. GlobalOK(Tail(globalQueue))
  BY <1>1, <1>3, TailOfWork DEF GlobalOK
<1> QED
  BY <1>1, <1>2, <1>3, <1>4

\* Instances are only ever added.
LEMMA BornStays ==
  ASSUME TypeInv, Creation, scenario' = scenario
  PROVE  /\ \A i \in Instances : Born(i) => Born(i)'
         /\ \A i \in Instances : NewestOfCell(i) => Born(i)'
         /\ \A i \in Instances : NewInstance(i) => NewestOfCell(i) /\ ~Born(i)
<1>1. grid' = grid /\ Cells' = Cells
  BY DEF grid, Cells
<1>2. /\ Cells \subseteq 0..(MaxCells - 1) /\ Made \subseteq Cells
      /\ current' = NewCurrent
      /\ current \in [0..(MaxCells - 1) -> 0..MaxGen]
      /\ \A c \in 0..(MaxCells - 1) : NewCurrent[c] = current[c] + (IF c \in Made THEN 1 ELSE 0)
  BY CellsInTable DEF TypeInv, GridInv, Creation
<1>3. \A i \in Instances : i[2] \in Nat
  BY HandoverAssumption DEF Instances
<1>4. \A c \in Cells : current[c] \in Nat /\ NewCurrent[c] \in Nat /\ NewCurrent[c] >= current[c]
                       /\ (c \in Made => NewCurrent[c] > current[c])
  BY <1>2, HandoverAssumption
<1>5. \A i : Born(i)' <=> i[1] \in Cells /\ i[2] <= NewCurrent[i[1]]
  BY <1>1, <1>2 DEF Born
<1>6. ASSUME NEW i \in Instances, i[1] \in Cells
      PROVE  /\ i[2] <= current[i[1]] => i[2] <= NewCurrent[i[1]]
             /\ i[2] = NewCurrent[i[1]] => i[2] <= NewCurrent[i[1]]
             /\ i[1] \in Made /\ i[2] = NewCurrent[i[1]] => ~(i[2] <= current[i[1]])
  <2>1. i[2] \in Nat /\ current[i[1]] \in Nat /\ NewCurrent[i[1]] \in Nat
        /\ NewCurrent[i[1]] >= current[i[1]]
        /\ (i[1] \in Made => NewCurrent[i[1]] > current[i[1]])
    BY <1>3, <1>4, <1>6
  <2> QED
    BY <2>1
<1>7. \A i : NewInstance(i) => i[1] \in Cells
  BY <1>2 DEF NewInstance
<1> QED
  BY <1>5, <1>6, <1>7 DEF Born, NewestOfCell, NewInstance

LEMMA CreationTypes ==
  ASSUME TypeInv, GridInv', HandleCreateSpatial
  PROVE  TypeInv'
<1>1. /\ scenario' = scenario /\ closing' = closing /\ notify' = notify /\ entity' = entity
      /\ sends' = sends
  BY DEF HandleCreateSpatial, TakeGlobal
<1>2. GlobalOK(globalQueue') /\ Creator \in Servers
  <2>1. TakeGlobal("createSpatial")
    BY DEF HandleCreateSpatial
  <2> QED
    BY <2>1, GlobalTaken DEF TypeInv, GlobalWork, Creator
<1>3. CASE ~Creates
  <2>1. UNCHANGED <<worldVars, spatial, interest>>
    BY <1>3, CreationChanges
  <2> QED
    BY <1>1, <1>2, <2>1, TypesKept DEF worldVars, TypeInv
<1>4. CASE Creates
  <2>1. Creation
    BY <1>4, CreationChanges
  <2>2. grid' = grid /\ Cells' = Cells /\ Positions' = Positions
    BY <1>1 DEF grid, Cells, Positions
  <2>3. \A m : (SpatialWork(m)' <=> SpatialWork(m)) /\ (EntityWork(m)' <=> EntityWork(m))
               /\ (GlobalWork(m)' <=> GlobalWork(m))
    BY <2>2 DEF SpatialWork, EntityWork, GlobalWork
  <2>4. /\ \A i \in Instances : Born(i) => Born(i)'
        /\ \A i \in Instances : NewestOfCell(i) => Born(i)'
        /\ \A i \in Instances : NewInstance(i) => NewestOfCell(i) /\ ~Born(i)
    BY <1>1, <2>1, BornStays
  <2>5. NotifiesOK(notify, entity)'
    BY <1>1, <2>4 DEF TypeInv, NotifiesOK, NotifyOK
  <2>6. EntitiesOK(entity)'
    BY <1>1, <2>2, <2>3 DEF TypeInv, EntitiesOK, EntityOK
  <2>7. GlobalOK(globalQueue)'
    BY <1>2, <2>3 DEF GlobalOK
  <2>8. SendersOK(sends, closing)'
    BY <1>1 DEF TypeInv, SendersOK
  <2>9. ServersOK(creating, serverConnections, interest)'
    <3>1. creating' \in Servers \cup {NoConn}
      BY <1>2, <2>1 DEF Creation
    <3>2. \A i \in ServerIndexes(grid) : serverConnections'[i] \in Servers \cup {NoConn}
      BY <1>2, <2>1 DEF Creation, TypeInv, ServersOK
    <3>3. interest' \in [Conns -> SUBSET Cells]
      <4> DEFINE more(c) == UNION {BorderOf(grid, i) : i \in {j \in NewSubscribed : NewConns[j] = c}}
      <4>1. \A c : more(c) \subseteq Cells
        BY <2>1 DEF Creation
      <4>2. interest' = [c \in Conns |-> interest[c] \cup more(c)]
        BY <2>1 DEF Creation
      <4> HIDE DEF more
      <4> QED
        BY <4>1, <4>2 DEF TypeInv, ServersOK
    <3> QED
      BY <2>2, <3>1, <3>2, <3>3 DEF ServersOK
  <2>10. ChannelsOK(spatial)'
    <3>1. \A c : NewSubscribers(c) \subseteq Conns
      <4>1. \A i \in NewSubscribed : NewConns[i] \in Servers
        <5>1. \A i \in ServerIndexes(grid) : NewConns[i] \in Servers \cup {NoConn}
          BY <1>2, <2>1 DEF Creation, TypeInv, ServersOK
        <5>2. \A i \in NewSubscribed : i \in ServerIndexes(grid) /\ NewConns[i] # NoConn
          BY <2>1 DEF Creation, Live
        <5> QED
          BY <5>1, <5>2
      <4> QED
        BY <4>1, Kinds DEF NewSubscribers
    <3>2. ASSUME NEW i \in Instances PROVE ChannelOK(spatial, i)'
      <4>1. ChannelOK(spatial, i)
        BY DEF TypeInv, ChannelsOK
      <4>2. /\ spatial'[i].owner = IF NewInstance(i) THEN Creator ELSE spatial[i].owner
            /\ spatial'[i].subs = (IF NewInstance(i) THEN {} ELSE spatial[i].subs)
                                  \cup (IF NewestOfCell(i) THEN NewSubscribers(i[1]) ELSE {})
            /\ spatial'[i].entities = IF NewInstance(i) THEN {} ELSE spatial[i].entities
            /\ spatial'[i].queue = IF NewInstance(i) THEN <<>> ELSE spatial[i].queue
        BY <2>1 DEF Creation
      <4>3. IsQueue(spatial'[i].queue) /\ \A k \in DOMAIN spatial'[i].queue : SpatialWork(spatial'[i].queue[k])
        <5> HIDE DEF SpatialWork
        <5> QED
          BY <4>1, <4>2, NoWork DEF ChannelOK
      <4>4. /\ spatial'[i].owner \in Servers \cup {NoConn} /\ spatial'[i].subs \subseteq Conns
            /\ spatial'[i].entities \subseteq Entities
        BY <1>2, <3>1, <4>1, <4>2 DEF ChannelOK
      <4>5. ~Born(i)' => /\ spatial'[i].owner = NoConn /\ spatial'[i].subs = {}
                         /\ spatial'[i].entities = {} /\ spatial'[i].queue = <<>>
        BY <2>4, <4>1, <4>2 DEF ChannelOK
      <4> HIDE DEF SpatialWork
      <4> QED
        BY <2>3, <4>3, <4>4, <4>5 DEF ChannelOK
    <3>3. Channels(spatial)'
      BY <2>1 DEF Creation, Channels
    <3> QED
      BY <3>2, <3>3 DEF ChannelsOK
  <2>11. NoneOutside'
    BY <2>1, <2>2 DEF TypeInv, NoneOutside, Creation
  <2> QED
    BY <2>5, <2>6, <2>7, <2>8, <2>9, <2>10, <2>11 DEF TypeInv
<1> QED
  BY <1>3, <1>4

LEMMA CreateWorldEntityTypes ==
  ASSUME TypeInv, GridInv', HandleCreateWorldEntity
  PROVE  TypeInv'
<1> DEFINE m == Head(globalQueue)
           c == CellOfPos(m.pos)
           owner == spatial[Current(c)].owner
           owned == Exists(c) /\ Live(owner)
           make == IF owned THEN owner ELSE m.from
<1>1. /\ scenario' = scenario /\ closing' = closing /\ notify' = notify /\ sends' = sends
      /\ current' = current /\ creating' = creating /\ serverConnections' = serverConnections
      /\ interest' = interest
  BY DEF HandleCreateWorldEntity, TakeGlobal, worldVars
<1>2. /\ GlobalOK(globalQueue')
      /\ m.entity \in Entities /\ m.pos \in Positions /\ m.from \in Senders
      /\ m.access \in Rights
  <2>1. TakeGlobal("createEntity")
    BY DEF HandleCreateWorldEntity
  <2>2. GlobalOK(globalQueue') /\ GlobalWork(m) /\ m.type = "createEntity"
    BY <2>1, GlobalTaken DEF TypeInv
  <2> QED
    BY <2>2 DEF GlobalWork
<1>3. owned => /\ Current(c) \in Instances /\ Born(Current(c)) /\ c \in Cells /\ owner \in Servers
  <2>1. c \in Cells \cup {NoCell}
    BY <1>2, PositionsArePoints, PointCell DEF TypeInv, GridInv
  <2>2. Exists(c) => c \in Cells /\ Current(c) \in Instances /\ Born(Current(c))
    BY <2>1, CurrentBorn DEF TypeInv, Exists
  <2> QED
    BY <2>2 DEF TypeInv, ChannelsOK, ChannelOK, Live
<1>4. CASE entity[m.entity].state # "none"
  <2>1. entity' = entity /\ spatial' = spatial
    BY <1>4 DEF HandleCreateWorldEntity, CreateWorldEntity
  <2> QED
    BY <1>1, <1>2, <2>1, TypesKept DEF TypeInv
<1>5. CASE entity[m.entity].state = "none"
  <2>1. /\ entity' = [entity EXCEPT ![m.entity] = NewEntity(make, m)]
        /\ spatial' = IF owned THEN Execute(spatial, Current(c), Callback("add", {m.entity}))
                      ELSE spatial
    BY <1>5 DEF HandleCreateWorldEntity, CreateWorldEntity
  <2>2. make \in Senders
    BY <1>2, <1>3, Kinds
  <2> HIDE DEF m, make
  <2>3. EntityOK(NewEntity(make, m)) /\ NewEntity(make, m).state = "alive"
    BY <1>2, <2>2, NewEntityFields
  <2>4. EntitySet(entity, entity', m.entity, NewEntity(make, m))
    BY <1>2, <2>1, EntityReplaced DEF TypeInv
  <2>5. EntitiesOK(entity')
    BY <1>2, <2>3, <2>4, EntitySetOK DEF TypeInv
  <2>6. NotifiesOK(notify', entity')
    BY <1>1, <2>3, <2>4 DEF TypeInv, NotifiesOK, EntitySet
  <2>7. ChannelsOK(spatial')
    <3>1. CASE owned
      <4>1. SpatialWork(Callback("add", {m.entity}))
        BY <1>2 DEF SpatialWork, Callback
      <4>2. QueueSet(spatial, spatial', Current(c),
                     Append(spatial[Current(c)].queue, Callback("add", {m.entity})))
        BY <1>3, <2>1, <3>1, ExecuteChanges DEF TypeInv, ChannelsOK
      <4> QED
        BY <1>3, <3>1, <4>1, <4>2, QueuedOK DEF TypeInv
    <3>2. CASE ~owned
      BY <2>1, <3>2 DEF TypeInv
    <3> QED
      BY <3>1, <3>2
  <2> QED
    BY <1>1, <1>2, <2>5, <2>6, <2>7, TypesKept DEF TypeInv
<1> QED
  BY <1>4, <1>5

LEMMA RemoveEntityTypes ==
  ASSUME TypeInv, GridInv', HandleRemoveEntity
  PROVE  TypeInv'
<1>1. /\ scenario' = scenario /\ closing' = closing /\ notify' = notify /\ sends' = sends
      /\ current' = current /\ creating' = creating /\ serverConnections' = serverConnections
      /\ interest' = interest /\ spatial' = spatial
  BY DEF HandleRemoveEntity, TakeGlobal, worldVars
<1>2. GlobalOK(globalQueue') /\ Head(globalQueue).entity \in Entities
  <2>1. TakeGlobal("removeEntity")
    BY DEF HandleRemoveEntity
  <2> QED
    BY <2>1, GlobalTaken DEF TypeInv, GlobalWork
<1>3. Removed(Head(globalQueue).entity)
  BY <1>2, RemoveEntityChanges DEF HandleRemoveEntity, TypeInv
<1>4. EntitiesOK(entity') /\ NotifiesOK(notify', entity')
  BY <1>1, <1>3 DEF Removed, TypeInv, NotifiesOK
<1> QED
  BY <1>1, <1>2, <1>4, TypesKept DEF TypeInv

\* The first message of a spatial channel's queue.
LEMMA SpatialTaken ==
  ASSUME TypeInv, NEW i \in Instances, NEW type, Take(i, type)
  PROVE  /\ ChannelsOK(Taken(i)) /\ Channels(Taken(i)) /\ Born(i)
         /\ QueueSet(spatial, Taken(i), i, Tail(spatial[i].queue))
         /\ SpatialWork(FirstOf(i)) /\ FirstOf(i).type = type
         /\ scenario' = scenario /\ current' = current /\ sends' = sends /\ closing' = closing
         /\ creating' = creating /\ serverConnections' = serverConnections
         /\ globalQueue' = globalQueue /\ notify' = notify
<1>1. /\ scenario' = scenario /\ current' = current /\ sends' = sends /\ closing' = closing
      /\ creating' = creating /\ serverConnections' = serverConnections
      /\ globalQueue' = globalQueue /\ notify' = notify
      /\ spatial[i].queue # <<>> /\ FirstOf(i).type = type
  BY DEF Take, FirstOf, worldVars
<1>2. QueueSet(spatial, Taken(i), i, Tail(spatial[i].queue))
  BY TakenChanges DEF TypeInv, ChannelsOK
<1>3. ChannelsOK(Taken(i)) /\ Born(i) /\ SpatialWork(FirstOf(i))
  BY <1>1, <1>2, TakenOK DEF TypeInv, FirstOf
<1> QED
  BY <1>1, <1>2, <1>3 DEF QueueSet

\* A handler that changes channels, interest and entities keeps the types if each is kept.
LEMMA SpatialTypesKept ==
  ASSUME TypeInv, GridInv', NEW i \in Instances, NEW type, Take(i, type),
         ChannelsOK(spatial'), interest' \in [Conns -> SUBSET Cells], EntitiesOK(entity'),
         \A x \in Entities : notify[x].at # "idle" => entity'[x].state # "none"
  PROVE  TypeInv'
<1>1. /\ scenario' = scenario /\ current' = current /\ sends' = sends /\ closing' = closing
      /\ creating' = creating /\ serverConnections' = serverConnections
      /\ globalQueue' = globalQueue /\ notify' = notify
  BY SpatialTaken
<1>2. ServersOK(creating', serverConnections', interest')
  BY <1>1 DEF TypeInv, ServersOK
<1>3. NotifiesOK(notify', entity')
  BY <1>1 DEF TypeInv, NotifiesOK
<1> QED
  BY <1>1, <1>2, <1>3, TypesKept DEF TypeInv

LEMMA DataTypes ==
  ASSUME TypeInv, GridInv', NEW i \in Instances, AddToData(i) \/ RemoveFromData(i)
  PROVE  TypeInv'
<1>1. /\ interest' \in [Conns -> SUBSET Cells] /\ EntitiesOK(entity')
      /\ \A x \in Entities : notify[x].at # "idle" => entity'[x].state # "none"
  BY DEF AddToData, RemoveFromData, TypeInv, ServersOK, NotifiesOK
<1>2. CASE AddToData(i)
  <2> DEFINE v == Taken(i)[i].entities \cup FirstOf(i).entities
  <2>1. /\ ChannelsOK(Taken(i)) /\ Channels(Taken(i)) /\ Born(i)
        /\ SpatialWork(FirstOf(i)) /\ FirstOf(i).type = "add"
    BY <1>2, SpatialTaken DEF AddToData
  <2>2. v \subseteq Entities
    BY <2>1 DEF SpatialWork, ChannelsOK, ChannelOK
  <2>3. spatial' = [Taken(i) EXCEPT ![i].entities = v]
    BY <1>2 DEF AddToData
  <2> HIDE DEF v
  <2>4. DataSet(Taken(i), spatial', i, v)
    BY <2>1, <2>3, EntitiesChanged
  <2>5. ChannelsOK(spatial')
    BY <2>1, <2>2, <2>4, DataOK
  <2> QED
    BY <1>1, <1>2, <2>5, SpatialTypesKept DEF AddToData
<1>3. CASE RemoveFromData(i)
  <2> DEFINE v == Taken(i)[i].entities \ FirstOf(i).entities
  <2>1. ChannelsOK(Taken(i)) /\ Channels(Taken(i)) /\ Born(i)
    BY <1>3, SpatialTaken DEF RemoveFromData
  <2>2. v \subseteq Entities
    BY <2>1 DEF ChannelsOK, ChannelOK
  <2>3. spatial' = [Taken(i) EXCEPT ![i].entities = v]
    BY <1>3 DEF RemoveFromData
  <2> HIDE DEF v
  <2>4. DataSet(Taken(i), spatial', i, v)
    BY <2>1, <2>3, EntitiesChanged
  <2>5. ChannelsOK(spatial')
    BY <2>1, <2>2, <2>4, DataOK
  <2> QED
    BY <1>1, <1>3, <2>5, SpatialTypesKept DEF RemoveFromData
<1> QED
  BY <1>2, <1>3

\* What CREATE_ENTITY_CHANNEL leaves of the entity channels.
Created(e, owner, pos, access) ==
  /\ entity[e].state = "none" /\ EntitiesOK(entity')
  /\ \A x \in Entities \ {e} : entity'[x] = entity[x]
  /\ entity'[e].state = "alive" /\ entity'[e].owner = owner /\ entity'[e].pos = pos
  /\ \A d \in Conns : entity'[e].access[d] =
       IF d = owner /\ owner \notin closing THEN access ELSE "none"

LEMMA CreationOfEntity ==
  ASSUME EntitiesOK(entity), NEW m, m.entity \in Entities, m.pos \in Positions,
         m.access \in Rights, NEW owner \in Senders, entity[m.entity].state = "none",
         entity' = [entity EXCEPT ![m.entity] = NewEntity(owner, m)]
  PROVE  Created(m.entity, owner, m.pos, m.access)
<1>1. /\ EntityOK(NewEntity(owner, m))
      /\ NewEntity(owner, m).state = "alive" /\ NewEntity(owner, m).owner = owner
      /\ NewEntity(owner, m).pos = m.pos
      /\ \A d \in Conns : NewEntity(owner, m).access[d] =
           IF d = owner /\ owner \notin closing THEN m.access ELSE "none"
  BY NewEntityFields
<1>2. EntitySet(entity, entity', m.entity, NewEntity(owner, m))
  BY EntityReplaced
<1>3. EntitiesOK(entity')
  BY <1>1, <1>2, EntitySetOK
<1> QED
  BY <1>1, <1>2, <1>3 DEF EntitySet, Created

LEMMA CreateEntityTypes ==
  ASSUME TypeInv, GridInv', NEW i \in Instances, HandleCreateEntity(i)
  PROVE  TypeInv'
<1> DEFINE m == FirstOf(i)
<1>1. /\ ChannelsOK(Taken(i)) /\ SpatialWork(m) /\ m.type = "createEntity"
      /\ Take(i, "createEntity")
  BY SpatialTaken DEF HandleCreateEntity
<1>2. /\ m.entity \in Entities /\ m.pos \in Positions /\ m.from \in Senders
      /\ m.access \in Rights
  BY <1>1 DEF SpatialWork
<1>3. /\ EntitiesOK(entity')
      /\ \A x \in Entities : notify[x].at # "idle" => entity'[x].state # "none"
  <2>1. CASE entity[m.entity].state = "none"
    <3>1. entity' = [entity EXCEPT ![m.entity] = NewEntity(m.from, m)]
      BY <2>1 DEF HandleCreateEntity, CreateEntity
    <3> HIDE DEF m
    <3>2. Created(m.entity, m.from, m.pos, m.access)
      BY <1>2, <2>1, <3>1, CreationOfEntity DEF TypeInv
    <3> QED
      BY <3>2 DEF Created, TypeInv, NotifiesOK
  <2>2. CASE entity[m.entity].state # "none"
    <3>1. entity' = entity
      BY <2>2 DEF HandleCreateEntity, CreateEntity
    <3> QED
      BY <3>1 DEF TypeInv, NotifiesOK
  <2> QED
    BY <2>1, <2>2
<1>4. spatial' = Taken(i) /\ interest' = interest
  BY DEF HandleCreateEntity
<1> QED
  BY <1>1, <1>3, <1>4, SpatialTypesKept DEF TypeInv, ServersOK

LEMMA SpawnTypes ==
  ASSUME TypeInv, GridInv', NEW i \in Instances, HandleSpawn(i)
  PROVE  TypeInv'
<1> DEFINE m == FirstOf(i)
           S == Taken(i)
           c == CellOfPos(m.pos)
           e == m.entity
<1>1. /\ ChannelsOK(S) /\ Channels(S) /\ Born(i) /\ SpatialWork(m) /\ m.type = "spawn"
      /\ Take(i, "spawn")
  BY SpatialTaken DEF HandleSpawn
<1>2. m.entity \in Entities /\ m.pos \in Points
  BY <1>1 DEF SpatialWork
<1>3. c \in Cells \cup {NoCell}
  BY <1>2, PointCell DEF TypeInv, GridInv
<1>4. Exists(c) => Current(c) \in Instances /\ Born(Current(c))
  BY <1>3, CurrentBorn DEF TypeInv, Exists
<1>5. Spawn(i, S, m) /\ interest' = interest
  BY DEF HandleSpawn
<1>6. ChannelsOK(spatial')
  <2>1. \/ spatial' = S
        \/ spatial' = [S EXCEPT ![i].entities = S[i].entities \cup {e}]
        \/ Exists(c) /\ spatial' = Execute(S, Current(c), Callback("add", {e}))
    BY <1>5 DEF Spawn
  <2> HIDE DEF S, c, m
  <2>2. CASE spatial' = [S EXCEPT ![i].entities = S[i].entities \cup {e}]
    <3>1. S[i].entities \cup {e} \subseteq Entities
      BY <1>1, <1>2 DEF ChannelsOK, ChannelOK
    <3>2. DataSet(S, spatial', i, S[i].entities \cup {e})
      BY <1>1, <2>2, EntitiesChanged
    <3> QED
      BY <1>1, <3>1, <3>2, DataOK
  <2>3. CASE Exists(c) /\ spatial' = Execute(S, Current(c), Callback("add", {e}))
    <3>1. SpatialWork(Callback("add", {e}))
      BY <1>2 DEF SpatialWork, Callback
    <3>2. QueueSet(S, spatial', Current(c), Append(S[Current(c)].queue, Callback("add", {e})))
      BY <1>1, <1>4, <2>3, ExecuteChanges
    <3> QED
      BY <1>1, <1>4, <2>3, <3>1, <3>2, QueuedOK
  <2> QED
    BY <1>1, <2>1, <2>2, <2>3
<1>7. EntitiesOK(entity') /\ \A x \in Entities : entity'[x].state = entity[x].state
  <2> DEFINE r == [entity[e] EXCEPT !.inbox = Append(entity[e].inbox, [type |-> "setObjRef"])]
  <2>1. entity' = entity \/ entity' = [entity EXCEPT ![e] = r]
    BY <1>5 DEF Spawn
  <2>2. EntityWork([type |-> "setObjRef"])
    BY DEF EntityWork
  <2>3. EntityOK(r) /\ r.state = entity[e].state
    BY <1>2, <2>2, InboxAppended DEF TypeInv, EntitiesOK, SameCore
  <2> HIDE DEF r, m
  <2>4. CASE entity' = [entity EXCEPT ![e] = r]
    <3>1. EntitySet(entity, entity', e, r)
      BY <1>2, <2>4, EntityReplaced DEF TypeInv
    <3> QED
      BY <1>2, <2>3, <3>1, EntitySetOK DEF TypeInv, EntitySet
  <2> QED
    BY <2>1, <2>4 DEF TypeInv
<1> QED
  BY <1>1, <1>5, <1>6, <1>7, SpatialTypesKept DEF TypeInv, ServersOK, NotifiesOK

LEMMA DestroyTypes ==
  ASSUME TypeInv, GridInv', NEW i \in Instances, HandleDestroy(i)
  PROVE  TypeInv'
<1> DEFINE e == FirstOf(i).entity
           v == Taken(i)[i].entities \ {e}
<1>1. /\ ChannelsOK(Taken(i)) /\ Channels(Taken(i)) /\ Born(i)
      /\ SpatialWork(FirstOf(i)) /\ FirstOf(i).type = "destroy" /\ Take(i, "destroy")
  BY SpatialTaken DEF HandleDestroy
<1>2. e \in Entities
  BY <1>1 DEF SpatialWork
<1>3. /\ spatial' = [Taken(i) EXCEPT ![i].entities = v]
      /\ RemoveEntity(e) /\ interest' = interest
  BY DEF HandleDestroy
<1>4. v \subseteq Entities
  BY <1>1 DEF ChannelsOK, ChannelOK
<1> HIDE DEF e, v
<1>5. ChannelsOK(spatial')
  BY <1>1, <1>3, <1>4, EntitiesChanged, DataOK
<1>6. Removed(e)
  BY <1>2, <1>3, RemoveEntityChanges DEF TypeInv
<1> QED
  BY <1>1, <1>3, <1>5, <1>6, SpatialTypesKept DEF TypeInv, ServersOK, NotifiesOK, Removed

\* What UPDATE_SPATIAL_INTEREST changes, relative to the table S from which the
\* message was taken: one channel's subscribers, and queues of existing channels.
InterestChanged(S, i, c) ==
  /\ Channels(spatial') /\ SameOwners(S, spatial') /\ SameData(S, spatial')
  /\ \A j \in Instances : j # i => spatial'[j].subs = S[j].subs
  /\ spatial'[i].subs \in {S[i].subs, S[i].subs \cup {c}, S[i].subs \ {c}}
  /\ \A j \in Instances :
       \/ spatial'[j].queue = S[j].queue
       \/ Born(j) /\ \E w : /\ spatial'[j].queue = Append(S[j].queue, w)
                            /\ w.type \in {"sub", "unsub"} /\ w.client = c
  /\ interest' \in [Conns -> SUBSET Cells]
  /\ \A d \in Conns \ {c} : interest'[d] = interest[d]

\* And exactly: the client's subscription to channel i itself, and messages to the
\* channels it wants and to those it leaves.
Wanted(m) == {c \in QueryChannelIds(grid, m.query) : Exists(c)}
Unwanted(m) == {c \in interest[m.client] \ QueryChannelIds(grid, m.query) : Exists(c)}

DirectSubs(S, i, m) ==
  IF i # Current(i[1]) THEN S[i].subs
  ELSE IF i[1] \in Wanted(m) THEN S[i].subs \cup {m.client}
  ELSE IF i[1] \in Unwanted(m) THEN S[i].subs \ {m.client} ELSE S[i].subs

Request(m, c) == [type |-> IF c \in Wanted(m) THEN "sub" ELSE "unsub", client |-> m.client]

Requested(i, m, j) ==
  j # i /\ Exists(j[1]) /\ j = Current(j[1]) /\ j[1] \in Wanted(m) \cup Unwanted(m)

InterestSent(S, i, m) == \A j \in Instances :
  /\ spatial'[j].subs = IF j = i THEN DirectSubs(S, i, m) ELSE S[j].subs
  /\ spatial'[j].queue = IF Requested(i, m, j) THEN Append(S[j].queue, Request(m, j[1]))
                         ELSE S[j].queue

LEMMA InterestChanges ==
  ASSUME TypeInv, NEW S, ChannelsOK(S), NEW i \in Instances, Born(i), NEW m, m.client \in Clients,
         UpdateInterest(i, S, m)
  PROVE  /\ InterestChanged(S, i, m.client)
         /\ m.client \notin closing /\ ~QueryFails(grid, m.query) => InterestSent(S, i, m)
<1> DEFINE wanted == {c \in QueryChannelIds(grid, m.query) : Exists(c)}
           left   == {c \in interest[m.client] \ QueryChannelIds(grid, m.query) : Exists(c)}
           work(c) == [type |-> IF c \in wanted THEN "sub" ELSE "unsub", client |-> m.client]
           sent(c) == [S[Current(c)] EXCEPT !.queue = Append(S[Current(c)].queue, work(c))]
           quiet(c) == Current(c) = i \/ c \notin wanted \cup left
           put(c) == IF quiet(c) THEN S[Current(c)] ELSE sent(c)
           direct == IF i # Current(i[1]) THEN S[i].subs
                     ELSE IF i[1] \in wanted THEN S[i].subs \cup {m.client}
                     ELSE IF i[1] \in left THEN S[i].subs \ {m.client} ELSE S[i].subs
           changed == [S[i] EXCEPT !.subs = direct]
           channel(j) == IF j = i THEN changed
                         ELSE IF Exists(j[1]) /\ j = Current(j[1]) THEN put(j[1]) ELSE S[j]
<1>1. Channels(S) /\ interest \in [Conns -> SUBSET Cells]
  BY DEF ChannelsOK, TypeInv, ServersOK
<1>2. CASE m.client \in closing \/ QueryFails(grid, m.query)
  BY <1>1, <1>2 DEF UpdateInterest, InterestChanged, SameOwners, SameData
<1>3. CASE ~(m.client \in closing \/ QueryFails(grid, m.query))
  <2>1. /\ spatial' = [j \in Instances |-> channel(j)]
        /\ interest' = [interest EXCEPT ![m.client] =
               IF m.client \in direct THEN interest[m.client] \cup (wanted \cap {i[1]})
               ELSE IF m.client \in S[i].subs THEN interest[m.client] \ {i[1]}
               ELSE interest[m.client]]
    BY <1>3 DEF UpdateInterest
  <2>2. \A c : work(c).type \in {"sub", "unsub"} /\ work(c).client = m.client
    OBVIOUS
  <2>8. /\ direct = DirectSubs(S, i, m)
        /\ \A c : work(c) = Request(m, c)
        /\ \A j : j # i /\ Exists(j[1]) /\ j = Current(j[1]) /\ ~quiet(j[1]) <=> Requested(i, m, j)
    BY DEF DirectSubs, Request, Requested, Wanted, Unwanted
  <2>3. direct \in {S[i].subs, S[i].subs \cup {m.client}, S[i].subs \ {m.client}}
    OBVIOUS
  <2> HIDE DEF wanted, left, work, direct
  <2>4. /\ IsChannel(changed) /\ changed.owner = S[i].owner /\ changed.subs = direct
        /\ changed.entities = S[i].entities /\ changed.queue = S[i].queue
    <3>1. changed = [owner |-> S[i].owner, subs |-> direct, entities |-> S[i].entities,
                     queue |-> S[i].queue]
      BY <1>1, ChannelField DEF Channels
    <3> HIDE DEF changed
    <3> QED
      BY <3>1, ChannelRecord
  <2> HIDE DEF changed
  <2>5. ASSUME NEW j \in Instances, j = Current(j[1])
        PROVE  /\ IsChannel(sent(j[1])) /\ sent(j[1]).owner = S[j].owner
               /\ sent(j[1]).subs = S[j].subs /\ sent(j[1]).entities = S[j].entities
               /\ sent(j[1]).queue = Append(S[j].queue, work(j[1]))
    <3> DEFINE v == Append(S[j].queue, work(j[1]))
               r == [S[j] EXCEPT !.queue = v]
    <3>1. r = [owner |-> S[j].owner, subs |-> S[j].subs, entities |-> S[j].entities, queue |-> v]
      BY <1>1, ChannelField DEF Channels
    <3>2. sent(j[1]) = r
      BY <2>5
    <3> HIDE DEF r, v, sent
    <3>3. IsChannel(r) /\ r.owner = S[j].owner /\ r.subs = S[j].subs /\ r.entities = S[j].entities
          /\ r.queue = v
      BY <3>1, ChannelRecord
    <3> QED
      BY <3>2, <3>3 DEF v
  <2> HIDE DEF sent, quiet
  <2>6. ASSUME NEW j \in Instances
        PROVE  /\ IsChannel(channel(j)) /\ channel(j).owner = S[j].owner
               /\ channel(j).entities = S[j].entities
               /\ channel(j).subs = IF j = i THEN direct ELSE S[j].subs
               /\ Requested(i, m, j) =>
                    Born(j) /\ channel(j).queue = Append(S[j].queue, work(j[1]))
               /\ ~Requested(i, m, j) => channel(j).queue = S[j].queue
    <3>1. IsChannel(S[j])
      BY <1>1 DEF Channels
    <3>2. CASE j # i /\ Exists(j[1]) /\ j = Current(j[1])
      <4>1. channel(j) = IF quiet(j[1]) THEN S[j] ELSE sent(j[1])
        BY <3>2
      <4> HIDE DEF channel
      <4>2. Born(j)
        <5>1. j[1] \in 0..(MaxCells - 1) /\ current[j[1]] # 0
          BY <3>2, HandoverAssumption DEF Instances, Exists, TypeInv, GridInv
        <5>2. j[1] \in Cells
          BY <5>1 DEF TypeInv, NoneOutside
        <5> QED
          BY <3>2, <5>2, CurrentBorn DEF TypeInv
      <4>3. quiet(j[1]) <=> ~Requested(i, m, j)
        BY <2>8, <3>2
      <4> QED
        BY <2>5, <3>1, <3>2, <4>1, <4>2, <4>3
    <3>3. CASE ~(j # i /\ Exists(j[1]) /\ j = Current(j[1]))
      <4>1. ~Requested(i, m, j)
        BY <3>3 DEF Requested
      <4> QED
        BY <2>4, <3>1, <3>3, <4>1
    <3> QED
      BY <3>2, <3>3
  <2> HIDE DEF channel
  <2>7. interest' \in [Conns -> SUBSET Cells] /\ \A d \in Conns \ {m.client} : interest'[d] = interest[d]
    BY <1>1, <2>1, Kinds DEF Born
  <2>9. InterestChanged(S, i, m.client)
    BY <2>1, <2>2, <2>3, <2>6, <2>7 DEF InterestChanged, Channels, SameOwners, SameData
  <2>10. InterestSent(S, i, m)
    BY <2>1, <2>6, <2>8 DEF InterestSent
  <2> QED
    BY <2>9, <2>10
<1> QED
  BY <1>2, <1>3

LEMMA InterestTypes ==
  ASSUME TypeInv, GridInv', NEW i \in Instances, HandleInterest(i)
  PROVE  TypeInv'
<1> DEFINE m == FirstOf(i)
           S == Taken(i)
<1>1. /\ ChannelsOK(S) /\ Born(i) /\ SpatialWork(m) /\ m.type = "interest"
      /\ Take(i, "interest")
  BY SpatialTaken DEF HandleInterest
<1>2. m.client \in Clients /\ UpdateInterest(i, S, m) /\ entity' = entity
  BY <1>1 DEF SpatialWork, HandleInterest
<1> HIDE DEF m, S
<1>3. InterestChanged(S, i, m.client)
  BY <1>1, <1>2, InterestChanges
<1>4. ASSUME NEW j \in Instances PROVE ChannelOK(spatial', j)
  <2>1. ChannelOK(S, j) /\ ChannelOK(S, i)
    BY <1>1 DEF ChannelsOK
  <2>2. spatial'[j].owner = S[j].owner /\ spatial'[j].entities = S[j].entities
    BY <1>3 DEF InterestChanged, SameOwners, SameData
  <2>3. spatial'[j].subs \subseteq Conns /\ (~Born(j) => spatial'[j].subs = {})
    <3>1. m.client \in Conns
      BY <1>2, Kinds
    <3>2. j # i => spatial'[j].subs = S[j].subs
      BY <1>3 DEF InterestChanged
    <3>3. spatial'[i].subs \subseteq Conns
      BY <1>3, <2>1, <3>1 DEF InterestChanged, ChannelOK
    <3> QED
      BY <1>1, <2>1, <3>2, <3>3 DEF ChannelOK
  <2>4. /\ IsQueue(spatial'[j].queue) /\ (~Born(j) => spatial'[j].queue = <<>>)
        /\ \A k \in DOMAIN spatial'[j].queue : SpatialWork(spatial'[j].queue[k])
    <3>1. CASE spatial'[j].queue = S[j].queue
      BY <2>1, <3>1 DEF ChannelOK
    <3>2. ASSUME NEW w, spatial'[j].queue = Append(S[j].queue, w), Born(j),
                 w.type \in {"sub", "unsub"}, w.client = m.client
          PROVE  /\ IsQueue(spatial'[j].queue) /\ (~Born(j) => spatial'[j].queue = <<>>)
                 /\ \A k \in DOMAIN spatial'[j].queue : SpatialWork(spatial'[j].queue[k])
      <4>1. SpatialWork(w)
        BY <1>2, <3>2 DEF SpatialWork
      <4>2. IsQueue(S[j].queue) /\ \A k \in DOMAIN S[j].queue : SpatialWork(S[j].queue[k])
        BY <2>1 DEF ChannelOK
      <4> HIDE DEF SpatialWork
      <4> QED
        BY <3>2, <4>1, <4>2, AppendedWork
    <3> QED
      BY <1>3, <3>1, <3>2 DEF InterestChanged
  <2> QED
    BY <2>1, <2>2, <2>3, <2>4 DEF ChannelOK
<1>5. ChannelsOK(spatial')
  BY <1>3, <1>4 DEF ChannelsOK, InterestChanged
<1> QED
  BY <1>1, <1>2, <1>3, <1>5, SpatialTypesKept DEF InterestChanged, TypeInv, NotifiesOK

LEMMA SubTypes ==
  ASSUME TypeInv, GridInv', NEW i \in Instances, HandleSub(i) \/ HandleUnsub(i)
  PROVE  TypeInv'
<1> DEFINE m == FirstOf(i)
           S == Taken(i)
<1>1. PICK type \in {"sub", "unsub"} : Take(i, type)
  BY DEF HandleSub, HandleUnsub
<1>2. /\ ChannelsOK(S) /\ Channels(S) /\ Born(i) /\ SpatialWork(m) /\ m.type = type
  BY <1>1, SpatialTaken
<1>3. m.client \in Clients /\ m.client \in Conns
  BY <1>2, Kinds DEF SpatialWork
<1>4. /\ \/ spatial' = S
         \/ spatial' = [S EXCEPT ![i].subs = S[i].subs \cup {m.client}]
         \/ spatial' = [S EXCEPT ![i].subs = S[i].subs \ {m.client}]
      /\ \/ interest' = interest
         \/ interest' = [interest EXCEPT ![m.client] = interest[m.client] \cup {i[1]}]
         \/ interest' = [interest EXCEPT ![m.client] = interest[m.client] \ {i[1]}]
      /\ entity' = entity
  BY DEF HandleSub, HandleUnsub, Subscribed, Unsubscribed
<1> HIDE DEF S, m
<1>5. interest' \in [Conns -> SUBSET Cells]
  <2>1. i[1] \in Cells
    BY <1>2 DEF Born
  <2> QED
    BY <1>3, <1>4, <2>1 DEF TypeInv, ServersOK
<1>6. ChannelsOK(spatial')
  <2>1. S[i].subs \cup {m.client} \subseteq Conns /\ S[i].subs \ {m.client} \subseteq Conns
    BY <1>2, <1>3 DEF ChannelsOK, ChannelOK
  <2>2. ASSUME NEW v, v \subseteq Conns, spatial' = [S EXCEPT ![i].subs = v] PROVE ChannelsOK(spatial')
    <3>1. SubsSet(S, spatial', i, v)
      BY <1>2, <2>2, SubsChanged
    <3> QED
      BY <1>2, <2>2, <3>1, SubsOK
  <2> QED
    BY <1>2, <1>4, <2>1, <2>2
<1> QED
  BY <1>1, <1>4, <1>5, <1>6, SpatialTypesKept DEF TypeInv, NotifiesOK

\* The closing subscribers are dropped, and the owner if it is one of them.
LEMMA SpatialTickChanges ==
  ASSUME Channels(spatial), NEW i \in Instances, SpatialTick(i)
  PROVE  /\ Channels(spatial') /\ SameData(spatial, spatial') /\ SameQueues(spatial, spatial')
         /\ \A j \in Instances : spatial'[j].subs =
              IF j = i THEN spatial[i].subs \ closing ELSE spatial[j].subs
         /\ \A j \in Instances : spatial'[j].owner =
              IF j = i /\ spatial[i].owner \in spatial[i].subs \cap closing THEN NoConn
              ELSE spatial[j].owner
<1> DEFINE owner == IF spatial[i].owner \in spatial[i].subs \cap closing THEN NoConn
                    ELSE spatial[i].owner
           subs == spatial[i].subs \ closing
           r == [spatial[i] EXCEPT !.subs = subs]
           q == [r EXCEPT !.owner = owner]
<1>1. IsChannel(spatial[i])
  BY DEF Channels
<1>2. spatial' = [spatial EXCEPT ![i] = q]
  BY DEF SpatialTick, Channels
<1> HIDE DEF owner, subs
<1>3. r = [owner |-> spatial[i].owner, subs |-> subs, entities |-> spatial[i].entities,
           queue |-> spatial[i].queue]
  BY <1>1, ChannelField
<1> HIDE DEF r
<1>4. /\ IsChannel(r) /\ r.owner = spatial[i].owner /\ r.subs = subs
      /\ r.entities = spatial[i].entities /\ r.queue = spatial[i].queue
  BY <1>3, ChannelRecord
<1>5. q = [owner |-> owner, subs |-> subs, entities |-> spatial[i].entities,
           queue |-> spatial[i].queue]
  <2>1. \A v : [r EXCEPT !.owner = v] =
          [owner |-> v, subs |-> r.subs, entities |-> r.entities, queue |-> r.queue]
    BY <1>4, ChannelField
  <2> QED
    BY <1>4, <2>1
<1> HIDE DEF q
<1>6. /\ IsChannel(q) /\ q.owner = owner /\ q.subs = subs
      /\ q.entities = spatial[i].entities /\ q.queue = spatial[i].queue
  BY <1>5, ChannelRecord
<1>7. /\ Channels(spatial')
      /\ \A j \in Instances : spatial'[j] = IF j = i THEN q ELSE spatial[j]
  <2> DEFINE T == [spatial EXCEPT ![i] = q]
  <2>1. Channels(T) /\ \A j \in Instances : T[j] = IF j = i THEN q ELSE spatial[j]
    BY <1>6, ChannelReplaced
  <2>2. spatial' = T
    BY <1>2
  <2> HIDE DEF T
  <2> QED
    BY <2>1, <2>2
<1> QED
  BY <1>6, <1>7 DEF SameData, SameQueues, owner, subs

LEMMA SpatialTickTypes ==
  ASSUME TypeInv, GridInv', NEW i \in Instances, SpatialTick(i)
  PROVE  TypeInv'
<1>1. /\ Channels(spatial') /\ SameData(spatial, spatial') /\ SameQueues(spatial, spatial')
      /\ \A j \in Instances : spatial'[j].subs =
              IF j = i THEN spatial[i].subs \ closing ELSE spatial[j].subs
      /\ \A j \in Instances : spatial'[j].owner =
              IF j = i /\ spatial[i].owner \in spatial[i].subs \cap closing THEN NoConn
              ELSE spatial[j].owner
  BY SpatialTickChanges DEF TypeInv, ChannelsOK
<1>2. ASSUME NEW j \in Instances PROVE ChannelOK(spatial', j)
  <2>1. /\ ChannelOK(spatial, j) /\ spatial'[j].queue = spatial[j].queue
        /\ spatial'[j].entities = spatial[j].entities
    BY <1>1 DEF TypeInv, ChannelsOK, SameData, SameQueues
  <2>2. spatial'[j].subs \subseteq spatial[j].subs /\ spatial'[j].owner \in {spatial[j].owner, NoConn}
    BY <1>1
  <2> QED
    BY <2>1, <2>2 DEF ChannelOK
<1>3. ChannelsOK(spatial')
  BY <1>1, <1>2 DEF ChannelsOK
<1> QED
  BY <1>3, TypesKept DEF SpatialTick, TypeInv, worldVars, entityVars

\* The first message of an entity channel's inbox, handled by changing at most the
\* location and the reference of e.
LEMMA InboxHandled ==
  ASSUME TypeInv, NEW e \in Entities,
         HandleUpdate(e) \/ SetObjRef(e) \/ HandleAddGroup(e) \/ HandleRemoveGroup(e)
  PROVE  /\ EntitiesOK(entity') /\ \A x \in Entities \ {e} : entity'[x] = entity[x]
         /\ SameCore(entity[e], entity'[e])
         /\ entity'[e].pos = IF HandleUpdate(e) /\ MayUpdate(entity[e], NextOf(e).from)
                             THEN NextOf(e).pos ELSE entity[e].pos
         /\ HandleUpdate(e) => NextOf(e).pos \in Positions
<1> DEFINE m == NextOf(e)
<1>1. EntityOK(entity[e])
  BY DEF TypeInv, EntitiesOK
<1>2. entity[e].inbox # <<>> /\ \E type : Head(entity[e].inbox).type = type /\ Entered(e, type)
  BY DEF HandleUpdate, SetObjRef, HandleAddGroup, HandleRemoveGroup, Entered
<1>3. /\ EntityOK(Popped(e)) /\ SameCore(entity[e], Popped(e)) /\ Popped(e).pos = entity[e].pos
      /\ EntityWork(m)
  BY <1>1, <1>2, InboxTaken
<1>4. ASSUME NEW r, EntityOK(r), SameCore(entity[e], r), entity' = [entity EXCEPT ![e] = r]
      PROVE  /\ EntitiesOK(entity') /\ \A x \in Entities \ {e} : entity'[x] = entity[x]
             /\ SameCore(entity[e], entity'[e]) /\ entity'[e] = r
  <2>1. EntitySet(entity, entity', e, r)
    BY <1>4, EntityReplaced DEF TypeInv
  <2>2. EntitiesOK(entity')
    BY <1>4, <2>1, EntitySetOK DEF TypeInv
  <2> QED
    BY <1>4, <2>1, <2>2 DEF EntitySet
<1>5. HandleUpdate(e) => m.pos \in Positions
  BY <1>3 DEF HandleUpdate, Entered, NextOf, EntityWork
<1>6. CASE HandleUpdate(e) /\ MayUpdate(entity[e], m.from)
  <2> DEFINE p == m.pos
             r == [Popped(e) EXCEPT !.pos = p]
  <2>1. entity' = [entity EXCEPT ![e] = r]
    BY <1>6 DEF HandleUpdate
  <2>2. p \in Positions
    BY <1>5, <1>6
  <2> HIDE DEF p
  <2>3. EntityOK(r) /\ SameCore(Popped(e), r) /\ r.pos = p
    BY <1>3, <2>2, PlaceChanged
  <2> HIDE DEF r
  <2>4. SameCore(entity[e], r)
    BY <1>3, <2>3 DEF SameCore
  <2> QED
    BY <1>4, <1>5, <1>6, <2>1, <2>3, <2>4 DEF p
<1>7. CASE SetObjRef(e)
  <2> DEFINE r == [Popped(e) EXCEPT !.ref = TRUE]
  <2>1. entity' = [entity EXCEPT ![e] = r]
    BY <1>7 DEF SetObjRef
  <2>2. EntityOK(r) /\ SameCore(Popped(e), r) /\ r.pos = Popped(e).pos
    BY <1>3, RefChanged
  <2> HIDE DEF r
  <2>3. SameCore(entity[e], r)
    BY <1>3, <2>2 DEF SameCore
  <2>4. ~HandleUpdate(e)
    BY <1>7 DEF HandleUpdate, SetObjRef, Entered
  <2> QED
    BY <1>3, <1>4, <2>1, <2>2, <2>3, <2>4
<1>8. CASE HandleAddGroup(e) \/ HandleRemoveGroup(e) \/ (HandleUpdate(e) /\ ~MayUpdate(entity[e], m.from))
  <2>1. entity' = [entity EXCEPT ![e] = Popped(e)]
    BY <1>8 DEF HandleAddGroup, HandleRemoveGroup, HandleUpdate
  <2>2. ~(HandleUpdate(e) /\ MayUpdate(entity[e], m.from))
    BY <1>8 DEF HandleUpdate, HandleAddGroup, HandleRemoveGroup, Entered
  <2> QED
    BY <1>3, <1>4, <1>5, <2>1, <2>2
<1> QED
  BY <1>6, <1>7, <1>8

\* The handover a move starts.
LEMMA MoveTypes ==
  ASSUME TypeInv, NEW e \in Entities, NEW p \in Points
  PROVE  LET n == HandoverOfMove(e, p)
         IN  /\ NotifyOK(n)
             /\ n = NoNotify \/
                  /\ n.at = "owners" /\ n.data = n.entities \cap Alive
                  /\ n.entities = GetHandoverEntities(groups, e)
                  /\ n.src = Current(CellOfPos(entity[e].pos)) /\ n.dst = Current(CellOfPos(p))
                  /\ Exists(CellOfPos(entity[e].pos)) /\ Exists(CellOfPos(p))
                  /\ CellOfPos(entity[e].pos) # CellOfPos(p) /\ e \in Alive
<1> DEFINE src == CellOfPos(entity[e].pos)
           dst == CellOfPos(p)
           S   == GetHandoverEntities(groups, e)
           n   == HandoverOfMove(e, p)
<1>1. src \in Cells \cup {NoCell} /\ dst \in Cells \cup {NoCell}
  BY PositionsArePoints, PointCell DEF TypeInv, GridInv, EntitiesOK, EntityOK
<1>2. CASE n = NoNotify
  BY <1>2 DEF NotifyOK
<1>3. CASE n # NoNotify
  <2>1. /\ n = [at |-> "owners", src |-> Current(src), dst |-> Current(dst),
                entities |-> S, data |-> S \cap Alive, conns |-> {}]
        /\ Exists(src) /\ Exists(dst) /\ src # dst /\ e \in Alive
    BY <1>3 DEF HandoverOfMove
  <2>2. /\ Current(src) \in Instances /\ Born(Current(src))
        /\ Current(dst) \in Instances /\ Born(Current(dst))
    BY <1>1, <2>1, CurrentBorn DEF TypeInv, Exists
  <2>3. Alive \subseteq Entities
    BY DEF Alive
  <2> HIDE DEF n, src, dst, S
  <2>4. /\ n.at = "owners" /\ n.src = Current(src) /\ n.dst = Current(dst)
        /\ n.entities = S /\ n.data = S \cap Alive /\ n.conns = {}
    BY <2>1
  <2>5. NotifyOK(n)
    BY <2>1, <2>2, <2>3, <2>4 DEF NotifyOK
  <2> QED
    BY <2>1, <2>4, <2>5 DEF n, src, dst, S
<1> QED
  BY <1>2, <1>3

LEMMA InboxTypes ==
  ASSUME TypeInv, GridInv', NEW e \in Entities,
         HandleUpdate(e) \/ SetObjRef(e) \/ HandleAddGroup(e) \/ HandleRemoveGroup(e)
  PROVE  TypeInv'
<1>1. /\ EntitiesOK(entity') /\ \A x \in Entities \ {e} : entity'[x] = entity[x]
      /\ SameCore(entity[e], entity'[e])
      /\ HandleUpdate(e) => NextOf(e).pos \in Positions
  BY InboxHandled
<1>2. \A x \in Entities : entity'[x].state = entity[x].state
  BY <1>1 DEF SameCore
<1>3. NotifiesOK(notify', entity')
  <2>1. notify' = notify \/ (HandleUpdate(e) /\ notify' = [notify EXCEPT ![e] = HandoverOfMove(e, NextOf(e).pos)])
    BY DEF HandleUpdate, SetObjRef, HandleAddGroup, HandleRemoveGroup
  <2>2. CASE notify' = notify
    BY <1>2, <2>2 DEF TypeInv, NotifiesOK
  <2>3. CASE HandleUpdate(e) /\ notify' = [notify EXCEPT ![e] = HandoverOfMove(e, NextOf(e).pos)]
    <3> DEFINE n == HandoverOfMove(e, NextOf(e).pos)
    <3>1. NextOf(e).pos \in Points
      BY <1>1, <2>3, PositionsArePoints DEF TypeInv, GridInv
    <3>2. NotifyOK(n)
      BY <3>1, MoveTypes
    <3>3. entity[e].state # "none"
      BY <2>3 DEF HandleUpdate, Entered
    <3>4. notify' = [notify EXCEPT ![e] = n]
      BY <2>3
    <3> HIDE DEF n
    <3> QED
      BY <1>2, <3>2, <3>3, <3>4 DEF TypeInv, NotifiesOK
  <2> QED
    BY <2>1, <2>2, <2>3
<1>4. \E type : Entered(e, type)
  BY DEF HandleUpdate, SetObjRef, HandleAddGroup, HandleRemoveGroup
<1> QED
  BY <1>1, <1>3, <1>4, TypesKept DEF Entered, TypeInv, worldVars

\* tickConnections of an entity channel.
LEMMA EntityTickChanges ==
  ASSUME TypeInv, NEW e \in Entities, EntityTick(e)
  PROVE  LET lost == {c \in closing : entity[e].access[c] # "none"}
         IN  /\ EntitiesOK(entity') /\ \A x \in Entities \ {e} : entity'[x] = entity[x]
             /\ entity'[e].state = entity[e].state /\ entity'[e].pos = entity[e].pos
             /\ entity'[e].owner = IF entity[e].owner \in lost THEN NoConn ELSE entity[e].owner
             /\ \A c \in Conns : entity'[e].access[c] =
                  IF c \in lost THEN "none" ELSE entity[e].access[c]
             /\ globalQueue' = globalQueue \o RemovalOf(e, lost)
<1> DEFINE lost == {c \in closing : entity[e].access[c] # "none"}
           access == [c \in Conns |-> IF c \in lost THEN "none" ELSE entity[e].access[c]]
           owner == IF entity[e].owner \in lost THEN NoConn ELSE entity[e].owner
           r == [entity[e] EXCEPT !.access = access]
           q == [r EXCEPT !.owner = owner]
<1>1. EntityOK(entity[e]) /\ entity = [x \in Entities |-> entity[x]]
  BY DEF TypeInv, EntitiesOK
<1>2. /\ entity' = [entity EXCEPT ![e] = q]
      /\ globalQueue' = globalQueue \o RemovalOf(e, lost)
  <2>1. /\ entity' = [entity EXCEPT
             ![e].access = [c \in Conns |-> IF c \in lost THEN "none" ELSE entity[e].access[c]],
             ![e].owner = IF entity[e].owner \in lost THEN NoConn ELSE entity[e].owner]
        /\ globalQueue' = globalQueue \o RemovalOf(e, lost)
    BY <1>1 DEF EntityTick
  <2> HIDE DEF lost
  <2> QED
    BY <1>1, <2>1
<1>3. access \in [Conns -> {"none"} \cup Rights]
  BY <1>1 DEF EntityOK
<1>4. owner \in Senders \cup {NoConn}
  BY <1>1 DEF EntityOK
<1>5. \A c \in Conns : access[c] = IF c \in lost THEN "none" ELSE entity[e].access[c]
  OBVIOUS
<1> HIDE DEF access
<1>6. r = [state |-> entity[e].state, owner |-> entity[e].owner, pos |-> entity[e].pos,
           ref |-> entity[e].ref, access |-> access, inbox |-> entity[e].inbox]
  BY <1>1, EntityField DEF EntityOK
<1> HIDE DEF r
<1>7. /\ IsEntity(r) /\ r.state = entity[e].state /\ r.owner = entity[e].owner
      /\ r.pos = entity[e].pos /\ r.access = access /\ r.inbox = entity[e].inbox
  BY <1>6, EntityRecord
<1>8. EntityOK(r)
  BY <1>1, <1>3, <1>7 DEF EntityOK
<1> HIDE DEF owner
<1>9. /\ EntityOK(q) /\ q.owner = owner /\ q.state = r.state /\ q.pos = r.pos
      /\ q.access = r.access
  BY <1>4, <1>8, OwnerChanged
<1> HIDE DEF q
<1>10. EntitySet(entity, entity', e, q)
  BY <1>2, EntityReplaced DEF TypeInv
<1>11. EntitiesOK(entity')
  BY <1>9, <1>10, EntitySetOK DEF TypeInv
<1>12. entity'[e] = q /\ \A x \in Entities \ {e} : entity'[x] = entity[x]
  BY <1>10 DEF EntitySet
<1> HIDE DEF lost
<1>13. owner = IF entity[e].owner \in lost THEN NoConn ELSE entity[e].owner
  BY DEF owner
<1> QED
  BY <1>2, <1>5, <1>7, <1>9, <1>11, <1>12, <1>13 DEF lost

LEMMA AppendIsConcatenation ==
  ASSUME NEW q, IsQueue(q), NEW m
  PROVE  q \o <<m>> = Append(q, m) /\ q \o <<>> = q
<1>1. q \in Seq(Range(q) \cup {m})
  <2>1. Range(q) \subseteq Range(q) \cup {m}
    OBVIOUS
  <2> QED
    BY <2>1, SeqMonotonic DEF IsQueue
<1> QED
  BY <1>1

LEMMA EntityTickTypes ==
  ASSUME TypeInv, GridInv', NEW e \in Entities, EntityTick(e)
  PROVE  TypeInv'
<1> DEFINE lost == {c \in closing : entity[e].access[c] # "none"}
           m == [type |-> "removeEntity", entity |-> e]
<1>1. /\ EntitiesOK(entity') /\ \A x \in Entities \ {e} : entity'[x] = entity[x]
      /\ entity'[e].state = entity[e].state
      /\ globalQueue' = globalQueue \o RemovalOf(e, lost)
  BY EntityTickChanges
<1>2. GlobalOK(globalQueue')
  <2> HIDE DEF lost
  <2>1. IsQueue(globalQueue) /\ \A k \in DOMAIN globalQueue : GlobalWork(globalQueue[k])
    BY DEF TypeInv, GlobalOK
  <2>2. globalQueue' = globalQueue \/ globalQueue' = Append(globalQueue, m)
    <3>1. RemovalOf(e, lost) = <<>> \/ RemovalOf(e, lost) = <<m>>
      BY DEF RemovalOf
    <3> HIDE DEF m
    <3> QED
      BY <1>1, <2>1, <3>1, AppendIsConcatenation
  <2>3. GlobalWork(m)
    BY DEF GlobalWork
  <2> HIDE DEF GlobalWork, m
  <2>4. GlobalOK(Append(globalQueue, m))
    BY <2>1, <2>3, AppendedWork DEF GlobalOK
  <2> QED
    BY <2>2, <2>4 DEF TypeInv
<1>3. NotifiesOK(notify', entity')
  BY <1>1 DEF EntityTick, TypeInv, NotifiesOK
<1> QED
  BY <1>1, <1>2, <1>3, TypesKept DEF EntityTick, TypeInv, worldVars

-----------------------------------------------------------------------------
(* The steps of Notify.                                                      *)

LEMMA NotifyField ==
  ASSUME NEW n, NotifyOK(n), n # NoNotify, NEW v
  PROVE  /\ [n EXCEPT !.at = v] = [at |-> v, src |-> n.src, dst |-> n.dst,
                                   entities |-> n.entities, data |-> n.data, conns |-> n.conns]
         /\ [n EXCEPT !.conns = v] = [at |-> n.at, src |-> n.src, dst |-> n.dst,
                                      entities |-> n.entities, data |-> n.data, conns |-> v]
<1>1. n = [at |-> n.at, src |-> n.src, dst |-> n.dst, entities |-> n.entities,
           data |-> n.data, conns |-> n.conns]
  BY DEF NotifyOK
<1>2. \A a, b, c, d, f, g :
        /\ [[at |-> a, src |-> b, dst |-> c, entities |-> d, data |-> f, conns |-> g] EXCEPT !.at = v]
           = [at |-> v, src |-> b, dst |-> c, entities |-> d, data |-> f, conns |-> g]
        /\ [[at |-> a, src |-> b, dst |-> c, entities |-> d, data |-> f, conns |-> g] EXCEPT !.conns = v]
           = [at |-> a, src |-> b, dst |-> c, entities |-> d, data |-> f, conns |-> v]
  OBVIOUS
<1> QED
  BY <1>1, <1>2

LEMMA NotifyRecord ==
  ASSUME NEW n, NEW a, NEW b, NEW c, NEW d, NEW f, NEW g,
         n = [at |-> a, src |-> b, dst |-> c, entities |-> d, data |-> f, conns |-> g]
  PROVE  /\ n = [at |-> n.at, src |-> n.src, dst |-> n.dst, entities |-> n.entities,
                 data |-> n.data, conns |-> n.conns]
         /\ n.at = a /\ n.src = b /\ n.dst = c /\ n.entities = d /\ n.data = f /\ n.conns = g
OBVIOUS

\* The Notify of e goes on: to step a, with connections C still to subscribe.
NotifyMoved(e, a, C) ==
  LET m == notify[e]
      n == notify'[e]
  IN  /\ notify' = [x \in Entities |-> notify'[x]]
      /\ \A x \in Entities \ {e} : notify'[x] = notify[x]
      /\ NotifyOK(m) /\ m # NoNotify /\ NotifyOK(n) /\ n # NoNotify
      /\ n.at = a /\ n.conns = C /\ n.src = m.src /\ n.dst = m.dst
      /\ n.entities = m.entities /\ n.data = m.data

LEMMA NotifyMoves ==
  ASSUME TypeInv, NEW e \in Entities, notify[e].at # "idle", NEW r,
         NotifyOK(notify[e]) => NotifyOK(r) /\ r # NoNotify,
         notify' = [notify EXCEPT ![e] = r],
         r.src = notify[e].src, r.dst = notify[e].dst,
         r.entities = notify[e].entities, r.data = notify[e].data
  PROVE  NotifyMoved(e, r.at, r.conns)
<1>1. notify = [x \in Entities |-> notify[x]] /\ NotifyOK(notify[e])
  BY DEF TypeInv, NotifiesOK
<1>2. /\ notify' = [x \in Entities |-> notify'[x]] /\ notify'[e] = r
      /\ \A x \in Entities \ {e} : notify'[x] = notify[x]
  BY <1>1
<1>3. notify[e] # NoNotify
  BY DEF NoNotify
<1> QED
  BY <1>1, <1>2, <1>3 DEF NotifyMoved

\* A goroutine in Notify whose record r has step a and connections C.
Onward(e, r, a, C) ==
  /\ r.at = a /\ r.conns = C /\ r.src = notify[e].src /\ r.dst = notify[e].dst
  /\ r.entities = notify[e].entities /\ r.data = notify[e].data
  /\ r = [at |-> r.at, src |-> r.src, dst |-> r.dst, entities |-> r.entities,
          data |-> r.data, conns |-> r.conns]

LEMMA NotifyOnward ==
  ASSUME TypeInv, NEW e \in Entities, notify[e].at # "idle", NEW r,
         NEW a \in {"owners", "remove", "add", "subscribe"}, NEW C, C \subseteq Conns,
         Onward(e, r, a, C), notify' = [notify EXCEPT ![e] = r]
  PROVE  NotifyMoved(e, a, C)
<1>1. notify[e] # NoNotify /\ NotifyOK(notify[e])
  BY DEF NoNotify, TypeInv, NotifiesOK
<1>2. NotifyOK(r) /\ r # NoNotify
  <2>1. r.at # "idle"
    BY DEF Onward
  <2>2. NoNotify.at = "idle"
    BY DEF NoNotify
  <2>3. r # NoNotify
    BY <2>1, <2>2
  <2> QED
    BY <1>1, <2>3 DEF NotifyOK, Onward
<1>3. r.at = a /\ r.conns = C /\ NotifyMoved(e, r.at, r.conns)
  BY <1>2, NotifyMoves DEF Onward
<1> QED
  BY <1>3

LEMMA NotifyStepsAt ==
  ASSUME TypeInv, NEW e \in Entities, notify[e].at # "idle",
         NEW a \in {"owners", "remove", "add", "subscribe"}, NEW C, C \subseteq Conns
  PROVE  /\ notify' = [notify EXCEPT ![e].at = a] => NotifyMoved(e, a, notify[e].conns)
         /\ notify' = [notify EXCEPT ![e].conns = C] => NotifyMoved(e, notify[e].at, C)
         /\ notify' = [notify EXCEPT ![e].at = a, ![e].conns = C] => NotifyMoved(e, a, C)
<1> DEFINE n == notify[e]
<1>1. /\ n # NoNotify /\ NotifyOK(n) /\ notify = [x \in Entities |-> notify[x]]
      /\ n.at \in {"owners", "remove", "add", "subscribe"} /\ n.conns \subseteq Conns
  BY DEF NoNotify, TypeInv, NotifiesOK, NotifyOK
<1> HIDE DEF n
<1>4. ASSUME notify' = [notify EXCEPT ![e].at = a] PROVE NotifyMoved(e, a, n.conns)
  <2> DEFINE r == [n EXCEPT !.at = a]
  <2>1. notify' = [notify EXCEPT ![e] = r]
    BY <1>4 DEF n
  <2>2. r = [at |-> a, src |-> n.src, dst |-> n.dst, entities |-> n.entities,
             data |-> n.data, conns |-> n.conns]
    BY <1>1, NotifyField
  <2> HIDE DEF r
  <2>3. Onward(e, r, a, n.conns)
    BY <2>2, NotifyRecord DEF Onward, n
  <2> QED
    BY <1>1, <2>1, <2>3, NotifyOnward
<1>5. ASSUME notify' = [notify EXCEPT ![e].conns = C] PROVE NotifyMoved(e, n.at, C)
  <2> DEFINE r == [n EXCEPT !.conns = C]
  <2>1. notify' = [notify EXCEPT ![e] = r]
    BY <1>5 DEF n
  <2>2. r = [at |-> n.at, src |-> n.src, dst |-> n.dst, entities |-> n.entities,
             data |-> n.data, conns |-> C]
    BY <1>1, NotifyField
  <2> HIDE DEF r
  <2>3. Onward(e, r, n.at, C)
    BY <2>2, NotifyRecord DEF Onward, n
  <2> QED
    BY <1>1, <2>1, <2>3, NotifyOnward
<1>6. ASSUME notify' = [notify EXCEPT ![e].at = a, ![e].conns = C] PROVE NotifyMoved(e, a, C)
  <2> DEFINE p == [n EXCEPT !.at = a]
             r == [p EXCEPT !.conns = C]
  <2>1. notify' = [notify EXCEPT ![e] = r]
    BY <1>1, <1>6 DEF n
  <2>2. p = [at |-> a, src |-> n.src, dst |-> n.dst, entities |-> n.entities,
             data |-> n.data, conns |-> n.conns]
    BY <1>1, NotifyField
  <2> HIDE DEF p
  <2>3. /\ p = [at |-> p.at, src |-> p.src, dst |-> p.dst, entities |-> p.entities,
                data |-> p.data, conns |-> p.conns]
        /\ p.at = a /\ p.src = n.src /\ p.dst = n.dst /\ p.entities = n.entities
        /\ p.data = n.data /\ p.conns = n.conns
    BY <2>2, NotifyRecord
  <2>4. NotifyOK(p) /\ p # NoNotify
    <3>1. NoNotify.at = "idle" /\ p.at # "idle"
      BY <2>3 DEF NoNotify
    <3> QED
      BY <1>1, <2>3, <3>1 DEF NotifyOK
  <2>5. r = [at |-> a, src |-> n.src, dst |-> n.dst, entities |-> n.entities,
             data |-> n.data, conns |-> C]
    BY <2>3, <2>4, NotifyField
  <2> HIDE DEF r
  <2>6. Onward(e, r, a, C)
    BY <2>5, NotifyRecord DEF Onward, n
  <2> QED
    BY <2>1, <2>6, NotifyOnward
<1> QED
  BY <1>4, <1>5, <1>6 DEF n

\* The entity channels that a Notify to another server's channel hands over, and
\* those whose data it took along.
Crossing(e) == IF SameOwner(notify[e].src, notify[e].dst) THEN {} ELSE notify[e].entities \cap Alive
Carried(e)  == notify[e].data \cap Alive

\* Is server c, which loses entities in e's Notify, unsubscribed from them?
Leaves(e, c) == c = spatial[notify[e].src].owner /\ Live(c) /\ notify[e].dst[1] \notin interest[c]

LEMMA NotifyOwnersChanges ==
  ASSUME TypeInv, NEW e \in Entities, NotifyOwners(e)
  PROVE  /\ EntitiesOK(entity')
         /\ NotifyMoved(e, "remove", notify[e].conns)
         /\ \A x \in Entities \ Crossing(e) : entity'[x] = entity[x]
         /\ \A x \in Entities :
              /\ entity'[x].state = entity[x].state /\ entity'[x].pos = entity[x].pos
              /\ x \in Crossing(e) =>
                   /\ entity'[x].owner = spatial[notify[e].dst].owner
                   /\ \A c \in Conns : entity'[x].access[c] =
                        IF Leaves(e, c) THEN "none" ELSE entity[x].access[c]
<1> DEFINE from == spatial[notify[e].src].owner
           to   == spatial[notify[e].dst].owner
           leaves == Live(from) /\ notify[e].dst[1] \notin interest[from]
           Left(E) == IF leaves THEN Unsubscribe(E, from) ELSE E
           r(x) == [Left(entity[x]) EXCEPT !.owner = to]
<1>1. entity' = [x \in Entities |-> IF x \in Crossing(e) THEN r(x) ELSE entity[x]]
  BY DEF NotifyOwners, Crossing
<1>2. NotifyOK(notify[e]) /\ notify[e].at = "owners"
  BY DEF TypeInv, NotifiesOK, NotifyOwners, At
<1>3. notify[e].src \in Instances /\ notify[e].dst \in Instances
  BY <1>2 DEF NotifyOK, NoNotify
<1>4. from \in Servers \cup {NoConn} /\ to \in Senders \cup {NoConn}
  BY <1>3 DEF TypeInv, ChannelsOK, ChannelOK, Senders
<1>5. leaves => from \in Conns
  BY <1>4 DEF Live, Conns
<1>6. NotifyMoved(e, "remove", notify[e].conns)
  <2>1. notify' = [notify EXCEPT ![e].at = "remove"] /\ notify[e].at # "idle"
    BY <1>2 DEF NotifyOwners
  <2> QED
    BY <2>1, NotifyStepsAt
<1>7. \A c \in Conns : Leaves(e, c) <=> c = from /\ leaves
  BY DEF Leaves
<1> HIDE DEF from, to, leaves
<1>8. ASSUME NEW x \in Entities
      PROVE  /\ EntityOK(r(x)) /\ r(x).state = entity[x].state /\ r(x).pos = entity[x].pos
             /\ r(x).owner = to
             /\ \A c \in Conns : r(x).access[c] =
                  IF c = from /\ leaves THEN "none" ELSE entity[x].access[c]
  <2> DEFINE p == Left(entity[x])
  <2>1. EntityOK(entity[x])
    BY DEF TypeInv, EntitiesOK
  <2>2. /\ EntityOK(p) /\ SameBut(entity[x], p)
        /\ \A c \in Conns : p.access[c] = IF c = from /\ leaves THEN "none" ELSE entity[x].access[c]
    <3>1. CASE leaves
      <4>1. /\ EntityOK(Unsubscribe(entity[x], from)) /\ SameBut(entity[x], Unsubscribe(entity[x], from))
            /\ AccessSet(entity[x].access, Unsubscribe(entity[x], from).access, from, "none")
        BY <1>5, <2>1, <3>1, Unsubscribes
      <4> QED
        BY <3>1, <4>1 DEF AccessSet
    <3>2. CASE ~leaves
      BY <2>1, <3>2 DEF SameBut
    <3> QED
      BY <3>1, <3>2
  <2> HIDE DEF p
  <2>3. LET t == [p EXCEPT !.owner = to]
        IN  EntityOK(t) /\ t.owner = to /\ t.state = p.state /\ t.pos = p.pos /\ t.access = p.access
    BY <1>4, <2>2, OwnerChanged
  <2>4. r(x) = [p EXCEPT !.owner = to]
    BY DEF p
  <2> HIDE DEF r
  <2> QED
    BY <2>2, <2>3, <2>4 DEF SameBut
<1> HIDE DEF r
<1>9. entity' = [x \in Entities |-> entity'[x]]
      /\ \A x \in Entities : entity'[x] = IF x \in Crossing(e) THEN r(x) ELSE entity[x]
  BY <1>1
<1>10. EntitiesOK(entity')
  BY <1>8, <1>9 DEF EntitiesOK, TypeInv
<1> QED
  BY <1>6, <1>7, <1>8, <1>9, <1>10 DEF to

LEMMA NotifySubscribeChanges ==
  ASSUME TypeInv, NEW e \in Entities, NEW c \in Conns, NotifySubscribe(e, c)
  PROVE  /\ EntitiesOK(entity')
         /\ NotifyMoved(e, "subscribe", notify[e].conns \ {c})
         /\ c \in notify[e].conns /\ notify[e].at = "subscribe"
         /\ \A x \in Entities \ Carried(e) : entity'[x] = entity[x]
         /\ \A x \in Entities :
              /\ SameBut(entity[x], entity'[x])
              /\ x \in Carried(e) => \A d \in Conns : entity'[x].access[d] =
                   IF d = c /\ c \notin closing
                   THEN IF c = entity[x].owner THEN "write" ELSE "read"
                   ELSE entity[x].access[d]
<1> DEFINE r(x) == Subscribe(entity[x], c, AccessOf(entity[x], c))
<1>1. entity' = [x \in Entities |-> IF x \in Carried(e) THEN r(x) ELSE entity[x]]
  BY DEF NotifySubscribe, Carried
<1>2. NotifyOK(notify[e]) /\ notify[e].at = "subscribe" /\ c \in notify[e].conns
  BY DEF TypeInv, NotifiesOK, NotifySubscribe, At
<1>3. NotifyMoved(e, "subscribe", notify[e].conns \ {c})
  <2>1. notify' = [notify EXCEPT ![e].conns = notify[e].conns \ {c}] /\ notify[e].at # "idle"
    BY <1>2 DEF NotifySubscribe, TypeInv, NotifiesOK
  <2>2. notify[e].conns \ {c} \subseteq Conns
    BY <1>2 DEF NotifyOK, NoNotify
  <2> QED
    BY <1>2, <2>1, <2>2, NotifyStepsAt
<1>4. ASSUME NEW x \in Entities
      PROVE  /\ EntityOK(r(x)) /\ SameBut(entity[x], r(x))
             /\ \A d \in Conns : r(x).access[d] =
                  IF d = c /\ c \notin closing
                  THEN IF c = entity[x].owner THEN "write" ELSE "read"
                  ELSE entity[x].access[d]
  <2> DEFINE v == AccessOf(entity[x], c)
  <2>1. EntityOK(entity[x])
    BY DEF TypeInv, EntitiesOK
  <2>2. v \in {"none"} \cup Rights /\ v = IF c = entity[x].owner THEN "write" ELSE "read"
    BY DEF AccessOf, Rights
  <2> HIDE DEF v
  <2>3. /\ EntityOK(Subscribe(entity[x], c, v)) /\ SameBut(entity[x], Subscribe(entity[x], c, v))
        /\ c \in closing => Subscribe(entity[x], c, v) = entity[x]
        /\ c \notin closing => AccessSet(entity[x].access, Subscribe(entity[x], c, v).access, c, v)
    BY <2>1, <2>2, Subscribes
  <2>4. r(x) = Subscribe(entity[x], c, v)
    BY DEF v
  <2> HIDE DEF r
  <2> QED
    BY <2>2, <2>3, <2>4 DEF AccessSet
<1> HIDE DEF r
<1>5. entity' = [x \in Entities |-> entity'[x]]
      /\ \A x \in Entities : entity'[x] = IF x \in Carried(e) THEN r(x) ELSE entity[x]
  BY <1>1
<1>6. EntitiesOK(entity')
  BY <1>4, <1>5 DEF EntitiesOK, TypeInv
<1> QED
  BY <1>2, <1>3, <1>4, <1>5, <1>6 DEF SameBut

\* The goroutines in Notify stay those of entity channels that were created.
LEMMA NotifyMovedOK ==
  ASSUME TypeInv, NEW e \in Entities, NEW a, NEW C, NotifyMoved(e, a, C),
         \A x \in Entities : entity'[x].state = entity[x].state
  PROVE  NotifiesOK(notify', entity')
<1>1. ASSUME NEW x \in Entities
      PROVE  NotifyOK(notify'[x]) /\ (notify'[x].at # "idle" => entity'[x].state # "none")
  <2>1. NotifyOK(notify[x]) /\ (notify[x].at # "idle" => entity[x].state # "none")
    BY DEF TypeInv, NotifiesOK
  <2>2. CASE x = e
    <3>1. NotifyOK(notify'[e]) /\ NotifyOK(notify[e]) /\ notify[e] # NoNotify
      BY DEF NotifyMoved
    <3>2. notify[e].at # "idle"
      BY <3>1 DEF NotifyOK
    <3> QED
      BY <2>1, <2>2, <3>1, <3>2
  <2>3. CASE x # e
    BY <2>1, <2>3 DEF NotifyMoved
  <2> QED
    BY <2>2, <2>3
<1> QED
  BY <1>1 DEF NotifiesOK, NotifyMoved

LEMMA NotifyTypes ==
  ASSUME TypeInv, GridInv', NEW e \in Entities, NotifyStep(e)
  PROVE  TypeInv'
<1>1. ASSUME UNCHANGED NotifyVars, ChannelsOK(spatial'), EntitiesOK(entity'), NotifiesOK(notify', entity')
      PROVE  TypeInv'
  BY <1>1, TypesKept DEF NotifyVars, worldVars, TypeInv
<1>2. CASE NotifyOwners(e)
  <2>1. ChannelsOK(spatial') /\ UNCHANGED NotifyVars
    BY <1>2 DEF NotifyOwners, TypeInv
  <2> QED
    BY <1>1, <1>2, <2>1, NotifyOwnersChanges, NotifyMovedOK
<1>3. CASE \E c \in Conns : NotifySubscribe(e, c)
  <2>1. PICK c \in Conns : NotifySubscribe(e, c)
    BY <1>3
  <2>2. ChannelsOK(spatial') /\ UNCHANGED NotifyVars
    BY <2>1 DEF NotifySubscribe, TypeInv
  <2>3. /\ EntitiesOK(entity') /\ NotifyMoved(e, "subscribe", notify[e].conns \ {c})
        /\ \A x \in Entities : SameBut(entity[x], entity'[x])
    BY <2>1, NotifySubscribeChanges
  <2> QED
    BY <1>1, <2>2, <2>3, NotifyMovedOK DEF SameBut
<1>4. CASE NotifyReturns(e)
  <2>1. ChannelsOK(spatial') /\ EntitiesOK(entity') /\ UNCHANGED NotifyVars
    BY <1>4 DEF NotifyReturns, TypeInv
  <2>2. NotifiesOK(notify', entity')
    <3>1. /\ notify' = [notify EXCEPT ![e] = NoNotify] /\ entity' = entity
          /\ NotifyOK(NoNotify) /\ NoNotify.at = "idle"
      BY <1>4 DEF NotifyReturns, NotifyOK, NoNotify
    <3> HIDE DEF NoNotify
    <3> QED
      BY <3>1 DEF NotifiesOK, TypeInv
  <2> QED
    BY <1>1, <2>1, <2>2
<1>5. CASE NotifyRemove(e)
  <2> DEFINE n == notify[e]
             m == Callback("remove", n.entities)
  <2>1. notify[e].at = "remove" /\ NotifyOK(notify[e])
    BY <1>5 DEF NotifyRemove, At, TypeInv, NotifiesOK
  <2>2. n.src \in Instances /\ Born(n.src)
    BY <2>1 DEF NotifyOK, NoNotify
  <2>3. SpatialWork(m)
    BY DEF SpatialWork, Callback
  <2>4. spatial' = Execute(spatial, n.src, m) /\ UNCHANGED NotifyVars /\ entity' = entity
    BY <1>5 DEF NotifyRemove
  <2> HIDE DEF m
  <2>5. QueueSet(spatial, spatial', n.src, Append(spatial[n.src].queue, m))
    BY <2>2, <2>4, ExecuteChanges DEF TypeInv, ChannelsOK
  <2>6. ChannelsOK(spatial')
    BY <2>2, <2>3, <2>5, QueuedOK DEF TypeInv
  <2>7. NotifyMoved(e, "add", notify[e].conns)
    BY <1>5, <2>1, NotifyStepsAt DEF NotifyRemove
  <2> QED
    BY <1>1, <2>4, <2>6, <2>7, NotifyMovedOK DEF TypeInv
<1>6. CASE NotifyAdd(e)
  <2> DEFINE n == notify[e]
             m == Callback("add", n.data)
             C == spatial[n.dst].subs
  <2>1. notify[e].at = "add" /\ NotifyOK(notify[e])
    BY <1>6 DEF NotifyAdd, At, TypeInv, NotifiesOK
  <2>2. n.dst \in Instances /\ Born(n.dst) /\ n.data \subseteq Entities
    BY <2>1 DEF NotifyOK, NoNotify
  <2>3. SpatialWork(m)
    BY <2>2 DEF SpatialWork, Callback
  <2>4. spatial' = Execute(spatial, n.dst, m) /\ UNCHANGED NotifyVars /\ entity' = entity
    BY <1>6 DEF NotifyAdd
  <2> HIDE DEF m
  <2>5. QueueSet(spatial, spatial', n.dst, Append(spatial[n.dst].queue, m))
    BY <2>2, <2>4, ExecuteChanges DEF TypeInv, ChannelsOK
  <2>6. ChannelsOK(spatial')
    BY <2>2, <2>3, <2>5, QueuedOK DEF TypeInv
  <2>7. NotifyMoved(e, "subscribe", C)
    <3>1. notify' = [notify EXCEPT ![e].at = "subscribe", ![e].conns = C] /\ C \subseteq Conns
      BY <1>6, <2>2 DEF NotifyAdd, TypeInv, ChannelsOK, ChannelOK
    <3> HIDE DEF C
    <3> QED
      BY <2>1, <3>1, NotifyStepsAt
  <2> QED
    BY <1>1, <2>4, <2>6, <2>7, NotifyMovedOK DEF TypeInv
<1> QED
  BY <1>2, <1>3, <1>4, <1>5, <1>6 DEF NotifyStep

-----------------------------------------------------------------------------
(* The initial state.                                                        *)

\* The owner of a channel that is in the world from the beginning.
LEMMA FirstOwner ==
  ASSUME scenario \in Scenarios, Ready, NEW c \in Cells
  PROVE  /\ OwnerOfCell(c) \in Servers /\ RegionServer(grid, c) \in ServerIndexes(grid)
         /\ OwnerOfCell(c) = scenario.owners[RegionServer(grid, c) + 1]
         /\ c \in ChannelsOfServer(grid, RegionServer(grid, c))
<1>1. grid \in Grids
  BY CellsInTable
<1>2. RegionServer(grid, c) \in ServerIndexes(grid)
  BY <1>1, EveryChannelHasAServer DEF Cells
<1>3. \A i \in ServerIndexes(grid) : c \in ChannelsOfServer(grid, i) <=> i = RegionServer(grid, c)
  BY <1>1, RegionsAreChannels DEF Cells
<1>4. (CHOOSE i \in ServerIndexes(grid) : c \in ChannelsOfServer(grid, i)) = RegionServer(grid, c)
  BY <1>2, <1>3
<1>5. ServerCount(grid) \in Nat
  BY <1>1 DEF Grids, ServerCount
<1>6. 1 + RegionServer(grid, c) = RegionServer(grid, c) + 1 /\ RegionServer(grid, c) + 1 \in 1..ServerCount(grid)
  BY <1>2, <1>5 DEF ServerIndexes
<1>7. scenario.owners \in [1..ServerCount(grid) -> Servers]
  BY HandoverAssumption DEF grid, Ready
<1> QED
  BY <1>2, <1>3, <1>4, <1>6, <1>7 DEF OwnerOfCell

\* The channels that are in the world from the beginning.
FirstChannels ==
  \A i \in Instances :
    /\ spatial[i].queue = <<>>
    /\ spatial[i].owner = IF Ready /\ i[2] = 1 /\ i[1] \in Cells THEN OwnerOfCell(i[1]) ELSE NoConn
    /\ spatial[i].subs = IF Ready /\ i[2] = 1 /\ i[1] \in Cells
                         THEN {c \in Conns : i[1] \in SubscriberCells(c)} ELSE {}
    /\ spatial[i].entities = IF Ready /\ i[2] = 1 /\ i[1] \in Cells
                             THEN {e \in Entities : PlacedIn(e) = i[1]} ELSE {}

LEMMA InitChannels ==
  ASSUME Init
  PROVE  FirstChannels
<1> DEFINE there(i) == {e \in Entities : PlacedIn(e) = i[1]}
           subs(i) == {c \in Conns : i[1] \in SubscriberCells(c)}
           first(i) == [NewSpatial(OwnerOfCell(i[1])) EXCEPT !.subs = subs(i), !.entities = there(i)]
<1>1. spatial = [i \in Instances |->
        IF Ready /\ i[2] = 1 /\ i[1] \in Cells THEN first(i) ELSE NewSpatial(NoConn)]
  BY DEF Init
<1>2. \A o : /\ NewSpatial(o).owner = o /\ NewSpatial(o).subs = {} /\ NewSpatial(o).entities = {}
             /\ NewSpatial(o).queue = <<>> /\ IsChannel(NewSpatial(o))
  BY DEF NewSpatial, IsChannel
<1>3. ASSUME NEW i
      PROVE  /\ first(i).owner = OwnerOfCell(i[1]) /\ first(i).subs = subs(i)
             /\ first(i).entities = there(i) /\ first(i).queue = <<>>
  <2> DEFINE s == subs(i)
             t == there(i)
             p == NewSpatial(OwnerOfCell(i[1]))
             r == [p EXCEPT !.subs = s]
             q == [r EXCEPT !.entities = t]
  <2>1. first(i) = q
    OBVIOUS
  <2>2. IsChannel(p) /\ p.owner = OwnerOfCell(i[1]) /\ p.entities = {} /\ p.queue = <<>>
    BY <1>2
  <2> HIDE DEF p, s, t
  <2>3. r = [owner |-> p.owner, subs |-> s, entities |-> p.entities, queue |-> p.queue]
    BY <2>2, ChannelField
  <2> HIDE DEF r
  <2>4. IsChannel(r) /\ r.owner = p.owner /\ r.subs = s /\ r.queue = p.queue
    BY <2>3, ChannelRecord
  <2>5. q = [owner |-> r.owner, subs |-> r.subs, entities |-> t, queue |-> r.queue]
    BY <2>4, ChannelField
  <2> HIDE DEF q
  <2>6. q.owner = r.owner /\ q.subs = r.subs /\ q.entities = t /\ q.queue = r.queue
    BY <2>5, ChannelRecord
  <2> HIDE DEF first
  <2> QED
    BY <2>1, <2>2, <2>4, <2>6 DEF s, t
<1> HIDE DEF first, subs, there
<1>4. ASSUME NEW i \in Instances
      PROVE  spatial[i] = IF Ready /\ i[2] = 1 /\ i[1] \in Cells THEN first(i) ELSE NewSpatial(NoConn)
  BY <1>1
<1>5. ASSUME NEW i \in Instances, Ready, i[2] = 1, i[1] \in Cells
      PROVE  /\ spatial[i].queue = <<>> /\ spatial[i].owner = OwnerOfCell(i[1])
             /\ spatial[i].subs = subs(i) /\ spatial[i].entities = there(i)
  <2>1. spatial[i] = first(i)
    BY <1>4, <1>5
  <2> QED
    BY <1>3, <2>1
<1>6. ASSUME NEW i \in Instances, ~(Ready /\ i[2] = 1 /\ i[1] \in Cells)
      PROVE  /\ spatial[i].queue = <<>> /\ spatial[i].owner = NoConn
             /\ spatial[i].subs = {} /\ spatial[i].entities = {}
  <2>1. spatial[i] = NewSpatial(NoConn)
    BY <1>4, <1>6
  <2> QED
    BY <1>2, <2>1
<1> SUFFICES ASSUME NEW i \in Instances
             PROVE  /\ spatial[i].queue = <<>>
                    /\ spatial[i].owner =
                         IF Ready /\ i[2] = 1 /\ i[1] \in Cells THEN OwnerOfCell(i[1]) ELSE NoConn
                    /\ spatial[i].subs =
                         IF Ready /\ i[2] = 1 /\ i[1] \in Cells THEN subs(i) ELSE {}
                    /\ spatial[i].entities =
                         IF Ready /\ i[2] = 1 /\ i[1] \in Cells THEN there(i) ELSE {}
  BY DEF FirstChannels, subs, there
<1>7. CASE Ready /\ i[2] = 1 /\ i[1] \in Cells
  BY <1>5, <1>7
<1>8. CASE ~(Ready /\ i[2] = 1 /\ i[1] \in Cells)
  BY <1>6, <1>8
<1> QED
  BY <1>7, <1>8

\* The entities that are in the world from the beginning.
FirstEntities ==
  \A e \in Entities :
    /\ scenario.placed[e] = NoPos => entity[e] = NoEntity
    /\ scenario.placed[e] # NoPos =>
         /\ Ready /\ PlacedIn(e) \in Cells
         /\ EntityOK(entity[e]) /\ entity[e].state = "alive"
         /\ entity[e].owner = OwnerOfCell(PlacedIn(e)) /\ entity[e].pos = scenario.placed[e]
         /\ \A c \in Conns :
              entity[e].access[c] = IF c = entity[e].owner THEN scenario.access[e] ELSE "none"

LEMMA InitEntities ==
  ASSUME Init
  PROVE  FirstEntities /\ EntitiesOK(entity)
<1>1. scenario \in Scenarios /\ closing = {}
  BY DEF Init
<1>2. scenario.placed \in [Entities -> Points] /\ \A e \in Entities : scenario.placed[e] # NoPos =>
        scenario.owners # <<>> /\ GetChannelId(scenario.grid, scenario.placed[e]) # NoCell
  BY <1>1, HandoverAssumption
<1>3. entity = [e \in Entities |->
       IF scenario.placed[e] = NoPos THEN NoEntity
       ELSE NewEntity(OwnerOfCell(PlacedIn(e)),
                      [pos |-> scenario.placed[e], ref |-> TRUE, access |-> scenario.access[e]])]
  BY DEF Init
<1>4. ASSUME NEW e \in Entities, scenario.placed[e] # NoPos
      PROVE  /\ Ready /\ PlacedIn(e) \in Cells
             /\ EntityOK(entity[e]) /\ entity[e].state = "alive"
             /\ entity[e].owner = OwnerOfCell(PlacedIn(e)) /\ entity[e].pos = scenario.placed[e]
             /\ \A c \in Conns :
                  entity[e].access[c] = IF c = entity[e].owner THEN scenario.access[e] ELSE "none"
  <2>1. Ready /\ PlacedIn(e) \in Cells
    <3>1. scenario.placed[e] \in Points /\ PlacedIn(e) # NoCell
      BY <1>2, <1>4 DEF PlacedIn, CellOfPos, grid
    <3> QED
      BY <1>1, <1>2, <1>4, <3>1, PointCell DEF Ready, PlacedIn
  <2> DEFINE o == OwnerOfCell(PlacedIn(e))
             m == [pos |-> scenario.placed[e], ref |-> TRUE, access |-> scenario.access[e]]
  <2>2. o \in Senders
    BY <1>1, <2>1, FirstOwner DEF Senders
  <2>3. /\ m.pos = scenario.placed[e] /\ m.pos \in Positions
        /\ m.access = scenario.access[e] /\ m.access \in Rights
    <3>1. scenario.access \in [Entities -> Rights]
      BY <1>1, HandoverAssumption
    <3> QED
      BY <1>2, <3>1 DEF Positions, Range
  <2>4. entity[e] = NewEntity(o, m)
    BY <1>3, <1>4
  <2> HIDE DEF o, m
  <2>5. /\ EntityOK(NewEntity(o, m))
        /\ NewEntity(o, m).state = "alive" /\ NewEntity(o, m).owner = o
        /\ NewEntity(o, m).pos = m.pos
        /\ \A d \in Conns : NewEntity(o, m).access[d] =
             IF d = o /\ o \notin closing THEN m.access ELSE "none"
    BY <2>2, <2>3, NewEntityFields
  <2> QED
    BY <1>1, <2>1, <2>3, <2>4, <2>5 DEF o
<1>5. EntityOK(NoEntity)
  <2> DEFINE none == [c \in Conns |-> "none"]
  <2>1. NoEntity = [state |-> "none", owner |-> NoConn, pos |-> NoPos, ref |-> FALSE,
                    access |-> none, inbox |-> <<>>]
    BY DEF NoEntity
  <2>2. none \in [Conns -> {"none"} \cup Rights]
    OBVIOUS
  <2> HIDE DEF none
  <2>3. /\ IsEntity(NoEntity) /\ NoEntity.state = "none" /\ NoEntity.owner = NoConn
        /\ NoEntity.pos = NoPos /\ NoEntity.access = none /\ NoEntity.inbox = <<>>
    BY <2>1, EntityRecord
  <2>4. NoPos \in Positions
    BY DEF Positions
  <2>5. IsQueue(<<>>) /\ \A k \in DOMAIN <<>> : EntityWork(<<>>[k])
    BY NoWork
  <2> QED
    BY <2>2, <2>3, <2>4, <2>5 DEF EntityOK
<1>6. \A e \in Entities : scenario.placed[e] = NoPos => entity[e] = NoEntity
  BY <1>3
<1>7. entity = [e \in Entities |-> entity[e]]
  BY <1>3
<1> QED
  BY <1>4, <1>5, <1>6, <1>7 DEF FirstEntities, EntitiesOK

LEMMA InitTypes ==
  ASSUME Init
  PROVE  TypeInv
<1>1. /\ grid \in Grids /\ Cells \subseteq 0..(MaxCells - 1) /\ NoCell \notin Cells
      /\ scenario \in Scenarios
  BY CellsInTable DEF Init
<1>2. GridInv
  BY InitAgrees
<1>3. current = [c \in 0..(MaxCells - 1) |-> IF Ready /\ c \in Cells THEN 1 ELSE 0]
  BY DEF Init
<1>4. NoneOutside
  BY <1>3 DEF NoneOutside
<1>5. SendersOK(sends, closing)
  <2>1. sends = scenario.sends /\ closing = {}
    BY DEF Init
  <2>2. \A c \in Senders : scenario.sends[c] \in Seq(Messages(grid, c))
    BY <1>1, HandoverAssumption DEF grid
  <2>3. \A s \in Senders : scenario.sends[s] \in Seq(Range(scenario.sends[s]))
    BY <2>2, SeqOfRange
  <2>4. scenario.sends = [s \in Senders |-> scenario.sends[s]]
    BY <1>1, HandoverAssumption
  <2> QED
    BY <2>1, <2>3, <2>4 DEF SendersOK
<1>6. ServersOK(creating, serverConnections, interest)
  <2>1. creating \in Servers \cup {NoConn}
    BY DEF Init
  <2>2. ASSUME NEW i \in ServerIndexes(grid) PROVE serverConnections[i] \in Servers \cup {NoConn}
    <3>1. serverConnections[i] = IF Ready THEN scenario.owners[i + 1] ELSE NoConn
      BY DEF Init
    <3>2. Ready => scenario.owners \in [1..ServerCount(grid) -> Servers]
      BY <1>1, HandoverAssumption DEF grid, Ready
    <3>3. i + 1 \in 1..ServerCount(grid)
      <4>1. ServerCount(grid) \in Nat
        BY <1>1 DEF Grids, ServerCount
      <4> QED
        BY <4>1 DEF ServerIndexes
    <3> QED
      BY <3>1, <3>2, <3>3
  <2>3. ASSUME NEW c \in Conns PROVE SubscriberCells(c) \subseteq Cells
    <3>1. scenario.watch \in [Clients -> SUBSET Cells]
      BY <1>1, HandoverAssumption DEF grid, Cells
    <3>2. Ready => \A i \in ServerIndexes(grid) :
            ChannelsOfServer(grid, i) \cup BorderOf(grid, i) \subseteq Cells
      BY <1>1, HandoverAssumption DEF grid, Cells, Ready
    <3> QED
      BY <3>1, <3>2 DEF SubscriberCells
  <2>4. interest = [c \in Conns |-> SubscriberCells(c)]
    BY DEF Init
  <2> QED
    BY <2>1, <2>2, <2>3, <2>4 DEF ServersOK
<1>7. ChannelsOK(spatial)
  <2>1. FirstChannels
    BY InitChannels
  <2>2. ASSUME NEW i \in Instances PROVE ChannelOK(spatial, i)
    <3>1. Ready /\ i[2] = 1 /\ i[1] \in Cells <=> Born(i)
      <4>1. i[1] \in 0..(MaxCells - 1) /\ i[2] \in 1..MaxGen
        BY DEF Instances
      <4> QED
        BY <1>1, <1>3, <4>1, HandoverAssumption DEF Born
    <3>2. Born(i) => OwnerOfCell(i[1]) \in Servers
      BY <1>1, <3>1, FirstOwner
    <3>3. IsQueue(<<>>) /\ DOMAIN <<>> = {}
      BY NoWork
    <3> QED
      BY <2>1, <3>1, <3>2, <3>3 DEF FirstChannels, ChannelOK
  <2> QED
    BY <1>2, <2>2 DEF ChannelsOK, GridInv
<1>8. GlobalOK(globalQueue)
  BY NoWork DEF Init, GlobalOK
<1>9. EntitiesOK(entity)
  BY InitEntities
<1>10. NotifiesOK(notify, entity)
  BY DEF Init, NotifiesOK, NotifyOK, NoNotify
<1> QED
  BY <1>2, <1>4, <1>5, <1>6, <1>7, <1>8, <1>9, <1>10 DEF TypeInv

-----------------------------------------------------------------------------
\* Every step keeps the types.
LEMMA TypeStep ==
  ASSUME TypeInv, [Next]_vars
  PROVE  TypeInv'
<1>1. GridInv'
  BY GridStep DEF TypeInv
<1>2. CASE UNCHANGED vars
  BY <1>1, <1>2, TypesKept DEF vars, worldVars, entityVars, TypeInv
<1>3. CASE \E s \in Servers \cup {Master} : Send(s)
  BY <1>1, <1>3, SendTypes DEF Senders
<1>4. CASE \E c \in Conns : Close(c)
  BY <1>1, <1>4, CloseTypes
<1>5. CASE GlobalStep
  BY <1>1, <1>5, SubscribeCreatedTypes, ControllerTickTypes, CreationTypes, CreateWorldEntityTypes,
     RemoveEntityTypes DEF GlobalStep
<1>6. CASE \E i \in Instances : SpatialStep(i)
  BY <1>1, <1>6, DataTypes, CreateEntityTypes, SpawnTypes, DestroyTypes, InterestTypes, SubTypes,
     SpatialTickTypes DEF SpatialStep
<1>7. CASE \E e \in Entities : EntityStep(e)
  BY <1>1, <1>7, InboxTypes, EntityTickTypes, NotifyTypes DEF EntityStep
<1> QED
  BY <1>2, <1>3, <1>4, <1>5, <1>6, <1>7 DEF Next

LEMMA TypesOfInv ==
  ASSUME TypeInv
  PROVE  TypeOK
<1>1. \A i \in Instances : /\ spatial[i].owner \in Servers \cup {NoConn}
                           /\ spatial[i].subs \subseteq Conns
                           /\ spatial[i].entities \subseteq Entities
  BY DEF TypeInv, ChannelsOK, ChannelOK
<1>2. ASSUME NEW e \in Entities
      PROVE  /\ entity[e].state \in {"none", "alive", "gone"}
             /\ entity[e].owner \in Servers \cup {Master, NoConn}
             /\ entity[e].pos \in Positions
             /\ entity[e].access \in [Conns -> {"none"} \cup Rights]
  BY DEF TypeInv, EntitiesOK, EntityOK, Senders
<1>3. ASSUME NEW e \in Entities
      PROVE  notify[e].at \in {"idle", "owners", "remove", "add", "subscribe"}
  BY DEF TypeInv, NotifiesOK, NotifyOK, NoNotify
<1>4. serverConnections \in [ServerIndexes(grid) -> Servers \cup {NoConn}]
  BY DEF TypeInv, GridInv, ServersOK
<1> QED
  BY <1>1, <1>2, <1>3, <1>4 DEF TypeInv, GridInv, SendersOK, ServersOK, TypeOK

\* Every variable of the spatial world has the values the code's types allow,
\* whatever servers send and whichever connections close: no step handles a message
\* of another kind, of a channel that is not there or for a connection or a
\* location that does not exist.
THEOREM TypeCorrect == Spec => []TypeOK
<1>1. Init => TypeInv
  BY InitTypes
<1>2. TypeInv /\ [Next]_vars => TypeInv'
  BY TypeStep
<1>3. TypeInv => TypeOK
  BY TypesOfInv
<1> QED
  BY <1>1, <1>2, <1>3, PTL DEF Spec

-----------------------------------------------------------------------------
(* Where entities are, who owns them and who may write them: the invariants.  *)

\* The data of instance i will hold e when everything that waits there was done.
HoldsIn(S, i, e) == WillHold(S[i].entities, S[i].queue, e)

\* A goroutine in Notify will add e to the data of its destination.
Entrusted(e) == \E x \in Entities :
  notify[x].at \in {"owners", "remove", "add"} /\ e \in notify[x].data

\* An entity that entered the world, or that a callback will remove, is on its way
\* or some channel will hold it; and no goroutine forgets an entity it removes.
InWorld(e) ==
  /\ e \in spawned => entity[e].state # "none"
  /\ entity[e].state = "alive" /\ e \notin late =>
       /\ (e \in spawned \/ \E i \in Instances : RemoveWaits(spatial[i].queue, e)) =>
            Entrusted(e) \/ \E i \in Instances : HoldsIn(spatial, i, e)
       /\ \A x \in Entities : notify[x].at \in {"owners", "remove"} /\ e \in notify[x].entities
            => e \in notify[x].data

PlacedInv == \A e \in Entities : InWorld(e)

\* The Notify of e has not put the removal from the source in its queue.
Going(e) == notify[e].at \in {"owners", "remove"}

\* Only its own goroutine moves an entity without a group, and no channel will hold
\* it but the one of its location and the one it leaves.
Alone(e) ==
  /\ \A x \in Entities : notify[x].at # "idle" /\ e \in notify[x].entities => x = e
  /\ notify[e].at # "idle" => e \in notify[e].entities /\ e \in notify[e].data
  /\ entity[e].state = "none" => entity[e].pos = NoPos
  /\ e \notin strayed /\ ~Replaced =>
       /\ entity[e].state = "none" => \A i \in Instances : ~HoldsIn(spatial, i, e)
       /\ entity[e].state = "alive" =>
            /\ Exists(CellOfPos(entity[e].pos))
            /\ notify[e].at # "idle" => notify[e].dst[1] = CellOfPos(entity[e].pos)
            /\ \A i \in Instances : HoldsIn(spatial, i, e) =>
                 i[1] = CellOfPos(entity[e].pos) \/ (Going(e) /\ i = notify[e].src)

AloneInv == Grouped(groups) \subseteq grouped /\ \A e \in Entities \ grouped : Alone(e)

\* The channel whose owner is the owner of e.
Place(e) == IF notify[e].at = "owners" THEN notify[e].src ELSE Current(CellOfPos(entity[e].pos))

\* Two owners are the same one, as far as they are live.
SameLive(a, b) == Live(a) \/ Live(b) => a = b

Owned(e) ==
  entity[e].state = "alive" /\ e \notin strayed \cup foreign /\ ~Replaced =>
    SameLive(entity[e].owner, spatial[Place(e)].owner)

OwnerInv == \A e \in Entities \ grouped : Owned(e)

\* Servers are subscribed to the channels they own and are interested in.
SubsInv == Ready /\ ~Replaced =>
  /\ creating = NoConn
  /\ \A c \in Cells : current[c] = 1
  /\ \A s \in Servers \ closing : \A c \in interest[s] : s \in spatial[Current(c)].subs
  /\ \A c \in Cells : Live(spatial[Current(c)].owner)
       => spatial[Current(c)].owner \in spatial[Current(c)].subs

Writer(e, c) == Live(c) /\ entity[e].access[c] = "write"

\* Whoever may write e and does not own it will be subscribed again by its Notify;
\* and an owner that is granted to write and may not yet will be subscribed.
Written(e) ==
  /\ e \in granted => entity[e].state # "none"
  /\ entity[e].state = "alive" /\ Ready /\ ~Replaced =>
    /\ e \notin strayed \cup foreign => \A c \in Conns : Writer(e, c) =>
         \/ c = entity[e].owner
         \/ notify[e].at \in {"remove", "add"} /\ c \in Servers /\ notify[e].dst[1] \in interest[c]
         \/ notify[e].at = "subscribe" /\ c \in notify[e].conns
    /\ e \in granted /\ Live(entity[e].owner) =>
         \/ entity[e].access[entity[e].owner] = "write"
         \/ notify[e].at \in {"remove", "add"} /\ entity[e].owner = spatial[notify[e].dst].owner
         \/ notify[e].at = "subscribe" /\ entity[e].owner \in notify[e].conns

WriteInv == \A e \in Entities \ grouped : Written(e)

WorldInv == TypeInv /\ PlacedInv /\ AloneInv /\ OwnerInv /\ SubsInv /\ WriteInv

-----------------------------------------------------------------------------
(* What most steps leave alone.                                              *)

\* Servers only close, channels only lose closing owners, history only grows.
WorldKept ==
  /\ scenario' = scenario /\ current' = current /\ closing \subseteq closing'
  /\ strayed \subseteq strayed' /\ grouped \subseteq grouped' /\ foreign \subseteq foreign'
  /\ Grouped(groups) \subseteq grouped => Grouped(groups') \subseteq grouped'
  /\ \A i \in Instances : \/ spatial'[i].owner = spatial[i].owner
                          \/ spatial'[i].owner = NoConn /\ spatial[i].owner \in closing
  /\ \A s \in Servers : interest[s] \subseteq interest'[s]

\* An entity channel stays, or is removed, and only loses closing connections;
\* nothing is granted.
EntityKept(x) ==
  /\ x \in granted' => x \in granted
  /\ \/ entity'[x].state = entity[x].state
     \/ entity[x].state = "alive" /\ entity'[x].state = "gone"
  /\ entity'[x].pos = entity[x].pos
  /\ \/ entity'[x].owner = entity[x].owner
     \/ entity'[x].owner = NoConn /\ entity[x].owner \in closing
  /\ \A c \in Conns : \/ entity'[x].access[c] = entity[x].access[c]
                      \/ entity'[x].access[c] = "none" /\ c \in closing

\* What channels will hold is the same, but for entities that are not there.
WorkKept(S, T) == \A i \in Instances, e \in Entities :
  /\ HoldsIn(T, i, e) => HoldsIn(S, i, e)
  /\ HoldsIn(S, i, e) /\ entity'[e].state = "alive" => HoldsIn(T, i, e)
  /\ RemoveWaits(T[i].queue, e) => RemoveWaits(S[i].queue, e)

DataKept ==
  spawned' = spawned /\ late' = late /\ notify' = notify /\ WorkKept(spatial, spatial')

\* No subscription or interest of a live server is taken back.
SubsKept ==
  /\ creating' \in {creating, NoConn}
  /\ \A s \in Servers : interest'[s] = interest[s]
  /\ \A i \in Instances : \A s \in Servers \ closing :
       s \in spatial[i].subs => s \in spatial'[i].subs

Steady == WorldKept /\ DataKept /\ \A x \in Entities : EntityKept(x)

\* The names that do not depend on what changes.
LEMMA WorldNames ==
  ASSUME scenario' = scenario, current' = current
  PROVE  /\ grid' = grid /\ Cells' = Cells /\ (Ready' <=> Ready) /\ (Replaced' <=> Replaced)
         /\ \A c : Exists(c)' <=> Exists(c)
         /\ \A c : Current(c)' = Current(c)
         /\ \A p : CellOfPos(p)' = CellOfPos(p)
BY DEF grid, Cells, Ready, Replaced, Exists, Current, CellOfPos

\* Steady steps keep what is known of the places of entities.
LEMMA SteadyPlaces ==
  ASSUME PlacedInv, AloneInv, Steady
  PROVE  PlacedInv' /\ AloneInv'
<1>1. /\ (Replaced' <=> Replaced)
      /\ \A c : Exists(c)' <=> Exists(c)
      /\ \A p : CellOfPos(p)' = CellOfPos(p)
  BY WorldNames DEF Steady, WorldKept
<1>2. /\ notify' = notify /\ spawned' = spawned /\ late' = late
      /\ strayed \subseteq strayed' /\ grouped \subseteq grouped'
      /\ WorkKept(spatial, spatial')
  BY DEF Steady, WorldKept, DataKept
<1>3. ASSUME NEW e \in Entities
      PROVE  /\ entity'[e].state \in {"none", "alive"} => entity'[e].state = entity[e].state
             /\ entity'[e].state = "none" <=> entity[e].state = "none"
             /\ entity'[e].pos = entity[e].pos
  BY DEF Steady, EntityKept
<1>4. ASSUME NEW e \in Entities PROVE InWorld(e)'
  <2>1. InWorld(e)
    BY DEF PlacedInv
  <2>2. Entrusted(e) <=> Entrusted(e)'
    BY <1>2 DEF Entrusted
  <2>3. ASSUME entity'[e].state = "alive", NEW i \in Instances
        PROVE  HoldsIn(spatial, i, e) => HoldsIn(spatial', i, e)
    BY <1>2, <2>3 DEF WorkKept
  <2>4. ASSUME NEW i \in Instances
        PROVE  RemoveWaits(spatial'[i].queue, e) => RemoveWaits(spatial[i].queue, e)
    BY <1>2 DEF WorkKept
  <2> QED
    BY <1>2, <1>3, <2>1, <2>2, <2>3, <2>4 DEF InWorld
<1>5. ASSUME NEW e \in Entities \ grouped' PROVE Alone(e)'
  <2>1. Alone(e) /\ e \in Entities
    BY <1>2 DEF AloneInv
  <2>2. Going(e)' <=> Going(e)
    BY <1>2 DEF Going
  <2>3. \A i \in Instances : HoldsIn(spatial', i, e) => HoldsIn(spatial, i, e)
    BY <1>2, <2>1 DEF WorkKept
  <2> QED
    BY <1>1, <1>2, <1>3, <2>1, <2>2, <2>3 DEF Alone
<1>6. Grouped(groups') \subseteq grouped'
  BY DEF Steady, WorldKept, AloneInv
<1>7. (Grouped(groups) \subseteq grouped)' <=> Grouped(groups') \subseteq grouped'
  BY DEF Grouped
<1> QED
  BY <1>4, <1>5, <1>6, <1>7 DEF PlacedInv, AloneInv

\* An entity that nothing happens to keeps its owner and its writers.
LEMMA KeptOwned ==
  ASSUME TypeInv, WorldKept, NEW e \in Entities \ grouped', Owned(e), Alone(e), EntityKept(e),
         notify'[e] = notify[e]
  PROVE  Owned(e)'
<1>1. /\ (Replaced' <=> Replaced)
      /\ \A c : Exists(c)' <=> Exists(c)
      /\ \A c : Current(c)' = Current(c)
      /\ \A p : CellOfPos(p)' = CellOfPos(p)
  BY WorldNames DEF WorldKept
<1> SUFFICES ASSUME entity'[e].state = "alive", e \notin strayed' \cup foreign', ~Replaced'
             PROVE  SameLive(entity[e].owner, spatial[Place(e)].owner)'
  BY DEF Owned
<1>2. entity[e].state = "alive" /\ e \notin strayed \cup foreign /\ ~Replaced
  BY <1>1 DEF EntityKept, WorldKept
<1>3. SameLive(entity[e].owner, spatial[Place(e)].owner)
  BY <1>2 DEF Owned
<1>4. Place(e)' = Place(e)
  BY <1>1 DEF Place, EntityKept
<1>5. Place(e) \in Instances
  <2>1. NotifyOK(notify[e])
    BY DEF TypeInv, NotifiesOK
  <2>2. notify[e].at = "owners" => notify[e].src \in Instances
    BY <2>1 DEF NotifyOK, NoNotify
  <2>3. Exists(CellOfPos(entity[e].pos)) /\ entity[e].pos \in Points
    BY <1>2, PositionsArePoints DEF Alone, TypeInv, EntitiesOK, EntityOK, GridInv
  <2>4. CellOfPos(entity[e].pos) \in Cells
    BY <2>3, PointCell DEF Exists, TypeInv, GridInv
  <2> QED
    BY <2>2, <2>3, <2>4, CurrentBorn DEF Place, TypeInv
<1>6. \/ spatial'[Place(e)].owner = spatial[Place(e)].owner
      \/ spatial'[Place(e)].owner = NoConn /\ spatial[Place(e)].owner \in closing
  BY <1>5 DEF WorldKept
<1> DEFINE a == entity[e].owner
           b == spatial[Place(e)].owner
           c == entity'[e].owner
           d == spatial'[Place(e)].owner
<1>7. /\ c = a \/ (c = NoConn /\ a \in closing)
      /\ d = b \/ (d = NoConn /\ b \in closing)
      /\ closing \subseteq closing'
      /\ (a # NoConn /\ a \notin closing) \/ (b # NoConn /\ b \notin closing) => a = b
  BY <1>3, <1>6 DEF EntityKept, WorldKept, SameLive, Live
<1> HIDE DEF a, b, c, d
<1>8. (c # NoConn /\ c \notin closing') \/ (d # NoConn /\ d \notin closing') => c = d
  BY <1>7
<1> QED
  BY <1>4, <1>8 DEF SameLive, Live, c, d

LEMMA KeptWritten ==
  ASSUME TypeInv, WorldKept, NEW e \in Entities \ grouped', Written(e), EntityKept(e),
         notify'[e] = notify[e]
  PROVE  Written(e)'
<1>1. (Replaced' <=> Replaced) /\ (Ready' <=> Ready)
  BY WorldNames DEF WorldKept
<1>8. e \in granted' => e \in granted /\ entity'[e].state # "none"
  BY DEF Written, EntityKept
<1> SUFFICES ASSUME entity'[e].state = "alive", Ready', ~Replaced'
             PROVE  /\ e \notin strayed' \cup foreign' => \A c \in Conns : Writer(e, c)' =>
                         \/ c = entity'[e].owner
                         \/ notify[e].at \in {"remove", "add"} /\ c \in Servers /\ notify[e].dst[1] \in interest'[c]
                         \/ notify[e].at = "subscribe" /\ c \in notify[e].conns
                    /\ e \in granted' /\ Live(entity[e].owner)' =>
                         \/ entity'[e].access[entity'[e].owner] = "write"
                         \/ notify[e].at \in {"remove", "add"} /\ entity'[e].owner = spatial'[notify[e].dst].owner
                         \/ notify[e].at = "subscribe" /\ entity'[e].owner \in notify[e].conns
  BY <1>8 DEF Written
<1>2. entity[e].state = "alive" /\ Ready /\ ~Replaced
  BY <1>1 DEF EntityKept
<1>3. ASSUME NEW c \in Conns, Writer(e, c)' PROVE Writer(e, c)
  BY <1>3 DEF Writer, Live, WorldKept, EntityKept
<1>4. ASSUME Live(entity[e].owner)' PROVE entity'[e].owner = entity[e].owner /\ Live(entity[e].owner)
  BY <1>4 DEF Live, WorldKept, EntityKept
<1>5. ASSUME NEW c \in Conns, Live(c) PROVE c = entity[e].owner => c = entity'[e].owner
  BY <1>5 DEF Live, EntityKept
<1>6. ASSUME e \notin strayed' \cup foreign', NEW c \in Conns, Writer(e, c)'
      PROVE  \/ c = entity'[e].owner
             \/ notify[e].at \in {"remove", "add"} /\ c \in Servers /\ notify[e].dst[1] \in interest'[c]
             \/ notify[e].at = "subscribe" /\ c \in notify[e].conns
  <2>1. e \notin strayed \cup foreign
    BY <1>6 DEF WorldKept
  <2>2. \/ c = entity[e].owner
        \/ notify[e].at \in {"remove", "add"} /\ c \in Servers /\ notify[e].dst[1] \in interest[c]
        \/ notify[e].at = "subscribe" /\ c \in notify[e].conns
    BY <1>2, <1>3, <1>6, <2>1 DEF Written
  <2> QED
    BY <1>3, <1>5, <1>6, <2>2 DEF Writer, WorldKept
<1>7. ASSUME e \in granted', Live(entity[e].owner)'
      PROVE  \/ entity'[e].access[entity'[e].owner] = "write"
             \/ notify[e].at \in {"remove", "add"} /\ entity'[e].owner = spatial'[notify[e].dst].owner
             \/ notify[e].at = "subscribe" /\ entity'[e].owner \in notify[e].conns
  <2> DEFINE o == entity[e].owner
  <2>1. o \in Conns /\ Live(o) /\ entity'[e].owner = o
    BY <1>4, <1>7, Kinds DEF TypeInv, EntitiesOK, EntityOK, Live
  <2>2. \/ entity[e].access[o] = "write"
        \/ notify[e].at \in {"remove", "add"} /\ o = spatial[notify[e].dst].owner
        \/ notify[e].at = "subscribe" /\ o \in notify[e].conns
    BY <1>2, <1>7, <1>8, <2>1 DEF Written
  <2>3. entity'[e].access[o] = entity[e].access[o]
    BY <2>1 DEF EntityKept, Live
  <2>4. notify[e].at \in {"remove", "add"} => notify[e].dst \in Instances
    BY DEF TypeInv, NotifiesOK, NotifyOK, NoNotify
  <2> HIDE DEF o
  <2> QED
    BY <2>1, <2>2, <2>3, <2>4 DEF WorldKept, Live
<1> QED
  BY <1>6, <1>7

-----------------------------------------------------------------------------
(* What the data will hold, step by step.                                    *)

LEMMA SameWork ==
  ASSUME NEW S, NEW T, SameData(S, T), SameQueues(S, T)
  PROVE  WorkKept(S, T)
BY DEF SameData, SameQueues, WorkKept, HoldsIn

LEMMA WorkKeptTwice ==
  ASSUME NEW S, NEW T, NEW U, WorkKept(S, T), WorkKept(T, U)
  PROVE  WorkKept(S, U)
BY DEF WorkKept

\* A message that is no callback for the data.
LEMMA MessageQueued ==
  ASSUME NEW S, ChannelsOK(S), NEW i \in Instances, NEW m, m.type \notin {"add", "remove"},
         NEW T, QueueSet(S, T, i, Append(S[i].queue, m))
  PROVE  WorkKept(S, T)
<1>1. IsQueue(S[i].queue)
  BY DEF ChannelsOK, ChannelOK
<1>2. ASSUME NEW j \in Instances, NEW e \in Entities
      PROVE  /\ HoldsIn(T, j, e) <=> HoldsIn(S, j, e)
             /\ RemoveWaits(T[j].queue, e) => RemoveWaits(S[j].queue, e)
  <2>1. T[j].entities = S[j].entities /\ T[j].queue = IF j = i THEN Append(S[i].queue, m) ELSE S[j].queue
    BY DEF QueueSet, SameData
  <2>2. /\ WillHold(S[i].entities, Append(S[i].queue, m), e) <=> WillHold(S[i].entities, S[i].queue, e)
        /\ RemoveWaits(Append(S[i].queue, m), e) => RemoveWaits(S[i].queue, e)
    BY <1>1, WorkAppended
  <2> QED
    BY <2>1, <2>2 DEF HoldsIn
<1> QED
  BY <1>2 DEF WorkKept

\* A callback that adds E to the data of channel i.
WorkAdded(S, T, i, E) == \A j \in Instances, e \in Entities :
  /\ HoldsIn(T, j, e) <=> HoldsIn(S, j, e) \/ (j = i /\ e \in E)
  /\ RemoveWaits(T[j].queue, e) => RemoveWaits(S[j].queue, e)

LEMMA AddQueued ==
  ASSUME NEW S, ChannelsOK(S), NEW i \in Instances, NEW E,
         NEW T, QueueSet(S, T, i, Append(S[i].queue, Callback("add", E)))
  PROVE  WorkAdded(S, T, i, E)
<1> DEFINE m == Callback("add", E)
<1>1. IsQueue(S[i].queue) /\ m.type = "add" /\ m.entities = E
  BY DEF ChannelsOK, ChannelOK, Callback
<1> HIDE DEF m
<1>2. ASSUME NEW j \in Instances, NEW e \in Entities
      PROVE  /\ HoldsIn(T, j, e) <=> HoldsIn(S, j, e) \/ (j = i /\ e \in E)
             /\ RemoveWaits(T[j].queue, e) => RemoveWaits(S[j].queue, e)
  <2>1. T[j].entities = S[j].entities /\ T[j].queue = IF j = i THEN Append(S[i].queue, m) ELSE S[j].queue
    BY DEF QueueSet, SameData, m
  <2>2. /\ e \in E => WillHold(S[i].entities, Append(S[i].queue, m), e)
        /\ e \notin E => (WillHold(S[i].entities, Append(S[i].queue, m), e) <=> WillHold(S[i].entities, S[i].queue, e))
        /\ RemoveWaits(Append(S[i].queue, m), e) => RemoveWaits(S[i].queue, e)
    BY <1>1, WorkAppended
  <2> QED
    BY <2>1, <2>2 DEF HoldsIn
<1> QED
  BY <1>2 DEF WorkAdded

\* A callback that removes E from the data of channel i.
WorkRemoved(S, T, i, E) == \A j \in Instances, e \in Entities :
  /\ HoldsIn(T, j, e) <=> HoldsIn(S, j, e) /\ ~(j = i /\ e \in E)
  /\ RemoveWaits(T[j].queue, e) => RemoveWaits(S[j].queue, e) \/ (j = i /\ e \in E)

LEMMA RemoveQueued ==
  ASSUME NEW S, ChannelsOK(S), NEW i \in Instances, NEW E,
         NEW T, QueueSet(S, T, i, Append(S[i].queue, Callback("remove", E)))
  PROVE  WorkRemoved(S, T, i, E)
<1> DEFINE m == Callback("remove", E)
<1>1. IsQueue(S[i].queue) /\ m.type = "remove" /\ m.entities = E
  BY DEF ChannelsOK, ChannelOK, Callback
<1> HIDE DEF m
<1>2. ASSUME NEW j \in Instances, NEW e \in Entities
      PROVE  /\ HoldsIn(T, j, e) <=> HoldsIn(S, j, e) /\ ~(j = i /\ e \in E)
             /\ RemoveWaits(T[j].queue, e) => RemoveWaits(S[j].queue, e) \/ (j = i /\ e \in E)
  <2>1. T[j].entities = S[j].entities /\ T[j].queue = IF j = i THEN Append(S[i].queue, m) ELSE S[j].queue
    BY DEF QueueSet, SameData, m
  <2>2. /\ e \in E => ~WillHold(S[i].entities, Append(S[i].queue, m), e)
        /\ e \notin E => (WillHold(S[i].entities, Append(S[i].queue, m), e) <=> WillHold(S[i].entities, S[i].queue, e))
        /\ RemoveWaits(Append(S[i].queue, m), e) => RemoveWaits(S[i].queue, e) \/ e \in E
    BY <1>1, WorkAppended
  <2> QED
    BY <2>1, <2>2 DEF HoldsIn
<1> QED
  BY <1>2 DEF WorkRemoved

\* A message that is no callback was taken.
LEMMA MessageTaken ==
  ASSUME TypeInv, NEW i \in Instances, NEW type, Take(i, type), type \notin {"add", "remove"}
  PROVE  /\ WorkKept(spatial, Taken(i))
         /\ \A j \in Instances, e \in Entities : HoldsIn(Taken(i), j, e) <=> HoldsIn(spatial, j, e)
<1> DEFINE q == spatial[i].queue
           S == Taken(i)
<1>1. QueueSet(spatial, S, i, Tail(q)) /\ Head(q).type = type
  BY SpatialTaken DEF FirstOf
<1>2. IsQueue(q) /\ q # <<>>
  BY DEF TypeInv, ChannelsOK, ChannelOK, Take
<1> HIDE DEF S
<1>3. ASSUME NEW j \in Instances, NEW e \in Entities
      PROVE  /\ HoldsIn(S, j, e) <=> HoldsIn(spatial, j, e)
             /\ RemoveWaits(S[j].queue, e) => RemoveWaits(spatial[j].queue, e)
  <2>1. S[j].entities = spatial[j].entities /\ S[j].queue = IF j = i THEN Tail(q) ELSE spatial[j].queue
    BY <1>1 DEF QueueSet, SameData
  <2>2. /\ WillHold(spatial[i].entities, Tail(q), e) <=> WillHold(spatial[i].entities, q, e)
        /\ RemoveWaits(Tail(q), e) => RemoveWaits(q, e)
    BY <1>1, <1>2, WorkTaken
  <2> QED
    BY <2>1, <2>2 DEF HoldsIn
<1> QED
  BY <1>3 DEF WorkKept, S

\* A callback that was done.
LEMMA CallbackDone ==
  ASSUME TypeInv, NEW i \in Instances, AddToData(i) \/ RemoveFromData(i)
  PROVE  /\ WorkKept(spatial, spatial')
         /\ SameOwners(spatial, spatial') /\ SameSubs(spatial, spatial')
<1> DEFINE q == spatial[i].queue
           S == Taken(i)
           type == Head(q).type
           v == IF type = "add" THEN S[i].entities \cup Head(q).entities
                ELSE S[i].entities \ Head(q).entities
<1>1. Take(i, type) /\ type \in {"add", "remove"}
  BY DEF AddToData, RemoveFromData, Take
<1>2. QueueSet(spatial, S, i, Tail(q)) /\ Channels(S)
  BY <1>1, SpatialTaken
<1>3. IsQueue(q) /\ q # <<>>
  BY <1>1 DEF TypeInv, ChannelsOK, ChannelOK, Take
<1>4. spatial' = [S EXCEPT ![i].entities = v]
  BY DEF AddToData, RemoveFromData, Take, FirstOf
<1>5. v = IF type = "add" THEN spatial[i].entities \cup Head(q).entities
          ELSE spatial[i].entities \ Head(q).entities
  BY <1>2 DEF QueueSet, SameData
<1> HIDE DEF S, v
<1>6. DataSet(S, spatial', i, v)
  BY <1>2, <1>4, EntitiesChanged
<1>7. ASSUME NEW j \in Instances, NEW e \in Entities
      PROVE  /\ HoldsIn(spatial', j, e) <=> HoldsIn(spatial, j, e)
             /\ RemoveWaits(spatial'[j].queue, e) => RemoveWaits(spatial[j].queue, e)
  <2>1. spatial'[j].entities = IF j = i THEN v ELSE spatial[j].entities
    BY <1>2, <1>6 DEF QueueSet, DataSet, SameData
  <2>2. spatial'[j].queue = IF j = i THEN Tail(q) ELSE spatial[j].queue
    BY <1>2, <1>6 DEF QueueSet, DataSet, SameQueues
  <2>3. /\ WillHold(v, Tail(q), e) <=> WillHold(spatial[i].entities, q, e)
        /\ RemoveWaits(Tail(q), e) => RemoveWaits(q, e)
    BY <1>1, <1>3, <1>5, WorkTaken
  <2> QED
    BY <2>1, <2>2, <2>3 DEF HoldsIn
<1> QED
  BY <1>2, <1>6, <1>7 DEF WorkKept, QueueSet, DataSet, SameOwners, SameSubs

-----------------------------------------------------------------------------
(* The steps that leave entities where they are and to whom they belong.      *)

\* Servers do not send the callbacks of Notify, nor the subscriptions of clients.
LEMMA NoCallbackSent ==
  ASSUME scenario \in Scenarios, NEW s \in Senders, NEW m \in Range(scenario.sends[s]), m.kind = "spatial"
  PROVE  Delivered(s, m).type \notin {"add", "remove", "sub", "unsub"}
<1>1. m \in Messages(grid, s)
  <2>1. scenario.sends[s] \in Seq(Messages(grid, s))
    BY HandoverAssumption DEF grid
  <2> QED
    BY <2>1 DEF Range
<1>2. m \in SpatialMessages(grid)
  BY <1>1 DEF Messages, GlobalMessages, EntityMessages
<1>3. "type" \in DOMAIN m /\ m.type \in {"createEntity", "spawn", "destroy", "interest"}
  <2>1. CASE m \in [kind : {"spatial"}, ch : CellsOf(grid), type : {"createEntity"},
                    entity : Entities, pos : Points, ref : BOOLEAN]
    BY <2>1
  <2>2. CASE m \in [kind : {"spatial"}, ch : CellsOf(grid), type : {"spawn"}, entity : Entities,
                    pos : Points]
    BY <2>2
  <2>3. CASE m \in [kind : {"spatial"}, ch : CellsOf(grid), type : {"destroy"}, entity : Entities]
    BY <2>3
  <2>4. CASE m \in [kind : {"spatial"}, ch : CellsOf(grid), type : {"interest"}, client : Clients,
                    query : Queries]
    BY <2>4
  <2> QED
    BY <1>2, <2>1, <2>2, <2>3, <2>4 DEF SpatialMessages
<1> QED
  BY <1>3, DeliveredFields

LEMMA SendSteady ==
  ASSUME TypeInv, NEW s \in Senders, Send(s)
  PROVE  Steady /\ SubsKept
<1> DEFINE m == Head(sends[s])
           put == Delivered(s, m)
<1>1. /\ scenario' = scenario /\ current' = current /\ closing' = closing /\ creating' = creating
      /\ interest' = interest /\ notify' = notify /\ groups' = groups /\ UNCHANGED historyVars
  BY DEF Send, worldVars
<1>2. sends[s] \in Seq(Range(scenario.sends[s])) /\ sends[s] # <<>>
  BY DEF TypeInv, SendersOK, Send
<1>3. m \in Range(scenario.sends[s])
  BY <1>2, HeadAndTail
<1>4. /\ m.kind = "spatial" => m.ch \in Cells /\ put.type \notin {"add", "remove"}
      /\ m.kind = "entity" => EntityWork(put) /\ m.ch \in Entities
  BY <1>3, MessageTypes, NoCallbackSent DEF TypeInv, GridInv
<1>5. WorkKept(spatial, spatial') /\ SameOwners(spatial, spatial') /\ SameSubs(spatial, spatial')
  <2>1. CASE m.kind = "spatial" /\ Exists(m.ch)
    <3>1. spatial' = Execute(spatial, Current(m.ch), put)
      BY <2>1 DEF Send
    <3>2. Current(m.ch) \in Instances
      BY <1>4, <2>1, CurrentBorn DEF TypeInv
    <3>3. put.type \notin {"add", "remove"}
      BY <1>4, <2>1
    <3> HIDE DEF m, put
    <3>4. QueueSet(spatial, spatial', Current(m.ch), Append(spatial[Current(m.ch)].queue, put))
      BY <3>1, <3>2, ExecuteChanges DEF TypeInv, ChannelsOK
    <3>5. WorkKept(spatial, spatial')
      BY <3>2, <3>3, <3>4, MessageQueued DEF TypeInv
    <3> QED
      BY <3>4, <3>5 DEF QueueSet
  <2>2. CASE ~(m.kind = "spatial" /\ Exists(m.ch))
    <3>1. spatial' = spatial
      BY <2>2 DEF Send
    <3> QED
      BY <3>1, SameWork DEF SameOwners, SameSubs, SameData, SameQueues
  <2> QED
    BY <2>1, <2>2
<1>6. ASSUME NEW x \in Entities PROVE SameCore(entity[x], entity'[x]) /\ entity'[x].pos = entity[x].pos
  <2>1. CASE m.kind = "entity" /\ m.ch \in Alive
    <3> DEFINE r == [entity[m.ch] EXCEPT !.inbox = Append(entity[m.ch].inbox, put)]
    <3>1. entity' = [entity EXCEPT ![m.ch] = r]
      BY <2>1 DEF Send
    <3>2. SameCore(entity[m.ch], r) /\ r.pos = entity[m.ch].pos
      BY <1>4, <2>1, InboxAppended DEF TypeInv, EntitiesOK
    <3> HIDE DEF r, put
    <3>3. EntitySet(entity, entity', m.ch, r)
      BY <1>4, <2>1, <3>1, EntityReplaced DEF TypeInv
    <3> QED
      BY <3>2, <3>3 DEF EntitySet, SameCore
  <2>2. CASE ~(m.kind = "entity" /\ m.ch \in Alive)
    BY <2>2 DEF Send, SameCore
  <2> QED
    BY <2>1, <2>2
<1> QED
  BY <1>1, <1>5, <1>6 DEF Steady, WorldKept, DataKept, EntityKept, SameCore, SameOwners, SameSubs,
     SubsKept, historyVars

LEMMA CloseSteady ==
  ASSUME NEW c \in Conns, Close(c)
  PROVE  Steady /\ SubsKept
<1>1. spatial' = spatial /\ entity' = entity
  BY DEF Close, entityVars
<1>2. WorkKept(spatial, spatial')
  BY <1>1, SameWork DEF SameData, SameQueues
<1> QED
  BY <1>1, <1>2 DEF Close, entityVars, worldVars, historyVars, Steady, WorldKept, DataKept,
     EntityKept, SubsKept

LEMMA SubscribeCreatedChanges ==
  ASSUME TypeInv, SubscribeCreated
  PROVE  /\ SameOwners(spatial, spatial') /\ SameData(spatial, spatial') /\ SameQueues(spatial, spatial')
         /\ \A i \in Instances : spatial'[i].subs \in {spatial[i].subs, spatial[i].subs \cup {creating}}
         /\ \A c \in Conns : interest[c] \subseteq interest'[c]
         /\ \A c \in Conns \ {creating} : interest'[c] = interest[c]
<1> DEFINE own == {c \in Cells : Exists(c) /\ spatial[Current(c)].owner = creating}
           subs(i) == spatial[i].subs \cup {creating}
           grown(i) == [spatial[i] EXCEPT !.subs = subs(i)]
           channel(i) == IF i[1] \in own /\ i = Current(i[1]) THEN grown(i) ELSE spatial[i]
<1>1. CASE creating \in closing
  BY <1>1 DEF SubscribeCreated, SameOwners, SameData, SameQueues
<1>2. CASE creating \notin closing
  <2>1. /\ spatial' = [i \in Instances |-> channel(i)]
        /\ interest' = [interest EXCEPT ![creating] = interest[creating] \cup own]
    BY <1>2 DEF SubscribeCreated
  <2>2. /\ \A c \in Conns : interest[c] \subseteq interest'[c]
        /\ \A c \in Conns \ {creating} : interest'[c] = interest[c]
    <3> HIDE DEF own
    <3> QED
      BY <2>1 DEF TypeInv, ServersOK
  <2> HIDE DEF own, subs
  <2>3. ASSUME NEW i \in Instances
        PROVE  /\ channel(i).owner = spatial[i].owner /\ channel(i).entities = spatial[i].entities
               /\ channel(i).queue = spatial[i].queue
               /\ channel(i).subs \in {spatial[i].subs, spatial[i].subs \cup {creating}}
    <3>1. IsChannel(spatial[i])
      BY DEF TypeInv, ChannelsOK, Channels
    <3>2. grown(i) = [owner |-> spatial[i].owner, subs |-> subs(i),
                      entities |-> spatial[i].entities, queue |-> spatial[i].queue]
      BY <3>1, ChannelField
    <3> HIDE DEF grown
    <3>3. /\ grown(i).owner = spatial[i].owner /\ grown(i).entities = spatial[i].entities
          /\ grown(i).queue = spatial[i].queue /\ grown(i).subs = spatial[i].subs \cup {creating}
      BY <3>2, ChannelRecord DEF subs
    <3> QED
      BY <3>3
  <2> HIDE DEF channel
  <2> QED
    BY <2>1, <2>2, <2>3 DEF SameOwners, SameData, SameQueues
<1> QED
  BY <1>1, <1>2

LEMMA SubscribeCreatedSteady ==
  ASSUME TypeInv, SubscribeCreated
  PROVE  Steady
<1>1. /\ SameOwners(spatial, spatial') /\ WorkKept(spatial, spatial')
      /\ \A c \in Servers : interest[c] \subseteq interest'[c]
  BY SubscribeCreatedChanges, SameWork, Kinds
<1> QED
  BY <1>1 DEF SubscribeCreated, entityVars, historyVars, Steady, WorldKept, DataKept, EntityKept,
     SameOwners

LEMMA ControllerTickSteady ==
  ASSUME ControllerTick
  PROVE  Steady /\ SubsKept
<1>1. spatial' = spatial /\ entity' = entity
  BY DEF ControllerTick, entityVars
<1>2. WorkKept(spatial, spatial')
  BY <1>1, SameWork DEF SameData, SameQueues
<1> QED
  BY <1>1, <1>2 DEF ControllerTick, entityVars, historyVars, Steady, WorldKept, DataKept,
     EntityKept, SubsKept

\* A creation that is refused.
LEMMA RefusedSteady ==
  ASSUME TypeInv, HandleCreateSpatial, ~Creates
  PROVE  Steady /\ SubsKept
<1>1. UNCHANGED <<worldVars, spatial, interest, entity, groups, grouped, strayed, late, spawned, granted,
                 apart>>
  BY CreationChanges DEF HandleCreateSpatial
<1>2. WorkKept(spatial, spatial')
  BY <1>1, SameWork DEF SameData, SameQueues
<1> QED
  BY <1>1, <1>2 DEF HandleCreateSpatial, TakeGlobal, worldVars, historyVars, Steady, WorldKept,
     DataKept, EntityKept, SubsKept

\* Removal changes the history of groups, and nothing but the state of a channel.
LEMMA RemovedKept ==
  ASSUME TypeInv, NEW e \in Entities, RemoveEntity(e), granted' = granted
  PROVE  /\ \A x \in Entities : EntityKept(x)
         /\ e \in Entities => entity'[e].state # "alive"
         /\ grouped \subseteq grouped' /\ (Grouped(groups) \subseteq grouped => Grouped(groups') \subseteq grouped')
<1>1. Removed(e)
  BY RemoveEntityChanges DEF TypeInv
<1>2. entity'[e].state # "alive"
  BY <1>1 DEF Removed, Alive
<1>3. grouped \subseteq grouped' /\ (Grouped(groups) \subseteq grouped => Grouped(groups') \subseteq grouped')
  BY DEF RemoveEntity
<1> QED
  BY <1>1, <1>2, <1>3 DEF Removed, EntityKept, Alive

LEMMA RemoveEntitySteady ==
  ASSUME TypeInv, HandleRemoveEntity
  PROVE  Steady /\ SubsKept
<1> DEFINE e == Head(globalQueue).entity
<1>1. e \in Entities
  BY GlobalTaken DEF HandleRemoveEntity, GlobalWork, TypeInv
<1>2. /\ \A x \in Entities : EntityKept(x)
      /\ grouped \subseteq grouped' /\ (Grouped(groups) \subseteq grouped => Grouped(groups') \subseteq grouped')
  BY <1>1, RemovedKept DEF HandleRemoveEntity
<1>3. spatial' = spatial
  BY DEF HandleRemoveEntity
<1>4. WorkKept(spatial, spatial')
  BY <1>3, SameWork DEF SameData, SameQueues
<1> QED
  BY <1>2, <1>3, <1>4 DEF HandleRemoveEntity, TakeGlobal, worldVars, Steady, WorldKept,
     DataKept, SubsKept

\* What a step of a spatial channel that leaves its callbacks alone keeps.
LEMMA TakenSteady ==
  ASSUME TypeInv, NEW i \in Instances, NEW type, Take(i, type), WorkKept(spatial, spatial'),
         SameOwners(spatial, spatial'), \A x \in Entities : EntityKept(x),
         \A s \in Servers : interest'[s] = interest[s],
         \A j \in Instances : \A s \in Servers \ closing :
           s \in spatial[j].subs => s \in spatial'[j].subs,
         spawned' = spawned, late' = late, strayed' = strayed, foreign' = foreign,
         grouped \subseteq grouped',
         Grouped(groups) \subseteq grouped => Grouped(groups') \subseteq grouped'
  PROVE  Steady /\ SubsKept
BY DEF Take, worldVars, Steady, WorldKept, DataKept, SubsKept, SameOwners

LEMMA DataSteady ==
  ASSUME TypeInv, NEW i \in Instances, AddToData(i) \/ RemoveFromData(i)
  PROVE  Steady /\ SubsKept
<1>1. WorkKept(spatial, spatial') /\ SameOwners(spatial, spatial') /\ SameSubs(spatial, spatial')
  BY CallbackDone
<1>2. PICK type : Take(i, type)
  BY DEF AddToData, RemoveFromData
<1>3. /\ interest' = interest /\ entity' = entity /\ groups' = groups /\ UNCHANGED historyVars
  BY DEF AddToData, RemoveFromData
<1> QED
  BY <1>1, <1>2, <1>3, TakenSteady DEF historyVars, EntityKept, SameSubs

LEMMA DestroySteady ==
  ASSUME TypeInv, NEW i \in Instances, HandleDestroy(i)
  PROVE  Steady /\ SubsKept
<1> DEFINE e == FirstOf(i).entity
           S == Taken(i)
           v == S[i].entities \ {e}
<1>1. /\ Channels(S) /\ e \in Entities /\ Take(i, "destroy")
      /\ QueueSet(spatial, S, i, Tail(spatial[i].queue))
  BY SpatialTaken DEF HandleDestroy, SpatialWork
<1>2. WorkKept(spatial, S)
  BY <1>1, MessageTaken
<1>3. /\ spatial' = [S EXCEPT ![i].entities = v] /\ RemoveEntity(e) /\ interest' = interest
      /\ granted' = granted
  BY DEF HandleDestroy
<1>4. /\ \A x \in Entities : EntityKept(x)
      /\ entity'[e].state # "alive"
      /\ grouped \subseteq grouped' /\ (Grouped(groups) \subseteq grouped => Grouped(groups') \subseteq grouped')
  BY <1>1, <1>3, RemovedKept
<1> HIDE DEF S, e
<1>5. DataSet(S, spatial', i, v)
  <2> HIDE DEF v
  <2> QED
    BY <1>1, <1>3, EntitiesChanged
<1>6. WorkKept(S, spatial')
  <2>1. ASSUME NEW j \in Instances, NEW x \in Entities
        PROVE  /\ HoldsIn(spatial', j, x) => HoldsIn(S, j, x)
               /\ HoldsIn(S, j, x) /\ x # e => HoldsIn(spatial', j, x)
               /\ spatial'[j].queue = S[j].queue
    <3>1. spatial'[j].queue = S[j].queue /\ spatial'[j].entities = IF j = i THEN v ELSE S[j].entities
      BY <1>5 DEF DataSet, SameQueues
    <3>2. /\ WillHold(v, S[i].queue, x) => WillHold(S[i].entities, S[i].queue, x)
          /\ x # e => (WillHold(v, S[i].queue, x) <=> WillHold(S[i].entities, S[i].queue, x))
      BY DataChanged
    <3> QED
      BY <3>1, <3>2 DEF HoldsIn
  <2> QED
    BY <1>4, <2>1 DEF WorkKept
<1>7. WorkKept(spatial, spatial')
  BY <1>2, <1>6, WorkKeptTwice
<1>8. SameOwners(spatial, spatial') /\ SameSubs(spatial, spatial')
  BY <1>1, <1>5 DEF QueueSet, DataSet, SameOwners, SameSubs
<1>9. spawned' = spawned /\ late' = late /\ strayed' = strayed /\ foreign' = foreign
  BY DEF HandleDestroy
<1> QED
  BY <1>1, <1>3, <1>4, <1>7, <1>8, <1>9, TakenSteady DEF SameSubs

LEMMA InterestSteady ==
  ASSUME TypeInv, NEW i \in Instances, HandleInterest(i)
  PROVE  Steady /\ SubsKept
<1> DEFINE m == FirstOf(i)
           S == Taken(i)
<1>1. /\ ChannelsOK(S) /\ Born(i) /\ m.client \in Clients /\ Take(i, "interest")
      /\ QueueSet(spatial, S, i, Tail(spatial[i].queue))
  BY SpatialTaken DEF HandleInterest, SpatialWork
<1>2. WorkKept(spatial, S)
  BY <1>1, MessageTaken
<1>3. UpdateInterest(i, S, m) /\ entity' = entity
  BY DEF HandleInterest
<1>4. /\ groups' = groups /\ grouped' = grouped /\ spawned' = spawned /\ late' = late
      /\ strayed' = strayed /\ foreign' = foreign /\ granted' = granted
  BY DEF HandleInterest
<1> HIDE DEF m, S
<1>5. InterestChanged(S, i, m.client)
  BY <1>1, <1>3, InterestChanges
<1>6. WorkKept(S, spatial')
  <2>1. ASSUME NEW j \in Instances, NEW e \in Entities
        PROVE  /\ HoldsIn(spatial', j, e) <=> HoldsIn(S, j, e)
               /\ RemoveWaits(spatial'[j].queue, e) => RemoveWaits(S[j].queue, e)
    <3>1. spatial'[j].entities = S[j].entities
      BY <1>5 DEF InterestChanged, SameData
    <3>2. CASE spatial'[j].queue = S[j].queue
      BY <3>1, <3>2 DEF HoldsIn
    <3>3. ASSUME NEW w, spatial'[j].queue = Append(S[j].queue, w), w.type \in {"sub", "unsub"}
          PROVE  /\ HoldsIn(spatial', j, e) <=> HoldsIn(S, j, e)
                 /\ RemoveWaits(spatial'[j].queue, e) => RemoveWaits(S[j].queue, e)
      <4>1. IsQueue(S[j].queue) /\ w.type \notin {"add", "remove"}
        BY <1>1, <3>3 DEF ChannelsOK, ChannelOK
      <4>2. /\ WillHold(S[j].entities, Append(S[j].queue, w), e) <=> WillHold(S[j].entities, S[j].queue, e)
            /\ RemoveWaits(Append(S[j].queue, w), e) => RemoveWaits(S[j].queue, e)
        BY <4>1, WorkAppended
      <4> QED
        BY <3>1, <3>3, <4>2 DEF HoldsIn
    <3> QED
      BY <1>5, <3>2, <3>3 DEF InterestChanged
  <2> QED
    BY <2>1 DEF WorkKept
<1>7. WorkKept(spatial, spatial')
  BY <1>2, <1>6, WorkKeptTwice
<1>8. SameOwners(spatial, spatial')
  BY <1>1, <1>5 DEF QueueSet, InterestChanged, SameOwners
<1>9. /\ \A s \in Servers : interest'[s] = interest[s]
      /\ \A j \in Instances : \A s \in Servers : s \in spatial[j].subs => s \in spatial'[j].subs
  <2>1. \A s \in Servers : s \in Conns /\ s # m.client
    BY <1>1, HandoverAssumption, Kinds
  <2>2. \A j \in Instances : S[j].subs = spatial[j].subs
    BY <1>1 DEF QueueSet, SameSubs
  <2>3. ASSUME NEW j \in Instances, NEW s \in Servers, s \in S[j].subs PROVE s \in spatial'[j].subs
    <3>1. CASE j # i
      BY <1>5, <2>3, <3>1 DEF InterestChanged
    <3>2. CASE j = i
      BY <1>5, <2>1, <2>3, <3>2 DEF InterestChanged
    <3> QED
      BY <3>1, <3>2
  <2> QED
    BY <1>5, <2>1, <2>2, <2>3 DEF InterestChanged
<1> QED
  BY <1>1, <1>3, <1>4, <1>7, <1>8, <1>9, TakenSteady DEF EntityKept

LEMMA SubSteady ==
  ASSUME TypeInv, NEW i \in Instances, HandleSub(i) \/ HandleUnsub(i)
  PROVE  Steady /\ SubsKept
<1> DEFINE m == FirstOf(i)
           S == Taken(i)
<1>1. PICK type \in {"sub", "unsub"} : Take(i, type)
  BY DEF HandleSub, HandleUnsub
<1>2. /\ Channels(S) /\ SpatialWork(m) /\ m.type = type
      /\ QueueSet(spatial, S, i, Tail(spatial[i].queue))
  BY <1>1, SpatialTaken
<1>3. m.client \in Clients /\ m.client \in Conns
  BY <1>2, Kinds DEF SpatialWork
<1>4. WorkKept(spatial, S)
  BY <1>1, MessageTaken
<1>5. /\ \/ spatial' = S
         \/ spatial' = [S EXCEPT ![i].subs = S[i].subs \cup {m.client}]
         \/ spatial' = [S EXCEPT ![i].subs = S[i].subs \ {m.client}]
      /\ \/ interest' = interest
         \/ interest' = [interest EXCEPT ![m.client] = interest[m.client] \cup {i[1]}]
         \/ interest' = [interest EXCEPT ![m.client] = interest[m.client] \ {i[1]}]
      /\ entity' = entity /\ groups' = groups /\ UNCHANGED historyVars
  BY DEF HandleSub, HandleUnsub, Subscribed, Unsubscribed
<1> HIDE DEF S, m
<1>6. \A s \in Servers : interest'[s] = interest[s] /\ s # m.client
  <2>1. \A s \in Servers : s \in Conns /\ s # m.client
    BY <1>3, HandoverAssumption, Kinds
  <2> QED
    BY <1>5, <2>1 DEF TypeInv, ServersOK
<1>7. /\ SameOwners(S, spatial') /\ SameData(S, spatial') /\ SameQueues(S, spatial')
      /\ \A j \in Instances : \A s \in Servers : s \in S[j].subs => s \in spatial'[j].subs
  <2>1. CASE spatial' = S
    BY <2>1 DEF SameOwners, SameData, SameQueues
  <2>2. ASSUME NEW v, v \in {S[i].subs \cup {m.client}, S[i].subs \ {m.client}},
               spatial' = [S EXCEPT ![i].subs = v]
        PROVE  /\ SameOwners(S, spatial') /\ SameData(S, spatial') /\ SameQueues(S, spatial')
               /\ \A j \in Instances : \A s \in Servers : s \in S[j].subs => s \in spatial'[j].subs
    <3>1. SubsSet(S, spatial', i, v)
      BY <1>2, <2>2, SubsChanged
    <3> QED
      BY <1>6, <2>2, <3>1 DEF SubsSet
  <2> QED
    BY <1>5, <2>1, <2>2
<1>8. WorkKept(spatial, spatial')
  BY <1>4, <1>7, SameWork, WorkKeptTwice
<1>9. /\ SameOwners(spatial, spatial')
      /\ \A j \in Instances : \A s \in Servers : s \in spatial[j].subs => s \in spatial'[j].subs
  BY <1>2, <1>7 DEF QueueSet, SameOwners, SameSubs
<1> QED
  BY <1>1, <1>5, <1>6, <1>8, <1>9, TakenSteady DEF EntityKept, historyVars

LEMMA SpatialTickSteady ==
  ASSUME TypeInv, NEW i \in Instances, SpatialTick(i)
  PROVE  Steady /\ SubsKept
<1>1. /\ SameData(spatial, spatial') /\ SameQueues(spatial, spatial')
      /\ \A j \in Instances : spatial'[j].subs =
           IF j = i THEN spatial[i].subs \ closing ELSE spatial[j].subs
      /\ \A j \in Instances : spatial'[j].owner =
           IF j = i /\ spatial[i].owner \in spatial[i].subs \cap closing THEN NoConn
           ELSE spatial[j].owner
  BY SpatialTickChanges DEF TypeInv, ChannelsOK
<1>2. WorkKept(spatial, spatial')
  BY <1>1, SameWork
<1>3. /\ scenario' = scenario /\ current' = current /\ closing' = closing /\ creating' = creating
      /\ interest' = interest /\ entity' = entity /\ groups' = groups /\ notify' = notify
      /\ UNCHANGED historyVars
  BY DEF SpatialTick, worldVars, entityVars
<1>4. ASSUME NEW j \in Instances
      PROVE  \/ spatial'[j].owner = spatial[j].owner
             \/ spatial'[j].owner = NoConn /\ spatial[j].owner \in closing
  BY <1>1
<1>5. SubsKept
  BY <1>1, <1>3 DEF SubsKept
<1>6. WorldKept
  BY <1>3, <1>4 DEF WorldKept, historyVars
<1> QED
  BY <1>2, <1>3, <1>5, <1>6 DEF Steady, DataKept, EntityKept, historyVars

\* A message of an entity channel other than an update that is merged.
LEMMA InboxSteady ==
  ASSUME TypeInv, NEW e \in Entities,
         \/ SetObjRef(e) \/ HandleAddGroup(e) \/ HandleRemoveGroup(e)
         \/ HandleUpdate(e) /\ ~MayUpdate(entity[e], NextOf(e).from)
  PROVE  Steady /\ SubsKept
<1>1. PICK type : Entered(e, type)
  BY DEF HandleUpdate, SetObjRef, HandleAddGroup, HandleRemoveGroup
<1>2. /\ scenario' = scenario /\ current' = current /\ closing' = closing /\ creating' = creating
      /\ interest' = interest /\ spatial' = spatial /\ foreign' = foreign /\ late' = late
      /\ spawned' = spawned /\ granted' = granted
  BY <1>1 DEF Entered, worldVars
<1>3. notify' = notify /\ strayed' = strayed
  BY DEF HandleUpdate, SetObjRef, HandleAddGroup, HandleRemoveGroup
<1>4. grouped \subseteq grouped' /\ (Grouped(groups) \subseteq grouped => Grouped(groups') \subseteq grouped')
  BY DEF HandleUpdate, SetObjRef, HandleAddGroup, HandleRemoveGroup
<1>5. ASSUME NEW x \in Entities PROVE EntityKept(x)
  <2>1. entity'[e].pos = entity[e].pos
    <3>1. CASE HandleUpdate(e) /\ MayUpdate(entity[e], NextOf(e).from)
      <4>1. Head(entity[e].inbox).type = "update"
        BY <3>1 DEF HandleUpdate, Entered
      <4> QED
        BY <3>1, <4>1 DEF SetObjRef, HandleAddGroup, HandleRemoveGroup, Entered
    <3>2. CASE ~(HandleUpdate(e) /\ MayUpdate(entity[e], NextOf(e).from))
      BY <3>2, InboxHandled
    <3> QED
      BY <3>1, <3>2
  <2>2. SameCore(entity[e], entity'[e]) /\ \A y \in Entities \ {e} : entity'[y] = entity[y]
    BY InboxHandled
  <2> QED
    BY <1>2, <2>1, <2>2 DEF EntityKept, SameCore
<1>6. WorkKept(spatial, spatial')
  BY <1>2, SameWork DEF SameData, SameQueues
<1>7. WorldKept /\ SubsKept
  BY <1>2, <1>3, <1>4 DEF WorldKept, SubsKept
<1> QED
  BY <1>2, <1>3, <1>5, <1>6, <1>7 DEF Steady, DataKept

LEMMA EntityTickSteady ==
  ASSUME TypeInv, NEW e \in Entities, EntityTick(e)
  PROVE  Steady /\ SubsKept
<1> DEFINE lost == {c \in closing : entity[e].access[c] # "none"}
<1>1. /\ scenario' = scenario /\ current' = current /\ closing' = closing /\ creating' = creating
      /\ interest' = interest /\ spatial' = spatial /\ groups' = groups /\ notify' = notify
      /\ UNCHANGED historyVars
  BY DEF EntityTick, worldVars
<1>2. /\ \A x \in Entities \ {e} : entity'[x] = entity[x]
      /\ entity'[e].state = entity[e].state /\ entity'[e].pos = entity[e].pos
      /\ entity'[e].owner = IF entity[e].owner \in lost THEN NoConn ELSE entity[e].owner
      /\ \A c \in Conns : entity'[e].access[c] = IF c \in lost THEN "none" ELSE entity[e].access[c]
  BY EntityTickChanges
<1>3. lost \subseteq closing
  OBVIOUS
<1> HIDE DEF lost
<1>4. ASSUME NEW x \in Entities PROVE EntityKept(x)
  <2>1. CASE x = e
    BY <1>1, <1>2, <1>3, <2>1 DEF EntityKept, historyVars
  <2>2. CASE x # e
    BY <1>1, <1>2, <2>2 DEF EntityKept, historyVars
  <2> QED
    BY <2>1, <2>2
<1>5. WorkKept(spatial, spatial')
  BY <1>1, SameWork DEF SameData, SameQueues
<1>6. WorldKept /\ SubsKept
  BY <1>1 DEF WorldKept, SubsKept, historyVars
<1> QED
  BY <1>1, <1>4, <1>5, <1>6 DEF Steady, DataKept, historyVars

\* Servers stay subscribed as long as no channels are created.
LEMMA SubsStay ==
  ASSUME TypeInv, SubsInv, WorldKept, SubsKept
  PROVE  SubsInv'
<1>1. /\ (Replaced' <=> Replaced) /\ (Ready' <=> Ready) /\ Cells' = Cells
      /\ \A c : Current(c)' = Current(c)
  BY WorldNames DEF WorldKept
<1> SUFFICES ASSUME Ready, ~Replaced
             PROVE  /\ creating' = NoConn
                    /\ \A c \in Cells : current'[c] = 1
                    /\ \A s \in Servers \ closing' : \A c \in interest'[s] : s \in spatial'[Current(c)].subs
                    /\ \A c \in Cells : Live(spatial[Current(c)].owner)'
                         => spatial'[Current(c)].owner \in spatial'[Current(c)].subs
  BY <1>1 DEF SubsInv
<1>2. /\ creating = NoConn
      /\ \A c \in Cells : current[c] = 1
      /\ \A s \in Servers \ closing : \A c \in interest[s] : s \in spatial[Current(c)].subs
      /\ \A c \in Cells : Live(spatial[Current(c)].owner)
           => spatial[Current(c)].owner \in spatial[Current(c)].subs
  BY DEF SubsInv
<1>3. ASSUME NEW c \in Cells PROVE Current(c) \in Instances
  BY <1>2, CurrentBorn, CellsInTable DEF Exists, TypeInv, GridInv
<1>4. creating' = NoConn /\ \A c \in Cells : current'[c] = 1
  BY <1>2 DEF SubsKept, WorldKept
<1>5. ASSUME NEW s \in Servers \ closing', NEW c \in interest'[s] PROVE s \in spatial'[Current(c)].subs
  <2>1. s \in Servers \ closing /\ c \in interest[s] /\ c \in Cells
    BY Kinds DEF SubsKept, WorldKept, TypeInv, ServersOK
  <2> QED
    BY <1>2, <1>3, <2>1 DEF SubsKept
<1>6. ASSUME NEW c \in Cells, Live(spatial[Current(c)].owner)'
      PROVE  spatial'[Current(c)].owner \in spatial'[Current(c)].subs
  <2> DEFINE o == spatial[Current(c)].owner
             p == spatial'[Current(c)].owner
  <2>1. p # NoConn /\ p \notin closing'
    BY <1>1, <1>6 DEF Live
  <2>2. p = o /\ Live(o)
    BY <1>3, <2>1 DEF WorldKept, Live
  <2>3. o \in Servers \ closing
    BY <1>3, <2>2 DEF Live, TypeInv, ChannelsOK, ChannelOK
  <2> QED
    BY <1>2, <1>3, <2>2, <2>3 DEF SubsKept
<1> QED
  BY <1>4, <1>5, <1>6

\* Steady steps keep what is known of owners and writers.
LEMMA SteadyOwners ==
  ASSUME TypeInv, AloneInv, OwnerInv, Steady
  PROVE  OwnerInv'
<1>1. ASSUME NEW e \in Entities \ grouped' PROVE Owned(e)'
  <2>1. Owned(e) /\ Alone(e) /\ EntityKept(e) /\ notify'[e] = notify[e] /\ WorldKept
    BY DEF OwnerInv, AloneInv, Steady, WorldKept, DataKept
  <2> QED
    BY <2>1, KeptOwned
<1> QED
  BY <1>1 DEF OwnerInv

LEMMA SteadyWriters ==
  ASSUME TypeInv, WriteInv, Steady
  PROVE  WriteInv'
<1>1. ASSUME NEW e \in Entities \ grouped' PROVE Written(e)'
  <2>1. Written(e) /\ EntityKept(e) /\ notify'[e] = notify[e] /\ WorldKept
    BY DEF WriteInv, Steady, WorldKept, DataKept
  <2> QED
    BY <2>1, KeptWritten
<1> QED
  BY <1>1 DEF WriteInv

-----------------------------------------------------------------------------
(* The steps that move entities, give them to others or create channels.      *)

\* A server creates at least one channel.
LEMMA MadeNonempty ==
  ASSUME NEW g \in Grids, NEW i \in ServerIndexes(g)
  PROVE  ChannelsOfServer(g, i) # {}
<1>1. /\ FirstCol(g, i) \in Int /\ FirstRow(g, i) \in Int
      /\ ServerGridCols(g) \in Int /\ ServerGridCols(g) > 0
      /\ ServerGridRows(g) \in Int /\ ServerGridRows(g) > 0
  <2>1. ServerGridCols(g) \in Nat \ {0} /\ ServerGridRows(g) \in Nat \ {0}
    BY ServersSuffice DEF Grids, ServerGridCols, ServerGridRows
  <2>2. g.serverCols \in Nat \ {0} /\ i \in Nat
    BY DEF Grids, ServerIndexes
  <2>3. i % g.serverCols \in Nat /\ i \div g.serverCols \in Nat
    BY <2>2, Division
  <2> QED
    BY <2>1, <2>3 DEF FirstCol, FirstRow
<1>2. FirstCol(g, i) \in OwnCols(g, i) /\ FirstRow(g, i) \in OwnRows(g, i)
  BY <1>1 DEF OwnCols, OwnRows
<1> QED
  BY <1>2, CellsMember DEF ChannelsOfServer

\* The channels of a server that is new hold nothing; the others are as before.
LEMMA CreationPlaces ==
  ASSUME TypeInv, PlacedInv, AloneInv, OwnerInv, SubsInv, WriteInv, HandleCreateSpatial, Creation
  PROVE  PlacedInv' /\ AloneInv' /\ OwnerInv' /\ SubsInv' /\ WriteInv'
<1>1. /\ scenario' = scenario /\ closing' = closing /\ notify' = notify /\ entity' = entity
      /\ groups' = groups /\ grouped' = grouped /\ strayed' = strayed /\ foreign' = foreign
      /\ late' = late /\ spawned' = spawned /\ granted' = granted
  BY DEF HandleCreateSpatial, TakeGlobal
<1>2. grid' = grid /\ Cells' = Cells /\ (Ready' <=> Ready) /\ \A p : CellOfPos(p)' = CellOfPos(p)
  BY <1>1 DEF grid, Cells, Ready, CellOfPos
<1>3. /\ Cells \subseteq 0..(MaxCells - 1) /\ Made \subseteq Cells /\ Made # {}
      /\ current' = NewCurrent
      /\ \A c \in Cells : current[c] \in Nat /\ NewCurrent[c] = current[c] + (IF c \in Made THEN 1 ELSE 0)
  BY CellsInTable, MadeNonempty, HandoverAssumption DEF TypeInv, GridInv, Creation, Made
<1>4. ~Replaced' => ~Replaced /\ \A c \in Cells : current[c] > 0 => current'[c] = current[c]
  BY <1>2, <1>3 DEF Replaced
<1>5. Ready /\ ~Replaced => Replaced'
  <2> SUFFICES ASSUME Ready, ~Replaced PROVE Replaced'
    OBVIOUS
  <2>1. \A c \in Cells : current[c] = 1
    BY DEF SubsInv
  <2>2. PICK c \in Made : TRUE
    BY <1>3
  <2>3. c \in Cells /\ current'[c] = 2
    BY <1>3, <2>1
  <2> QED
    BY <1>2, <2>3 DEF Replaced
<1>6. SubsInv' /\ WriteInv'
  BY <1>1, <1>2, <1>4, <1>5 DEF SubsInv, WriteInv, Written
<1>7. ASSUME NEW i \in Instances
      PROVE  /\ spatial'[i].entities = spatial[i].entities /\ spatial'[i].queue = spatial[i].queue
             /\ Born(i) => spatial'[i].owner = spatial[i].owner
  <2>1. NewInstance(i) => ~Born(i)
    BY <1>1, BornStays
  <2>2. ~Born(i) => spatial[i].entities = {} /\ spatial[i].queue = <<>>
    BY DEF TypeInv, ChannelsOK, ChannelOK
  <2> QED
    BY <2>1, <2>2 DEF Creation
<1>8. ASSUME NEW i \in Instances, NEW e \in Entities
      PROVE  /\ HoldsIn(spatial', i, e) <=> HoldsIn(spatial, i, e)
             /\ RemoveWaits(spatial'[i].queue, e) <=> RemoveWaits(spatial[i].queue, e)
  BY <1>7 DEF HoldsIn
<1>9. PlacedInv'
  <2>1. ASSUME NEW e \in Entities PROVE InWorld(e)'
    <3>1. InWorld(e)
      BY DEF PlacedInv
    <3>2. Entrusted(e)' <=> Entrusted(e)
      BY <1>1 DEF Entrusted
    <3> QED
      BY <1>1, <1>8, <3>1, <3>2 DEF InWorld
  <2> QED
    BY <2>1 DEF PlacedInv
<1>10. ASSUME NEW e \in Entities, EntityOK(entity[e]) PROVE CellOfPos(entity[e].pos) \in Cells \cup {NoCell}
  BY <1>10, PositionsArePoints, PointCell DEF TypeInv, GridInv, EntityOK
<1>11. AloneInv'
  <2>1. ASSUME NEW e \in Entities \ grouped' PROVE Alone(e)'
    <3>1. Alone(e)
      BY <1>1 DEF AloneInv
    <3>2. Going(e)' <=> Going(e)
      BY <1>1 DEF Going
    <3>3. Exists(CellOfPos(entity[e].pos)) => Exists(CellOfPos(entity[e].pos))'
      BY <1>1, <1>2, <1>3, <1>10 DEF Exists, TypeInv, EntitiesOK
    <3> QED
      BY <1>1, <1>2, <1>4, <1>8, <3>1, <3>2, <3>3 DEF Alone
  <2>2. (Grouped(groups) \subseteq grouped)'
    BY <1>1 DEF AloneInv, Grouped
  <2> QED
    BY <2>1, <2>2 DEF AloneInv
<1>12. OwnerInv'
  <2>1. ASSUME NEW e \in Entities \ grouped' PROVE Owned(e)'
    <3> SUFFICES ASSUME entity[e].state = "alive", e \notin strayed \cup foreign, ~Replaced'
                 PROVE  SameLive(entity[e].owner, spatial[Place(e)].owner)'
      BY <1>1 DEF Owned
    <3>1. SameLive(entity[e].owner, spatial[Place(e)].owner)
      BY <1>1, <1>4 DEF OwnerInv, Owned
    <3>2. Exists(CellOfPos(entity[e].pos)) /\ CellOfPos(entity[e].pos) \in Cells
      BY <1>1, <1>4, <1>10 DEF AloneInv, Alone, TypeInv, EntitiesOK, Exists
    <3>3. Current(CellOfPos(entity[e].pos))' = Current(CellOfPos(entity[e].pos))
      BY <1>1, <1>2, <1>4, <3>2 DEF Current, Exists
    <3>4. Place(e)' = Place(e)
      BY <1>1, <3>3 DEF Place
    <3>5. Place(e) \in Instances /\ Born(Place(e))
      <4>1. NotifyOK(notify[e])
        BY DEF TypeInv, NotifiesOK
      <4>2. notify[e].at = "owners" => notify[e].src \in Instances /\ Born(notify[e].src)
        BY <4>1 DEF NotifyOK, NoNotify
      <4> QED
        BY <3>2, <4>2, CurrentBorn DEF Place, TypeInv, Exists
    <3>6. spatial'[Place(e)].owner = spatial[Place(e)].owner
      BY <1>7, <3>5
    <3> QED
      BY <1>1, <3>1, <3>4, <3>6 DEF SameLive, Live
  <2> QED
    BY <2>1 DEF OwnerInv
<1> QED
  BY <1>6, <1>9, <1>11, <1>12

\* What the creation of entity e does besides making its channel: nothing is moved,
\* e may join the data of one channel, and history says what is wrong with e.
Birth(e, owner, pos, access) ==
  /\ Created(e, owner, pos, access) /\ owner \in Conns
  /\ scenario' = scenario /\ current' = current /\ closing' = closing /\ creating' = creating
  /\ interest' = interest /\ notify' = notify /\ groups' = groups /\ grouped' = grouped
  /\ SameOwners(spatial, spatial') /\ SameSubs(spatial, spatial')
  /\ strayed \subseteq strayed' /\ foreign \subseteq foreign'
  /\ granted' = IF access = "write" THEN granted \cup {e} ELSE granted
  /\ late' = IF Leaving(e) THEN late \cup {e} ELSE late
  /\ spawned' = spawned \/ (spawned' = spawned \cup {e} /\ \E i \in Instances : HoldsIn(spatial', i, e))
  /\ \A i \in Instances, x \in Entities :
       /\ x # e => (HoldsIn(spatial', i, x) <=> HoldsIn(spatial, i, x))
       /\ RemoveWaits(spatial'[i].queue, x) => RemoveWaits(spatial[i].queue, x)
  /\ e \notin strayed' /\ ~Replaced =>
       /\ Exists(CellOfPos(pos))
       /\ \A i \in Instances : HoldsIn(spatial', i, e) => HoldsIn(spatial, i, e) \/ i[1] = CellOfPos(pos)
       /\ e \notin foreign' => owner = spatial[Current(CellOfPos(pos))].owner

\* The Notify steps and callbacks that will remove e.
LEMMA LeavingOrNot ==
  ASSUME ChannelsOK(spatial), NEW e, ~Leaving(e)
  PROVE  /\ \A x \in Entities : ~(notify[x].at \in {"owners", "remove"} /\ e \in notify[x].entities)
         /\ \A i \in Instances : ~RemoveWaits(spatial[i].queue, e)
BY DEF Leaving, RemoveWaits, RemovedAfter

LEMMA BirthKeeps ==
  ASSUME TypeInv, PlacedInv, AloneInv, OwnerInv, WriteInv, TypeInv',
         NEW e \in Entities, NEW owner, NEW pos, NEW access, Birth(e, owner, pos, access)
  PROVE  /\ WorldKept /\ SubsKept
         /\ PlacedInv' /\ AloneInv' /\ OwnerInv' /\ WriteInv'
<1>1. WorldKept /\ SubsKept
  BY DEF Birth, WorldKept, SubsKept, SameOwners, SameSubs
<1>2. /\ (Replaced' <=> Replaced) /\ (Ready' <=> Ready)
      /\ \A c : Exists(c)' <=> Exists(c)
      /\ \A c : Current(c)' = Current(c)
      /\ \A p : CellOfPos(p)' = CellOfPos(p)
  BY WorldNames DEF Birth
<1>3. /\ entity[e].state = "none"
      /\ entity'[e].state = "alive" /\ entity'[e].owner = owner /\ entity'[e].pos = pos
      /\ \A d \in Conns :
           entity'[e].access[d] = IF d = owner /\ owner \notin closing THEN access ELSE "none"
      /\ \A x \in Entities \ {e} : EntityKept(x) /\ entity'[x] = entity[x]
  BY DEF Birth, Created, EntityKept
<1>4. /\ notify' = notify /\ groups' = groups /\ grouped' = grouped /\ closing' = closing
      /\ notify[e].at = "idle" /\ strayed \subseteq strayed' /\ foreign \subseteq foreign'
  BY <1>3 DEF Birth, TypeInv, NotifiesOK
<1>5. PlacedInv'
  <2>1. ASSUME NEW x \in Entities PROVE InWorld(x)'
    <3>1. InWorld(x)
      BY DEF PlacedInv
    <3>2. Entrusted(x)' <=> Entrusted(x)
      BY <1>4 DEF Entrusted
    <3>3. CASE x # e
      <4>1. /\ x \in spawned' <=> x \in spawned
            /\ x \in late' <=> x \in late
            /\ \A i \in Instances : (HoldsIn(spatial', i, x) <=> HoldsIn(spatial, i, x))
            /\ \A i \in Instances : RemoveWaits(spatial'[i].queue, x) => RemoveWaits(spatial[i].queue, x)
        BY <3>3 DEF Birth
      <4> QED
        BY <1>3, <1>4, <3>1, <3>2, <3>3, <4>1 DEF InWorld
    <3>4. CASE x = e
      <4>1. e \notin late' => ~Leaving(e)
        BY DEF Birth
      <4>2. e \notin spawned
        BY <1>3, <3>1, <3>4 DEF InWorld
      <4>3. e \in spawned' => \E i \in Instances : HoldsIn(spatial', i, e)
        BY <4>2 DEF Birth
      <4>4. \A i \in Instances : RemoveWaits(spatial'[i].queue, e) => RemoveWaits(spatial[i].queue, e)
        BY DEF Birth
      <4>5. ~Leaving(e) =>
              /\ \A y \in Entities : ~(notify[y].at \in {"owners", "remove"} /\ e \in notify[y].entities)
              /\ \A i \in Instances : ~RemoveWaits(spatial[i].queue, e)
        BY LeavingOrNot DEF TypeInv
      <4> QED
        BY <1>3, <1>4, <3>4, <4>1, <4>3, <4>4, <4>5 DEF InWorld
    <3> QED
      BY <3>3, <3>4
  <2> QED
    BY <2>1 DEF PlacedInv
<1>6. AloneInv'
  <2>1. ASSUME NEW x \in Entities \ grouped' PROVE Alone(x)'
    <3>1. Alone(x)
      BY <1>4 DEF AloneInv
    <3>2. Going(x)' <=> Going(x)
      BY <1>4 DEF Going
    <3>3. CASE x # e
      <4>1. \A i \in Instances : HoldsIn(spatial', i, x) <=> HoldsIn(spatial, i, x)
        BY <3>3 DEF Birth
      <4> QED
        BY <1>2, <1>3, <1>4, <3>1, <3>2, <3>3, <4>1 DEF Alone
    <3>4. CASE x = e
      <4>1. ASSUME e \notin strayed', ~Replaced
            PROVE  /\ Exists(CellOfPos(pos))
                   /\ \A i \in Instances : HoldsIn(spatial', i, e) => i[1] = CellOfPos(pos)
        <5>1. \A i \in Instances : ~HoldsIn(spatial, i, e)
          BY <1>3, <1>4, <3>1, <3>4, <4>1 DEF Alone
        <5> QED
          BY <4>1, <5>1 DEF Birth
      <4> QED
        BY <1>2, <1>3, <1>4, <3>1, <3>4, <4>1 DEF Alone
    <3> QED
      BY <3>3, <3>4
  <2>2. (Grouped(groups) \subseteq grouped)'
    BY <1>4 DEF AloneInv, Grouped
  <2> QED
    BY <2>1, <2>2 DEF AloneInv
<1>7. OwnerInv'
  <2>1. ASSUME NEW x \in Entities \ grouped' PROVE Owned(x)'
    <3>1. CASE x # e
      BY <1>1, <1>3, <1>4, <3>1, KeptOwned DEF OwnerInv, AloneInv
    <3>2. CASE x = e
      <4> SUFFICES ASSUME e \notin strayed' \cup foreign', ~Replaced
                   PROVE  owner = spatial'[Current(CellOfPos(pos))].owner
        BY <1>2, <1>3, <1>4, <3>2 DEF Owned, Place, SameLive
      <4>1. Exists(CellOfPos(pos)) /\ owner = spatial[Current(CellOfPos(pos))].owner
        BY DEF Birth
      <4>2. CellOfPos(pos) \in Cells
        <5>1. EntityOK(entity[e])'
          BY DEF TypeInv, EntitiesOK
        <5>2. pos \in Positions'
          BY <1>3, <5>1 DEF EntityOK
        <5>3. pos \in Positions
          BY <5>2 DEF Positions, Birth
        <5> QED
          BY <4>1, <5>3, PositionsArePoints, PointCell DEF TypeInv, GridInv, Exists
      <4>3. Current(CellOfPos(pos)) \in Instances
        BY <4>1, <4>2, CurrentBorn DEF TypeInv
      <4> QED
        BY <4>1, <4>3 DEF Birth, SameOwners
    <3> QED
      BY <3>1, <3>2
  <2> QED
    BY <2>1 DEF OwnerInv
<1>8. WriteInv'
  <2>1. ASSUME NEW x \in Entities \ grouped' PROVE Written(x)'
    <3>1. CASE x # e
      BY <1>1, <1>3, <1>4, <3>1, KeptWritten DEF WriteInv
    <3>2. CASE x = e
      <4>1. owner \in Conns
        BY DEF Birth
      <4>2. ASSUME NEW c \in Conns, Writer(e, c)' PROVE c = owner
        BY <1>3, <4>2 DEF Writer
      <4>3. e \in granted' => access = "write"
        <5>1. e \notin granted
          BY <1>3, <1>4, <3>2 DEF WriteInv, Written
        <5> QED
          BY <5>1 DEF Birth
      <4>4. e \in granted' /\ Live(entity[e].owner)' => entity'[e].access[entity'[e].owner] = "write"
        BY <1>3, <1>4, <4>1, <4>3 DEF Live
      <4> QED
        BY <1>3, <3>2, <4>2, <4>4 DEF Written
    <3> QED
      BY <3>1, <3>2
  <2> QED
    BY <2>1 DEF WriteInv
<1> QED
  BY <1>1, <1>5, <1>6, <1>7, <1>8

\* Without channels that were created anew there is one instance of every channel.
LEMMA OnlyInstance ==
  ASSUME GridInv, ~Replaced, NEW i \in Instances, Born(i)
  PROVE  Exists(i[1]) /\ i = Current(i[1]) /\ i[1] \in Cells
<1>1. i[1] \in Cells /\ i[2] \in Nat /\ i[2] > 0 /\ i = <<i[1], i[2]>>
  BY HandoverAssumption DEF Born, Instances
<1>2. current[i[1]] \in Nat /\ ~(current[i[1]] > 1) /\ i[2] <= current[i[1]]
  BY <1>1, CellsInTable, HandoverAssumption DEF Born, GridInv, Replaced
<1>3. current[i[1]] = 1 /\ i[2] = 1
  BY <1>1, <1>2
<1>4. i[1] # NoCell
  BY <1>1 DEF Cells, CellsOf, NoCell
<1> QED
  BY <1>1, <1>3, <1>4 DEF Exists, Current

LEMMA CreateWorldEntityKeeps ==
  ASSUME TypeInv, PlacedInv, AloneInv, OwnerInv, WriteInv, TypeInv', HandleCreateWorldEntity
  PROVE  /\ WorldKept /\ SubsKept
         /\ PlacedInv' /\ AloneInv' /\ OwnerInv' /\ WriteInv'
<1> DEFINE m == Head(globalQueue)
           e == m.entity
           c == CellOfPos(m.pos)
           owner == spatial[Current(c)].owner
           owned == Exists(c) /\ Live(owner)
           make == IF owned THEN owner ELSE m.from
<1>1. /\ scenario' = scenario /\ closing' = closing /\ notify' = notify
      /\ current' = current /\ creating' = creating /\ interest' = interest
      /\ groups' = groups /\ grouped' = grouped /\ foreign' = foreign
  BY DEF HandleCreateWorldEntity, TakeGlobal, worldVars
<1>2. e \in Entities /\ m.pos \in Positions /\ m.from \in Senders /\ m.access \in Rights
  <2>1. TakeGlobal("createEntity")
    BY DEF HandleCreateWorldEntity
  <2>2. GlobalWork(m) /\ m.type = "createEntity"
    BY <2>1, GlobalTaken DEF TypeInv
  <2> QED
    BY <2>2 DEF GlobalWork
<1>3. owned => Current(c) \in Instances /\ Current(c)[1] = c /\ c \in Cells /\ owner \in Servers
  <2>1. c \in Cells \cup {NoCell}
    BY <1>2, PositionsArePoints, PointCell DEF TypeInv, GridInv
  <2>2. Exists(c) => c \in Cells /\ Current(c) \in Instances /\ Current(c)[1] = c
    BY <2>1, CurrentBorn DEF TypeInv, Exists
  <2> QED
    BY <2>2 DEF TypeInv, ChannelsOK, ChannelOK, Live
<1>4. CASE entity[e].state # "none"
  <2>1. UNCHANGED <<entity, spatial, strayed, late, spawned, granted, apart>>
    BY <1>4 DEF HandleCreateWorldEntity, CreateWorldEntity
  <2>2. WorldKept /\ SubsKept /\ DataKept /\ \A x \in Entities : EntityKept(x)
    BY <1>1, <2>1 DEF WorldKept, SubsKept, DataKept, WorkKept, EntityKept, HoldsIn
  <2> QED
    BY <2>2, SteadyPlaces, SteadyOwners, SteadyWriters DEF Steady
<1>5. CASE entity[e].state = "none"
  <2>1. /\ entity' = [entity EXCEPT ![e] = NewEntity(make, m)]
        /\ spatial' = IF owned THEN Execute(spatial, Current(c), Callback("add", {e})) ELSE spatial
        /\ Listed(m)
        /\ strayed' = IF owned THEN strayed ELSE strayed \cup {e}
        /\ spawned' = IF owned THEN spawned \cup {e} ELSE spawned
    BY <1>5 DEF HandleCreateWorldEntity, CreateWorldEntity
  <2>2. make \in Senders /\ make \in Conns
    BY <1>2, <1>3, Kinds
  <2>3. /\ late' = IF Leaving(e) THEN late \cup {e} ELSE late
        /\ granted' = IF m.access = "write" THEN granted \cup {e} ELSE granted
    BY <2>1 DEF Listed
  <2>4. Created(e, make, m.pos, m.access)
    <3> HIDE DEF m, make
    <3> QED
      BY <1>2, <1>5, <2>1, <2>2, CreationOfEntity DEF TypeInv, e
  <2> HIDE DEF m, e
  <2>5. CASE owned
    <3>1. QueueSet(spatial, spatial', Current(c), Append(spatial[Current(c)].queue, Callback("add", {e})))
      BY <1>3, <2>1, <2>5, ExecuteChanges DEF TypeInv, ChannelsOK
    <3>2. WorkAdded(spatial, spatial', Current(c), {e})
      BY <1>3, <2>5, <3>1, AddQueued DEF TypeInv
    <3>3. SameOwners(spatial, spatial') /\ SameSubs(spatial, spatial')
      BY <3>1 DEF QueueSet
    <3>4. \E i \in Instances : HoldsIn(spatial', i, e)
      BY <1>2, <1>3, <2>5, <3>2 DEF WorkAdded
    <3>5. make = spatial[Current(c)].owner /\ Exists(c)
      BY <2>5
    <3>6. Current(c)[1] = c /\ strayed' = strayed /\ spawned' = spawned \cup {e}
      BY <1>3, <2>1, <2>5
    <3> HIDE DEF make
    <3>7. \A i \in Instances, x \in Entities :
            /\ x # e => (HoldsIn(spatial', i, x) <=> HoldsIn(spatial, i, x))
            /\ HoldsIn(spatial', i, e) => HoldsIn(spatial, i, e) \/ i = Current(c)
            /\ RemoveWaits(spatial'[i].queue, x) => RemoveWaits(spatial[i].queue, x)
      BY <1>2, <3>2 DEF WorkAdded
    <3>8. \A i \in Instances : HoldsIn(spatial', i, e) => HoldsIn(spatial, i, e) \/ i[1] = c
      BY <1>2, <3>6, <3>7
    <3>9. Birth(e, make, m.pos, m.access)
      BY <1>1, <2>2, <2>3, <2>4, <3>3, <3>4, <3>5, <3>6, <3>7, <3>8 DEF Birth
    <3> QED
      BY <1>2, <3>9, BirthKeeps
  <2>6. CASE ~owned
    <3>1. spatial' = spatial /\ e \in strayed' /\ strayed \subseteq strayed' /\ spawned' = spawned
      BY <2>1, <2>6
    <3> HIDE DEF make, owned, c
    <3>2. Birth(e, make, m.pos, m.access)
      BY <1>1, <2>2, <2>3, <2>4, <3>1 DEF Birth, SameOwners, SameSubs
    <3> QED
      BY <1>2, <3>2, BirthKeeps
  <2> QED
    BY <2>5, <2>6
<1> QED
  BY <1>4, <1>5

LEMMA CreateEntityKeeps ==
  ASSUME TypeInv, PlacedInv, AloneInv, OwnerInv, WriteInv, TypeInv',
         NEW i \in Instances, HandleCreateEntity(i)
  PROVE  /\ WorldKept /\ SubsKept
         /\ PlacedInv' /\ AloneInv' /\ OwnerInv' /\ WriteInv'
<1> DEFINE m == FirstOf(i)
           e == m.entity
<1>1. /\ scenario' = scenario /\ closing' = closing /\ notify' = notify
      /\ current' = current /\ creating' = creating /\ interest' = interest
      /\ groups' = groups /\ grouped' = grouped /\ spawned' = spawned
  BY DEF HandleCreateEntity, Take, worldVars
<1>2. /\ e \in Entities /\ m.pos \in Positions /\ m.from \in Senders /\ m.from \in Conns /\ Born(i)
      /\ m.access \in Rights
      /\ QueueSet(spatial, spatial', i, Tail(spatial[i].queue))
      /\ WorkKept(spatial, spatial')
      /\ \A j \in Instances, x \in Entities : HoldsIn(spatial', j, x) <=> HoldsIn(spatial, j, x)
  <2>1. Take(i, "createEntity") /\ spatial' = Taken(i)
    BY DEF HandleCreateEntity
  <2>2. /\ SpatialWork(m) /\ m.type = "createEntity" /\ Born(i)
        /\ QueueSet(spatial, Taken(i), i, Tail(spatial[i].queue))
    BY <2>1, SpatialTaken
  <2>3. /\ WorkKept(spatial, Taken(i))
        /\ \A j \in Instances, x \in Entities : HoldsIn(Taken(i), j, x) <=> HoldsIn(spatial, j, x)
    BY <2>1, MessageTaken
  <2> QED
    BY <2>1, <2>2, <2>3, Kinds DEF SpatialWork
<1>3. CASE entity[e].state # "none"
  <2>1. UNCHANGED <<entity, strayed, foreign, late, granted, apart>>
    BY <1>3 DEF HandleCreateEntity, CreateEntity
  <2>2. WorldKept /\ SubsKept /\ DataKept /\ \A x \in Entities : EntityKept(x)
    BY <1>1, <1>2, <2>1 DEF WorldKept, SubsKept, DataKept, EntityKept, QueueSet, SameOwners, SameSubs
  <2> QED
    BY <2>2, SteadyPlaces, SteadyOwners, SteadyWriters DEF Steady
<1>4. CASE entity[e].state = "none"
  <2>1. /\ entity' = [entity EXCEPT ![e] = NewEntity(m.from, m)]
        /\ strayed' = IF CellOfPos(m.pos) # i[1] THEN strayed \cup {e} ELSE strayed
        /\ foreign' = IF m.from # spatial[i].owner THEN foreign \cup {e} ELSE foreign
        /\ Listed(m)
    BY <1>4 DEF HandleCreateEntity, CreateEntity
  <2>2. /\ late' = IF Leaving(e) THEN late \cup {e} ELSE late
        /\ granted' = IF m.access = "write" THEN granted \cup {e} ELSE granted
    BY <2>1 DEF Listed
  <2>3. Created(e, m.from, m.pos, m.access)
    <3> HIDE DEF m
    <3> QED
      BY <1>2, <1>4, <2>1, CreationOfEntity DEF TypeInv, e
  <2>4. SameOwners(spatial, spatial') /\ SameSubs(spatial, spatial')
    BY <1>2 DEF QueueSet
  <2>5. ASSUME NEW j \in Instances, NEW x \in Entities
        PROVE  /\ x # e => (HoldsIn(spatial', j, x) <=> HoldsIn(spatial, j, x))
               /\ HoldsIn(spatial', j, x) => HoldsIn(spatial, j, x)
               /\ RemoveWaits(spatial'[j].queue, x) => RemoveWaits(spatial[j].queue, x)
    BY <1>2 DEF WorkKept
  <2>6. ~Replaced => Exists(i[1]) /\ i = Current(i[1])
    BY <1>2, OnlyInstance DEF TypeInv
  <2> HIDE DEF m, e
  <2>7. Birth(e, m.from, m.pos, m.access)
    BY <1>1, <1>2, <2>1, <2>2, <2>3, <2>4, <2>5, <2>6 DEF Birth
  <2> QED
    BY <1>2, <2>7, BirthKeeps
<1> QED
  BY <1>3, <1>4

\* SPAWN: the entity joins the data of the channel where it is spawned.
LEMMA SpawnChanges ==
  ASSUME TypeInv, NEW i \in Instances, HandleSpawn(i)
  PROVE  /\ WorldKept /\ SubsKept /\ notify' = notify /\ late' = late
         /\ \A x \in Entities : EntityKept(x) /\ entity'[x].state = entity[x].state
<1> DEFINE m == FirstOf(i)
           S == Taken(i)
           c == CellOfPos(m.pos)
           e == m.entity
<1>1. /\ Channels(S) /\ ChannelsOK(S) /\ SameOwners(spatial, S) /\ SameSubs(spatial, S)
      /\ SpatialWork(m) /\ m.type = "spawn"
  BY SpatialTaken DEF HandleSpawn, QueueSet
<1>2. e \in Entities /\ m.pos \in Points
  BY <1>1 DEF SpatialWork
<1>3. Exists(c) => Current(c) \in Instances
  BY <1>2, PointCell, CurrentBorn DEF TypeInv, GridInv, Exists
<1>4. /\ scenario' = scenario /\ current' = current /\ closing' = closing /\ creating' = creating
      /\ interest' = interest /\ notify' = notify /\ groups' = groups /\ grouped' = grouped
      /\ foreign' = foreign /\ late' = late /\ granted' = granted /\ strayed \subseteq strayed'
  BY DEF HandleSpawn, Take, Spawn, worldVars
<1>5. SameOwners(spatial, spatial') /\ SameSubs(spatial, spatial')
  <2>1. \/ spatial' = S
        \/ spatial' = [S EXCEPT ![i].entities = S[i].entities \cup {e}]
        \/ Exists(c) /\ spatial' = Execute(S, Current(c), Callback("add", {e}))
    BY DEF HandleSpawn, Spawn
  <2> HIDE DEF S, c, m, e
  <2>2. CASE spatial' = [S EXCEPT ![i].entities = S[i].entities \cup {e}]
    <3>1. DataSet(S, spatial', i, S[i].entities \cup {e})
      BY <1>1, <2>2, EntitiesChanged
    <3> QED
      BY <1>1, <3>1 DEF DataSet, SameOwners, SameSubs
  <2>3. CASE Exists(c) /\ spatial' = Execute(S, Current(c), Callback("add", {e}))
    <3>1. QueueSet(S, spatial', Current(c), Append(S[Current(c)].queue, Callback("add", {e})))
      BY <1>1, <1>3, <2>3, ExecuteChanges
    <3> QED
      BY <1>1, <3>1 DEF QueueSet, SameOwners, SameSubs
  <2> QED
    BY <1>1, <2>1, <2>2, <2>3
<1>6. WorldKept /\ SubsKept
  BY <1>4, <1>5 DEF WorldKept, SubsKept, SameOwners, SameSubs
<1>7. ASSUME NEW x \in Entities PROVE EntityKept(x) /\ entity'[x].state = entity[x].state
  <2> DEFINE r == [entity[e] EXCEPT !.inbox = Append(entity[e].inbox, [type |-> "setObjRef"])]
  <2>1. entity' = entity \/ entity' = [entity EXCEPT ![e] = r]
    BY DEF HandleSpawn, Spawn
  <2>2. EntityWork([type |-> "setObjRef"])
    BY DEF EntityWork
  <2>3. SameCore(r, entity[e]) /\ r.pos = entity[e].pos
    BY <1>2, <2>2, InboxAppended DEF TypeInv, EntitiesOK, SameCore
  <2> HIDE DEF r, m, e
  <2>4. CASE entity' = [entity EXCEPT ![e] = r]
    <3>1. EntitySet(entity, entity', e, r)
      BY <1>2, <2>4, EntityReplaced DEF TypeInv
    <3> QED
      BY <1>2, <1>4, <2>3, <3>1 DEF EntitySet, EntityKept, SameCore
  <2> QED
    BY <1>4, <2>1, <2>4 DEF EntityKept
<1> QED
  BY <1>4, <1>6, <1>7

\* The channel that an entity will be in by a SPAWN that instance i handles: none when
\* its location is outside the world.
SpawnCell(i, m) ==
  LET c == CellOfPos(m.pos)
  IN IF m.pos = NoPos \/ (c # NoCell /\ c = m.chId) THEN i[1] ELSE c

\* Where the spawned entity will be: besides where it was, in the channel where it is
\* spawned; when it enters the world and nothing will remove it, it is there.
LEMMA SpawnWork ==
  ASSUME TypeInv, NEW i \in Instances, HandleSpawn(i)
  PROVE  LET e == FirstOf(i).entity
             c == SpawnCell(i, FirstOf(i))
         IN /\ e \in Entities
            /\ \A j \in Instances, x \in Entities :
                 /\ HoldsIn(spatial, j, x) => HoldsIn(spatial', j, x)
                 /\ RemoveWaits(spatial'[j].queue, x) => RemoveWaits(spatial[j].queue, x)
                 /\ HoldsIn(spatial', j, x) => HoldsIn(spatial, j, x) \/ (x = e /\ c # NoCell /\ j[1] = c)
            /\ spawned \subseteq spawned'
            /\ \A x \in spawned' \ spawned :
                 /\ x = e /\ e \in Alive
                 /\ (\A j \in Instances : ~RemoveWaits(spatial[j].queue, e))
                      => \E j \in Instances : HoldsIn(spatial', j, e)
            /\ e \notin strayed' => c = NoCell \/ CellOfPos(entity[e].pos) = c
<1> DEFINE m == FirstOf(i)
           S == Taken(i)
           c == SpawnCell(i, m)
           e == m.entity
<1>1. /\ Channels(S) /\ ChannelsOK(S) /\ Born(i) /\ SpatialWork(m) /\ m.type = "spawn"
      /\ QueueSet(spatial, S, i, Tail(spatial[i].queue))
  BY SpatialTaken DEF HandleSpawn
<1>2. e \in Entities /\ m.pos \in Points
  BY <1>1 DEF SpatialWork
<1>3. i[1] \in Cells /\ Exists(i[1])
  <2>1. i[1] \in Cells /\ i[2] <= current[i[1]] /\ i[2] \in Nat /\ i[2] > 0
    BY <1>1, HandoverAssumption DEF Born, Instances
  <2>2. current[i[1]] \in Nat /\ i[1] # NoCell
    BY <2>1, CellsInTable, HandoverAssumption DEF TypeInv, GridInv, Cells, CellsOf, NoCell
  <2>3. current[i[1]] > 0
    BY <2>1, <2>2
  <2> QED
    BY <2>1, <2>2, <2>3 DEF Exists
<1>4. ASSUME NEW j \in Instances, NEW x \in Entities
      PROVE  /\ HoldsIn(S, j, x) <=> HoldsIn(spatial, j, x)
             /\ RemoveWaits(S[j].queue, x) => RemoveWaits(spatial[j].queue, x)
  BY MessageTaken DEF HandleSpawn, WorkKept
<1>5. Exists(c) => Current(c) \in Instances /\ Current(c)[1] = c /\ c # NoCell
  <2>1. CellOfPos(m.pos) \in Cells \cup {NoCell}
    BY <1>2, PointCell DEF TypeInv, GridInv
  <2>2. c \in Cells \cup {NoCell}
    BY <1>3, <2>1 DEF SpawnCell
  <2> QED
    BY <2>2, CurrentBorn DEF TypeInv, Exists
<1>6. /\ spawned' = IF c # NoCell /\ Exists(c) /\ e \in Alive THEN spawned \cup {e} ELSE spawned
      /\ strayed' = IF c # NoCell /\ CellOfPos(entity[e].pos) # c THEN strayed \cup {e} ELSE strayed
      /\ \/ spatial' = S /\ (c = NoCell \/ ~Exists(c))
         \/ c # NoCell /\ c = i[1] /\ spatial' = [S EXCEPT ![i].entities = S[i].entities \cup {e}]
         \/ c # NoCell /\ Exists(c) /\ spatial' = Execute(S, Current(c), Callback("add", {e}))
  <2> DEFINE d == CellOfPos(m.pos)
             here == m.pos = NoPos \/ d = m.chId
             there == ~here /\ Exists(d)
  <2>1. Spawn(i, S, m)
    BY DEF HandleSpawn
  <2>2. CASE m.pos # NoPos /\ d = NoCell
    <3>1. c = NoCell /\ spatial' = S /\ spawned' = spawned /\ strayed' = strayed
      BY <2>1, <2>2 DEF Spawn, SpawnCell
    <3> QED
      BY <3>1
  <2>3. CASE ~(m.pos # NoPos /\ d = NoCell)
    <3>1. /\ spatial' = CASE here  -> [S EXCEPT ![i].entities = S[i].entities \cup {e}]
                          [] there -> Execute(S, Current(d), Callback("add", {e}))
                          [] OTHER -> S
          /\ strayed' = IF CellOfPos(entity[e].pos) # (IF here THEN i[1] ELSE d)
                        THEN strayed \cup {e} ELSE strayed
          /\ spawned' = IF (here \/ there) /\ e \in Alive THEN spawned \cup {e} ELSE spawned
      BY <2>1, <2>3 DEF Spawn
    <3>2. c = (IF here THEN i[1] ELSE d) /\ c # NoCell
      <4>1. i[1] # NoCell
        BY <1>3 DEF Exists
      <4>2. c = IF m.pos = NoPos \/ (d # NoCell /\ d = m.chId) THEN i[1] ELSE d
        BY DEF SpawnCell
      <4> HIDE DEF c, d, m
      <4> QED
        BY <2>3, <4>1, <4>2
    <3> HIDE DEF c, d, S, m, e
    <3>3. CASE here
      BY <1>3, <3>1, <3>2, <3>3
    <3>4. CASE ~here
      BY <3>1, <3>2, <3>4
    <3> QED
      BY <3>3, <3>4
  <2> QED
    BY <2>2, <2>3
<1> DEFINE Goal(x, j) == /\ HoldsIn(spatial, j, x) => HoldsIn(spatial', j, x)
                         /\ RemoveWaits(spatial'[j].queue, x) => RemoveWaits(spatial[j].queue, x)
                         /\ HoldsIn(spatial', j, x) => HoldsIn(spatial, j, x) \/ (x = e /\ c # NoCell /\ j[1] = c)
           There == (\A j \in Instances : ~RemoveWaits(spatial[j].queue, e))
                      => \E j \in Instances : HoldsIn(spatial', j, e)
           All == \A x \in Entities, j \in Instances : Goal(x, j)
<1> HIDE DEF S, m, c, e
<1>7. ASSUME spatial' = S PROVE All
  BY <1>4, <1>7
<1>8. ASSUME c # NoCell, c = i[1], spatial' = [S EXCEPT ![i].entities = S[i].entities \cup {e}]
      PROVE  All /\ There
  <2>1. DataSet(S, spatial', i, S[i].entities \cup {e})
    BY <1>1, <1>8, EntitiesChanged
  <2>2. ASSUME NEW j \in Instances
        PROVE  /\ spatial'[j].queue = S[j].queue
               /\ spatial'[j].entities = IF j = i THEN S[i].entities \cup {e} ELSE S[j].entities
    BY <2>1 DEF DataSet, SameQueues
  <2>3. ASSUME NEW j \in Instances, NEW x \in Entities
        PROVE  /\ HoldsIn(S, j, x) => HoldsIn(spatial', j, x)
               /\ HoldsIn(spatial', j, x) => HoldsIn(S, j, x) \/ (x = e /\ j = i)
               /\ RemoveWaits(spatial'[j].queue, x) => RemoveWaits(S[j].queue, x)
    <3>1. /\ WillHold(S[i].entities, S[i].queue, x) => WillHold(S[i].entities \cup {e}, S[i].queue, x)
          /\ x # e => (WillHold(S[i].entities \cup {e}, S[i].queue, x) <=> WillHold(S[i].entities, S[i].queue, x))
      BY DataChanged
    <3> QED
      BY <2>2, <3>1 DEF HoldsIn
  <2>4. ASSUME ~RemoveWaits(spatial[i].queue, e) PROVE HoldsIn(spatial', i, e)
    <3>1. ~RemoveWaits(S[i].queue, e)
      BY <1>2, <1>4, <2>4
    <3> QED
      BY <2>2, <3>1 DEF HoldsIn, WillHold, RemoveWaits
  <2>5. There
    BY <2>4
  <2>6. \A x \in Entities, j \in Instances : Goal(x, j)
    BY <1>4, <1>8, <2>3
  <2> QED
    BY <2>5, <2>6
<1>9. ASSUME c # NoCell, Exists(c), spatial' = Execute(S, Current(c), Callback("add", {e}))
      PROVE  All /\ There
  <2>1. QueueSet(S, spatial', Current(c), Append(S[Current(c)].queue, Callback("add", {e})))
    BY <1>1, <1>5, <1>9, ExecuteChanges
  <2>2. WorkAdded(S, spatial', Current(c), {e})
    BY <1>1, <1>5, <1>9, <2>1, AddQueued
  <2>3. There
    BY <1>2, <1>5, <1>9, <2>2 DEF WorkAdded
  <2>4. \A x \in Entities, j \in Instances : Goal(x, j)
    BY <1>4, <1>5, <1>9, <2>2 DEF WorkAdded
  <2> QED
    BY <2>3, <2>4
<1> HIDE DEF Goal, There, All
<1>10. All
  BY <1>6, <1>7, <1>8, <1>9
<1>11. \A x \in spawned' \ spawned : x = e /\ e \in Alive /\ There
  BY <1>6, <1>8, <1>9
<1>12. /\ e \notin strayed' => c = NoCell \/ CellOfPos(entity[e].pos) = c
       /\ spawned \subseteq spawned'
  BY <1>6
<1> QED
  BY <1>2, <1>10, <1>11, <1>12 DEF m, c, e, Goal, There, All

LEMMA SpawnKeeps ==
  ASSUME TypeInv, PlacedInv, AloneInv, OwnerInv, WriteInv, NEW i \in Instances, HandleSpawn(i)
  PROVE  /\ WorldKept /\ SubsKept
         /\ PlacedInv' /\ AloneInv' /\ OwnerInv' /\ WriteInv'
<1> DEFINE e == FirstOf(i).entity
           c == SpawnCell(i, FirstOf(i))
<1>1. /\ WorldKept /\ SubsKept /\ notify' = notify /\ late' = late
      /\ \A x \in Entities : EntityKept(x) /\ entity'[x].state = entity[x].state
  BY SpawnChanges
<1>2. /\ e \in Entities
      /\ \A j \in Instances, x \in Entities :
           /\ HoldsIn(spatial, j, x) => HoldsIn(spatial', j, x)
           /\ RemoveWaits(spatial'[j].queue, x) => RemoveWaits(spatial[j].queue, x)
           /\ HoldsIn(spatial', j, x) => HoldsIn(spatial, j, x) \/ (x = e /\ c # NoCell /\ j[1] = c)
      /\ spawned \subseteq spawned'
      /\ \A x \in spawned' \ spawned :
           /\ x = e /\ e \in Alive
           /\ (\A j \in Instances : ~RemoveWaits(spatial[j].queue, e))
                => \E j \in Instances : HoldsIn(spatial', j, e)
      /\ e \notin strayed' => c = NoCell \/ CellOfPos(entity[e].pos) = c
  BY SpawnWork
<1> HIDE DEF e, c
<1>3. /\ (Replaced' <=> Replaced)
      /\ \A d : Exists(d)' <=> Exists(d)
      /\ \A p : CellOfPos(p)' = CellOfPos(p)
      /\ strayed \subseteq strayed' /\ grouped \subseteq grouped'
  BY <1>1, WorldNames DEF WorldKept
<1>4. ASSUME NEW x \in Entities
      PROVE  entity'[x].state = entity[x].state /\ entity'[x].pos = entity[x].pos
  BY <1>1 DEF EntityKept
<1>5. ASSUME NEW x \in Entities PROVE InWorld(x)'
  <2>1. InWorld(x)
    BY DEF PlacedInv
  <2>2. Entrusted(x)' <=> Entrusted(x)
    BY <1>1 DEF Entrusted
  <2>3. x \in spawned' => entity[x].state # "none"
    BY <1>2, <2>1 DEF InWorld, Alive
  <2>4. ASSUME entity[x].state = "alive", x \notin late,
               x \in spawned' \/ \E j \in Instances : RemoveWaits(spatial'[j].queue, x)
        PROVE  Entrusted(x) \/ \E j \in Instances : HoldsIn(spatial', j, x)
    <3>1. CASE x \in spawned \/ \E j \in Instances : RemoveWaits(spatial[j].queue, x)
      BY <1>2, <2>1, <2>4, <3>1 DEF InWorld
    <3>2. CASE x \notin spawned /\ \A j \in Instances : ~RemoveWaits(spatial[j].queue, x)
      BY <1>2, <2>4, <3>2
    <3> QED
      BY <3>1, <3>2
  <2> QED
    BY <1>1, <1>4, <2>1, <2>2, <2>3, <2>4 DEF InWorld
<1>6. ASSUME NEW x \in Entities \ grouped' PROVE Alone(x) /\ Alone(x)'
  <2>1. Alone(x)
    BY <1>3 DEF AloneInv
  <2>2. Going(x)' <=> Going(x)
    BY <1>1 DEF Going
  <2>3. ASSUME x \notin strayed', NEW j \in Instances, HoldsIn(spatial', j, x)
        PROVE  HoldsIn(spatial, j, x) \/ (CellOfPos(entity[x].pos) # NoCell /\ j[1] = CellOfPos(entity[x].pos))
    BY <1>2, <2>3
  <2>4. entity[x].state = "none" => CellOfPos(entity[x].pos) = NoCell
    BY <2>1 DEF Alone, CellOfPos
  <2> QED
    BY <1>1, <1>3, <1>4, <2>1, <2>2, <2>3, <2>4 DEF Alone
<1>7. Grouped(groups') \subseteq grouped'
  BY <1>1 DEF WorldKept, AloneInv
<1>8. AloneInv'
  BY <1>6, <1>7 DEF AloneInv, Grouped
<1>9. OwnerInv' /\ WriteInv'
  <2>1. ASSUME NEW x \in Entities \ grouped' PROVE Owned(x)' /\ Written(x)'
    <3>1. Owned(x) /\ Written(x)
      BY <1>3 DEF OwnerInv, WriteInv
    <3> QED
      BY <1>1, <1>6, <3>1, KeptOwned, KeptWritten
  <2> QED
    BY <2>1 DEF OwnerInv, WriteInv
<1> QED
  BY <1>1, <1>5, <1>8, <1>9 DEF PlacedInv

\* Unborn instances hold nothing.
LEMMA HoldersAreBorn ==
  ASSUME ChannelsOK(spatial), NEW i \in Instances, NEW e, HoldsIn(spatial, i, e)
  PROVE  Born(i)
<1> SUFFICES ASSUME ~Born(i) PROVE FALSE
  OBVIOUS
<1>1. spatial[i].entities = {} /\ spatial[i].queue = <<>>
  BY DEF ChannelsOK, ChannelOK
<1> QED
  BY <1>1, NoWork DEF HoldsIn, WillHold

\* Who is handed over with an entity: only itself when it has no group, and no entity
\* without a group with another.
LEMMA HandedOver ==
  ASSUME Grouped(groups) \subseteq grouped, NEW e \in Entities
  PROVE  /\ e \notin grouped => GetHandoverEntities(groups, e) = {e}
         /\ \A x \in Entities \ grouped : x \in GetHandoverEntities(groups, e) => x = e
<1>1. groups.handover[e] # 0 => e \in grouped
  BY DEF Grouped
<1>2. \A x \in Entities : x \in HandoverOf(groups, e) => x \in grouped
  BY DEF Grouped
<1> QED
  BY <1>1, <1>2 DEF GetHandoverEntities

\* An update that is merged, and starts a handover or not.
LEMMA MergeKeeps ==
  ASSUME TypeInv, PlacedInv, AloneInv, OwnerInv, WriteInv,
         NEW e \in Entities, HandleUpdate(e), MayUpdate(entity[e], NextOf(e).from)
  PROVE  /\ WorldKept /\ SubsKept
         /\ PlacedInv' /\ AloneInv' /\ OwnerInv' /\ WriteInv'
<1> DEFINE p == NextOf(e).pos
           n == HandoverOfMove(e, p)
           src == CellOfPos(entity[e].pos)
           dst == CellOfPos(p)
<1>1. /\ scenario' = scenario /\ current' = current /\ closing' = closing /\ creating' = creating
      /\ interest' = interest /\ spatial' = spatial /\ foreign' = foreign /\ late' = late
      /\ spawned' = spawned /\ granted' = granted /\ groups' = groups /\ grouped' = grouped
      /\ Idle(e) /\ entity[e].state # "none"
  BY DEF HandleUpdate, Entered, worldVars
<1>2. /\ \A x \in Entities \ {e} : entity'[x] = entity[x]
      /\ SameCore(entity[e], entity'[e]) /\ entity'[e].pos = p /\ p \in Points
  BY InboxHandled, PositionsArePoints DEF TypeInv, GridInv
<1>3. /\ notify'[e] = n /\ \A x \in Entities \ {e} : notify'[x] = notify[x]
      /\ strayed' = IF dst # src /\ (n = NoNotify \/ e \notin n.entities) THEN strayed \cup {e} ELSE strayed
  BY DEF HandleUpdate, TypeInv, NotifiesOK
<1>4. n = NoNotify \/
        /\ n.at = "owners" /\ n.data = n.entities \cap Alive
        /\ n.entities = GetHandoverEntities(groups, e)
        /\ n.src = Current(src) /\ n.dst = Current(dst)
        /\ Exists(src) /\ Exists(dst) /\ src # dst /\ e \in Alive
  BY <1>2, MoveTypes
<1>5. NoNotify.at = "idle" /\ notify[e].at = "idle"
  BY <1>1 DEF NoNotify, Idle
<1>6. strayed \subseteq strayed'
  BY <1>3
<1> HIDE DEF p, n, src, dst, NoNotify
<1>7. WorldKept /\ SubsKept
  BY <1>1, <1>6 DEF WorldKept, SubsKept
<1>8. /\ (Replaced' <=> Replaced)
      /\ \A c : Exists(c)' <=> Exists(c)
      /\ \A c : Current(c)' = Current(c)
      /\ \A q : CellOfPos(q)' = CellOfPos(q)
  BY <1>1, WorldNames
<1>9. \A x \in Entities : /\ entity'[x].state = entity[x].state /\ entity'[x].owner = entity[x].owner
                          /\ entity'[x].access = entity[x].access
                          /\ x # e => EntityKept(x)
  BY <1>1, <1>2 DEF SameCore, EntityKept
<1>10. ASSUME NEW x \in Entities PROVE InWorld(x)'
  <2>1. InWorld(x)
    BY DEF PlacedInv
  <2>2. Entrusted(x) => Entrusted(x)'
    BY <1>3, <1>5 DEF Entrusted
  <2>3. entity[x].state = "alive" /\ notify'[e].at \in {"owners", "remove"} /\ x \in notify'[e].entities
          => x \in notify'[e].data
    BY <1>3, <1>4, <1>5 DEF Alive
  <2> QED
    BY <1>1, <1>3, <1>9, <2>1, <2>2, <2>3 DEF InWorld
<1>11. PlacedInv'
  BY <1>10 DEF PlacedInv
<1>12. /\ e \notin grouped => GetHandoverEntities(groups, e) = {e}
       /\ \A x \in Entities \ grouped : x \in GetHandoverEntities(groups, e) => x = e
  BY HandedOver DEF AloneInv
<1>13. ASSUME NEW x \in Entities \ grouped, x # e PROVE Alone(x)'
  <2>1. Alone(x)
    BY DEF AloneInv
  <2>2. ASSUME NEW y \in Entities, notify'[y].at # "idle", x \in notify'[y].entities PROVE y = x
    <3>1. y # e
      BY <1>3, <1>4, <1>5, <1>12, <1>13, <2>2
    <3> QED
      BY <1>3, <2>1, <2>2, <3>1 DEF Alone
  <2>3. (Going(x)' <=> Going(x)) /\ notify'[x] = notify[x] /\ entity'[x] = entity[x]
    BY <1>2, <1>3, <1>13 DEF Going
  <2>4. x \notin strayed' => x \notin strayed
    BY <1>6
  <2> QED
    BY <1>1, <1>8, <2>1, <2>2, <2>3, <2>4 DEF Alone
<1>14. ASSUME e \notin grouped, e \notin strayed', ~Replaced
       PROVE  dst = src \/ (n # NoNotify /\ n.entities = {e})
  BY <1>3, <1>4, <1>12, <1>14
<1>15. ASSUME e \notin grouped PROVE Alone(e)'
  <2>1. Alone(e)
    BY <1>15 DEF AloneInv
  <2>2. ASSUME NEW y \in Entities, notify'[y].at # "idle", e \in notify'[y].entities PROVE y = e
    BY <1>3, <2>1, <2>2 DEF Alone
  <2>3. n # NoNotify => e \in n.entities /\ e \in n.data
    BY <1>4, <1>12, <1>15
  <2>4. ASSUME e \notin strayed', ~Replaced, entity[e].state = "alive"
        PROVE  /\ Exists(dst)
               /\ n # NoNotify => n.dst[1] = dst
               /\ \A i \in Instances : HoldsIn(spatial, i, e) =>
                    i[1] = dst \/ (Going(e)' /\ i = n.src)
    <3>1. /\ Exists(src)
          /\ \A i \in Instances : HoldsIn(spatial, i, e) => i[1] = src
      BY <1>5, <1>6, <2>1, <2>4 DEF Alone, Going, src
    <3>2. CASE dst = src
      BY <1>4, <3>1, <3>2
    <3>3. CASE n # NoNotify
      <4>1. Going(e)' /\ n.src = Current(src) /\ n.dst = Current(dst) /\ Exists(dst)
        BY <1>3, <1>4, <3>3 DEF Going
      <4>2. ASSUME NEW i \in Instances, HoldsIn(spatial, i, e) PROVE i = n.src
        <5>1. Born(i)
          BY <4>2, HoldersAreBorn DEF TypeInv
        <5>2. i = Current(i[1])
          BY <2>4, <5>1, OnlyInstance DEF TypeInv
        <5> QED
          BY <3>1, <4>1, <4>2, <5>2
      <4>3. n.dst[1] = dst
        BY <4>1 DEF Current
      <4> QED
        BY <4>1, <4>2, <4>3
    <3> QED
      BY <1>14, <1>15, <2>4, <3>2, <3>3
  <2>5. notify'[e].at # "idle" => n # NoNotify
    BY <1>3, <1>5
  <2>6. CellOfPos(entity'[e].pos) = dst /\ CellOfPos(entity[e].pos)' = dst
    BY <1>2, <1>8 DEF dst
  <2>7. entity'[e].state # "none" /\ entity'[e].state = entity[e].state
    BY <1>1, <1>9
  <2> QED
    BY <1>1, <1>3, <1>8, <2>2, <2>3, <2>4, <2>5, <2>6, <2>7 DEF Alone
<1>16. AloneInv'
  <2>1. (Grouped(groups) \subseteq grouped)'
    BY <1>1 DEF AloneInv, Grouped
  <2>2. \A x \in Entities \ grouped : Alone(x)'
    BY <1>13, <1>15
  <2> QED
    BY <1>1, <2>1, <2>2 DEF AloneInv
<1>17. ASSUME NEW x \in Entities \ grouped, x # e PROVE Owned(x)' /\ Written(x)'
  <2>1. Alone(x) /\ Owned(x) /\ Written(x) /\ EntityKept(x) /\ notify'[x] = notify[x]
    BY <1>3, <1>9, <1>17 DEF AloneInv, OwnerInv, WriteInv
  <2> QED
    BY <1>1, <1>7, <2>1, KeptOwned, KeptWritten
<1>18. ASSUME e \notin grouped PROVE Owned(e)' /\ Written(e)'
  <2>1. Owned(e) /\ Written(e)
    BY <1>18 DEF OwnerInv, WriteInv
  <2>2. ASSUME e \notin strayed', ~Replaced PROVE Place(e)' = Place(e)
    <3>1. Place(e) = Current(src)
      BY <1>5 DEF Place, src
    <3>2. Place(e)' = IF notify'[e].at = "owners" THEN notify'[e].src ELSE Current(dst)
      BY <1>2, <1>8 DEF Place, dst
    <3> QED
      BY <1>3, <1>4, <1>5, <1>14, <1>18, <2>2, <3>1, <3>2
  <2>3. Owned(e)'
    BY <1>1, <1>6, <1>8, <1>9, <2>1, <2>2 DEF Owned, SameLive, Live
  <2>4. ASSUME NEW c \in Conns PROVE Writer(e, c)' => Writer(e, c)
    BY <1>1, <1>9 DEF Writer, Live
  <2>5. Ready' <=> Ready
    BY <1>1 DEF Ready
  <2>6. entity[e].state = "alive" /\ Ready /\ ~Replaced =>
          /\ e \notin strayed \cup foreign => \A c \in Conns : Writer(e, c) => c = entity[e].owner
          /\ e \in granted /\ Live(entity[e].owner) => entity[e].access[entity[e].owner] = "write"
    BY <1>5, <2>1 DEF Written
  <2>7. Live(entity[e].owner)' <=> Live(entity[e].owner)
    BY <1>1, <1>9 DEF Live
  <2>8. Written(e)'
    BY <1>1, <1>6, <1>8, <1>9, <2>4, <2>5, <2>6, <2>7 DEF Written
  <2> QED
    BY <2>3, <2>8
<1>19. OwnerInv' /\ WriteInv'
  BY <1>1, <1>17, <1>18 DEF OwnerInv, WriteInv
<1> QED
  BY <1>7, <1>11, <1>16, <1>19

-----------------------------------------------------------------------------
(* Notify, step by step.                                                     *)

\* What is the same in every step of Notify: it goes on, or returns.
LEMMA NotifyFrame ==
  ASSUME TypeInv, NEW e \in Entities, NotifyStep(e)
  PROVE  /\ scenario' = scenario /\ current' = current /\ closing' = closing
         /\ creating' = creating /\ interest' = interest /\ groups' = groups
         /\ grouped' = grouped /\ strayed' = strayed /\ foreign' = foreign
         /\ late' = late /\ spawned' = spawned
         /\ \A x : x \in granted' => x \in granted \/ (notify[e].at = "owners" /\ x \in Crossing(e))
         /\ notify[e].at # "idle" /\ NotifyOK(notify[e]) /\ notify[e] # NoNotify
         /\ notify[e].src \in Instances /\ notify[e].dst \in Instances
         /\ Born(notify[e].src) /\ Born(notify[e].dst)
         /\ notify[e].data \subseteq notify[e].entities /\ notify[e].data \subseteq Entities
         /\ entity[e].state # "none"
         /\ \A x \in Entities \ {e} : notify'[x] = notify[x]
         /\ \A c : Exists(c)' <=> Exists(c)
         /\ \A c : Current(c)' = Current(c)
         /\ \A p : CellOfPos(p)' = CellOfPos(p)
         /\ (Ready' <=> Ready) /\ (Replaced' <=> Replaced)
<1>1. UNCHANGED NotifyVars /\ notify[e].at # "idle"
  BY DEF NotifyStep, NotifyOwners, NotifyRemove, NotifyAdd, NotifyReturns, NotifySubscribe, At
<1>2. NotifyOK(notify[e]) /\ notify[e] # NoNotify /\ entity[e].state # "none"
  BY <1>1 DEF TypeInv, NotifiesOK, NoNotify
<1>3. \A x \in Entities \ {e} : notify'[x] = notify[x]
  BY DEF NotifyStep, NotifyOwners, NotifyRemove, NotifyAdd, NotifyReturns, NotifySubscribe,
     TypeInv, NotifiesOK
<1>4. UNCHANGED <<scenario, current, closing, creating, interest, groups, grouped, strayed,
                  foreign, late, spawned>>
  BY <1>1 DEF NotifyVars, worldVars
<1>5. granted' = IF notify[e].at = "owners" THEN granted \cup Crossing(e) ELSE granted
  BY <1>1 DEF NotifyStep, NotifyOwners, NotifyRemove, NotifyAdd, NotifyReturns, NotifySubscribe, At,
     Crossing
<1> QED
  BY <1>1, <1>2, <1>3, <1>4, <1>5, WorldNames DEF NotifyOK

\* Only its own goroutine's Notify concerns an entity without a group.
LEMMA Untouched ==
  ASSUME NEW e \in Entities, notify[e].at # "idle", notify[e].data \subseteq notify[e].entities,
         NEW x \in Entities, x # e, Alone(x)
  PROVE  x \notin notify[e].entities /\ x \notin notify[e].data
         /\ x \notin Crossing(e) /\ x \notin Carried(e)
BY DEF Alone, Crossing, Carried

LEMMA NotifyOthersKept ==
  ASSUME TypeInv, AloneInv, OwnerInv, WriteInv, NEW e \in Entities, NotifyStep(e), WorldKept,
         \A x \in Entities \ (Crossing(e) \cup Carried(e)) : entity'[x] = entity[x],
         e \notin grouped => Owned(e)' /\ Written(e)'
  PROVE  OwnerInv' /\ WriteInv'
<1>1. /\ notify[e].at # "idle" /\ notify[e].data \subseteq notify[e].entities
      /\ \A x \in Entities \ {e} : notify'[x] = notify[x]
      /\ grouped' = grouped
      /\ \A x : x \in granted' => x \in granted \/ x \in Crossing(e)
  BY NotifyFrame
<1>2. ASSUME NEW x \in Entities \ grouped, x # e PROVE Owned(x)' /\ Written(x)'
  <2>1. Alone(x) /\ Owned(x) /\ Written(x)
    BY DEF AloneInv, OwnerInv, WriteInv
  <2>2. entity'[x] = entity[x] /\ (x \in granted' => x \in granted)
    BY <1>1, <1>2, <2>1, Untouched
  <2>3. EntityKept(x)
    BY <2>2 DEF EntityKept
  <2> QED
    BY <1>1, <1>2, <2>1, <2>3, KeptOwned, KeptWritten
<1> QED
  BY <1>1, <1>2 DEF OwnerInv, WriteInv

\* Steps of Notify that leave the channels alone keep the places of entities.
LEMMA NotifyStays ==
  ASSUME TypeInv, PlacedInv, AloneInv, NEW e \in Entities, NotifyStep(e), spatial' = spatial,
         \A x \in Entities : entity'[x].state = entity[x].state /\ entity'[x].pos = entity[x].pos,
         \/ notify'[e].at = "idle" /\ ~Going(e) /\ notify[e].at # "add"
         \/ /\ notify'[e].dst = notify[e].dst /\ notify'[e].src = notify[e].src
            /\ notify'[e].entities = notify[e].entities /\ notify'[e].data = notify[e].data
            /\ notify'[e].at = "remove" /\ notify[e].at = "owners"
         \/ /\ notify'[e].dst = notify[e].dst /\ notify'[e].src = notify[e].src
            /\ notify'[e].entities = notify[e].entities /\ notify'[e].data = notify[e].data
            /\ notify'[e].at = "subscribe" /\ notify[e].at = "subscribe"
  PROVE  PlacedInv' /\ AloneInv'
<1>1. /\ groups' = groups /\ grouped' = grouped /\ strayed' = strayed
      /\ late' = late /\ spawned' = spawned /\ notify[e].at # "idle"
      /\ \A x \in Entities \ {e} : notify'[x] = notify[x]
      /\ \A c : Exists(c)' <=> Exists(c)
      /\ \A p : CellOfPos(p)' = CellOfPos(p)
      /\ (Replaced' <=> Replaced)
  BY NotifyFrame
<1>2. /\ notify'[e].at \in {"owners", "remove"} <=> notify[e].at \in {"owners", "remove"}
      /\ notify[e].at \in {"owners", "remove", "add"} => notify'[e].at \in {"owners", "remove", "add"}
      /\ notify'[e].at # "idle" =>
           /\ notify'[e].dst = notify[e].dst /\ notify'[e].src = notify[e].src
           /\ notify'[e].entities = notify[e].entities /\ notify'[e].data = notify[e].data
      /\ notify[e].at \in {"owners", "remove", "add"} => notify'[e].at # "idle"
  BY DEF Going
<1>3. ASSUME NEW x \in Entities PROVE InWorld(x)'
  <2>1. InWorld(x)
    BY DEF PlacedInv
  <2>2. Entrusted(x) => Entrusted(x)'
    BY <1>1, <1>2 DEF Entrusted
  <2>3. \A y \in Entities : notify'[y].at \in {"owners", "remove"} =>
          notify[y].at \in {"owners", "remove"} /\ notify'[y].entities = notify[y].entities
          /\ notify'[y].data = notify[y].data
    BY <1>1, <1>2
  <2> QED
    BY <1>1, <2>1, <2>2, <2>3 DEF InWorld
<1>4. ASSUME NEW x \in Entities \ grouped' PROVE Alone(x)'
  <2>1. Alone(x)
    BY <1>1 DEF AloneInv
  <2>2. Going(x)' <=> Going(x)
    BY <1>1, <1>2 DEF Going
  <2>3. \A y \in Entities : notify'[y].at # "idle" =>
          /\ notify[y].at # "idle" /\ notify'[y].entities = notify[y].entities
          /\ notify'[y].data = notify[y].data /\ notify'[y].dst = notify[y].dst
    BY <1>1, <1>2
  <2>4. Going(x) => notify'[x].src = notify[x].src
    BY <1>1, <1>2 DEF Going
  <2> QED
    BY <1>1, <2>1, <2>2, <2>3, <2>4 DEF Alone
<1>5. (Grouped(groups) \subseteq grouped)'
  BY <1>1 DEF AloneInv, Grouped
<1> QED
  BY <1>3, <1>4, <1>5 DEF PlacedInv, AloneInv

\* The place of an entity without a group, in a world with one instance of a channel.
LEMMA PlaceIsDestination ==
  ASSUME TypeInv, NEW e \in Entities, NotifyStep(e), Alone(e), entity[e].state = "alive",
         e \notin strayed, ~Replaced
  PROVE  notify[e].dst = Current(CellOfPos(entity[e].pos))
<1>1. notify[e].at # "idle" /\ notify[e].dst \in Instances /\ Born(notify[e].dst)
  BY NotifyFrame
<1>2. notify[e].dst = Current(notify[e].dst[1])
  BY <1>1, OnlyInstance DEF TypeInv
<1> QED
  BY <1>1, <1>2 DEF Alone

\* The owners change: whoever loses the entity will be read among the subscribers of the
\* destination, or is unsubscribed at once.
LEMMA NotifyOwnersKeeps ==
  ASSUME TypeInv, PlacedInv, AloneInv, OwnerInv, WriteInv, NEW e \in Entities, NotifyOwners(e)
  PROVE  /\ WorldKept /\ SubsKept
         /\ PlacedInv' /\ AloneInv' /\ OwnerInv' /\ WriteInv'
<1> DEFINE n == notify[e]
           from == spatial[n.src].owner
           to   == spatial[n.dst].owner
           o == entity[e].owner
<1>1. NotifyStep(e) /\ spatial' = spatial /\ n.at = "owners"
  BY DEF NotifyStep, NotifyOwners, At
<1>2. /\ scenario' = scenario /\ current' = current /\ closing' = closing
      /\ creating' = creating /\ interest' = interest /\ groups' = groups
      /\ grouped' = grouped /\ strayed' = strayed /\ foreign' = foreign
      /\ n.src \in Instances /\ n.dst \in Instances /\ entity[e].state # "none"
      /\ e \in granted' => e \in granted \/ e \in Crossing(e)
      /\ \A p : CellOfPos(p)' = CellOfPos(p)
      /\ \A c : Current(c)' = Current(c)
      /\ (Ready' <=> Ready) /\ (Replaced' <=> Replaced)
  BY <1>1, NotifyFrame
<1>3. /\ NotifyMoved(e, "remove", n.conns)
      /\ \A x \in Entities \ Crossing(e) : entity'[x] = entity[x]
      /\ \A x \in Entities :
           /\ entity'[x].state = entity[x].state /\ entity'[x].pos = entity[x].pos
           /\ x \in Crossing(e) =>
                /\ entity'[x].owner = to
                /\ \A c \in Conns : entity'[x].access[c] =
                     IF Leaves(e, c) THEN "none" ELSE entity[x].access[c]
  BY NotifyOwnersChanges
<1>4. WorldKept /\ SubsKept
  BY <1>1, <1>2 DEF WorldKept, SubsKept
<1>5. /\ notify'[e].at = "remove" /\ notify'[e].dst = n.dst /\ notify'[e].src = n.src
      /\ notify'[e].entities = n.entities /\ notify'[e].data = n.data
  BY <1>3 DEF NotifyMoved
<1>6. PlacedInv' /\ AloneInv'
  BY <1>1, <1>3, <1>5, NotifyStays
<1>7. from \in Servers \cup {NoConn}
  BY <1>2 DEF TypeInv, ChannelsOK, ChannelOK
<1>8. ASSUME e \notin grouped PROVE Owned(e)' /\ Written(e)'
  <2>1. Alone(e) /\ Owned(e) /\ Written(e)
    BY <1>8 DEF AloneInv, OwnerInv, WriteInv
  <2>2. entity[e].state = "alive" => (e \in Crossing(e) <=> ~SameOwner(n.src, n.dst))
    BY <1>1, <2>1 DEF Alone, Crossing, Alive
  <2>3. SameOwner(n.src, n.dst) <=> Live(from) /\ from = to
    BY DEF SameOwner
  <2>4. SameOwner(n.src, n.dst) => entity'[e] = entity[e]
    BY <1>3 DEF Crossing
  <2>5. Place(e) = n.src /\ Place(e)' = Current(CellOfPos(entity[e].pos))
    BY <1>1, <1>2, <1>3, <1>5 DEF Place
  <2>6. ASSUME entity[e].state = "alive", e \notin strayed, ~Replaced PROVE Place(e)' = n.dst
    BY <1>1, <2>1, <2>5, <2>6, PlaceIsDestination
  <2>7. entity[e].state = "alive" /\ e \notin strayed \cup foreign /\ ~Replaced => SameLive(o, from)
    BY <2>1, <2>5 DEF Owned
  <2> HIDE DEF from, to, o
  <2>8. Owned(e)'
    <3> SUFFICES ASSUME entity[e].state = "alive", e \notin strayed \cup foreign, ~Replaced
                 PROVE  SameLive(entity'[e].owner, to)
      BY <1>1, <1>2, <1>3, <2>6 DEF Owned, SameLive, Live, to
    <3>1. CASE SameOwner(n.src, n.dst)
      BY <2>3, <2>4, <2>7, <3>1 DEF SameLive, o
    <3>2. CASE ~SameOwner(n.src, n.dst)
      BY <1>3, <2>2, <3>2 DEF SameLive
    <3> QED
      BY <3>1, <3>2
  <2>9. ASSUME entity[e].state = "alive", Ready, ~Replaced, e \notin strayed \cup foreign,
               NEW c \in Conns, Writer(e, c)'
        PROVE  c = entity'[e].owner \/ (c \in Servers /\ n.dst[1] \in interest[c])
    <3>1. Live(c) /\ entity'[e].access[c] = "write"
      BY <1>2, <2>9 DEF Writer, Live
    <3>2. entity[e].access[c] = "write"
      BY <1>3, <3>1
    <3>3. c = o
      BY <1>1, <2>1, <2>9, <3>1, <3>2 DEF Written, Writer, o
    <3>4. CASE SameOwner(n.src, n.dst)
      BY <2>4, <3>3, <3>4 DEF o
    <3>5. CASE ~SameOwner(n.src, n.dst)
      <4>1. c = from
        BY <2>7, <2>9, <3>1, <3>3 DEF SameLive
      <4>2. ~Leaves(e, c)
        BY <1>3, <2>2, <2>9, <3>1, <3>5
      <4>3. n.dst[1] \in interest[c]
        BY <3>1, <4>1, <4>2 DEF Leaves, from
      <4> QED
        BY <1>7, <3>1, <4>1, <4>3 DEF Live
    <3> QED
      BY <3>4, <3>5
  <2>10. ASSUME entity[e].state = "alive", Ready, ~Replaced, e \in granted', Live(entity[e].owner)'
         PROVE  \/ entity'[e].access[entity'[e].owner] = "write"
                \/ entity'[e].owner = to
    <3>1. CASE SameOwner(n.src, n.dst)
      <4>1. Live(o) /\ entity'[e] = entity[e]
        BY <1>2, <2>4, <2>10, <3>1 DEF Live, o
      <4>2. e \in granted
        BY <1>2, <2>10, <3>1 DEF Crossing
      <4>3. entity[e].access[o] = "write"
        BY <1>1, <2>1, <2>10, <4>1, <4>2 DEF Written, o
      <4> QED
        BY <4>1, <4>3 DEF o
    <3>2. CASE ~SameOwner(n.src, n.dst)
      BY <1>3, <2>2, <2>10, <3>2
    <3> QED
      BY <3>1, <3>2
  <2>11. Written(e)'
    BY <1>1, <1>2, <1>3, <1>5, <2>9, <2>10 DEF Written, to
  <2> QED
    BY <2>8, <2>11
<1>9. OwnerInv' /\ WriteInv'
  BY <1>1, <1>3, <1>4, <1>8, NotifyOthersKept
<1> QED
  BY <1>4, <1>6, <1>9

\* One more subscriber: the owner may write, the others read.
LEMMA NotifySubscribeKeeps ==
  ASSUME TypeInv, PlacedInv, AloneInv, OwnerInv, WriteInv, NEW e \in Entities,
         NEW c \in Conns, NotifySubscribe(e, c)
  PROVE  /\ WorldKept /\ SubsKept
         /\ PlacedInv' /\ AloneInv' /\ OwnerInv' /\ WriteInv'
<1> DEFINE n == notify[e]
<1>1. NotifyStep(e) /\ spatial' = spatial /\ n.at = "subscribe"
  BY DEF NotifyStep, NotifySubscribe, At
<1>2. /\ scenario' = scenario /\ current' = current /\ closing' = closing
      /\ creating' = creating /\ interest' = interest /\ groups' = groups
      /\ grouped' = grouped /\ strayed' = strayed /\ foreign' = foreign
      /\ \A p : CellOfPos(p)' = CellOfPos(p)
      /\ \A d : Current(d)' = Current(d)
      /\ (e \in granted' => e \in granted) /\ entity[e].state # "none"
      /\ (Ready' <=> Ready) /\ (Replaced' <=> Replaced)
  BY <1>1, NotifyFrame
<1>3. /\ NotifyMoved(e, "subscribe", n.conns \ {c})
      /\ \A x \in Entities \ Carried(e) : entity'[x] = entity[x]
      /\ \A x \in Entities :
           /\ SameBut(entity[x], entity'[x])
           /\ x \in Carried(e) => \A d \in Conns : entity'[x].access[d] =
                IF d = c /\ c \notin closing
                THEN IF c = entity[x].owner THEN "write" ELSE "read"
                ELSE entity[x].access[d]
  BY NotifySubscribeChanges
<1>4. WorldKept /\ SubsKept
  BY <1>1, <1>2 DEF WorldKept, SubsKept
<1>5. /\ notify'[e].at = "subscribe" /\ notify'[e].dst = n.dst /\ notify'[e].src = n.src
      /\ notify'[e].entities = n.entities /\ notify'[e].data = n.data
      /\ notify'[e].conns = n.conns \ {c}
  BY <1>3 DEF NotifyMoved
<1>6. PlacedInv' /\ AloneInv'
  BY <1>1, <1>3, <1>5, NotifyStays DEF SameBut
<1>7. ASSUME e \notin grouped PROVE Owned(e)' /\ Written(e)'
  <2>1. Alone(e) /\ Owned(e) /\ Written(e)
    BY <1>7 DEF AloneInv, OwnerInv, WriteInv
  <2>2. entity[e].state = "alive" => e \in Carried(e)
    BY <1>1, <2>1 DEF Alone, Carried, Alive
  <2>3. /\ entity'[e].state = entity[e].state /\ entity'[e].owner = entity[e].owner
        /\ entity'[e].pos = entity[e].pos
    BY <1>3 DEF SameBut
  <2>4. Place(e)' = Place(e)
    BY <1>1, <1>2, <1>5, <2>3 DEF Place
  <2>5. Owned(e)'
    BY <1>1, <1>2, <2>1, <2>3, <2>4 DEF Owned, SameLive, Live
  <2>6. entity[e].owner \in Conns \/ entity[e].owner = NoConn
    BY Kinds DEF TypeInv, EntitiesOK, EntityOK
  <2>7. ASSUME entity[e].state = "alive", Ready, ~Replaced, e \notin strayed \cup foreign,
               NEW d \in Conns, Writer(e, d)'
        PROVE  d = entity[e].owner \/ d \in n.conns \ {c}
    <3>1. Live(d) /\ entity'[e].access[d] = "write"
      BY <1>2, <2>7 DEF Writer, Live
    <3>2. CASE d = c
      BY <1>3, <2>2, <2>7, <3>1, <3>2 DEF Live
    <3>3. CASE d # c
      <4>1. Writer(e, d)
        BY <1>3, <2>2, <2>7, <3>1, <3>3 DEF Writer
      <4> QED
        BY <1>1, <2>1, <2>7, <3>3, <4>1 DEF Written
    <3> QED
      BY <3>2, <3>3
  <2>8. ASSUME entity[e].state = "alive", Ready, ~Replaced, e \in granted, Live(entity[e].owner)
        PROVE  \/ entity'[e].access[entity[e].owner] = "write"
               \/ entity[e].owner \in n.conns \ {c}
    <3>1. entity[e].owner \in Conns /\ entity[e].owner \notin closing
      BY <2>6, <2>8 DEF Live
    <3>2. entity[e].access[entity[e].owner] = "write" \/ entity[e].owner \in n.conns
      BY <1>1, <2>1, <2>8 DEF Written
    <3> QED
      BY <1>3, <2>2, <2>8, <3>1, <3>2
  <2>9. Live(entity[e].owner)' <=> Live(entity[e].owner)
    BY <1>2, <2>3 DEF Live
  <2>10. Written(e)'
    BY <1>2, <1>5, <2>3, <2>7, <2>8, <2>9 DEF Written
  <2> QED
    BY <2>5, <2>10
<1>8. OwnerInv' /\ WriteInv'
  BY <1>1, <1>3, <1>4, <1>7, NotifyOthersKept
<1> QED
  BY <1>4, <1>6, <1>8

LEMMA NotifyReturnsKeeps ==
  ASSUME TypeInv, PlacedInv, AloneInv, OwnerInv, WriteInv, NEW e \in Entities, NotifyReturns(e)
  PROVE  /\ WorldKept /\ SubsKept
         /\ PlacedInv' /\ AloneInv' /\ OwnerInv' /\ WriteInv'
<1> DEFINE n == notify[e]
<1>1. NotifyStep(e) /\ spatial' = spatial /\ entity' = entity /\ n.at = "subscribe" /\ n.conns = {}
  BY DEF NotifyStep, NotifyReturns, At
<1>2. /\ scenario' = scenario /\ current' = current /\ closing' = closing
      /\ creating' = creating /\ interest' = interest /\ groups' = groups
      /\ grouped' = grouped /\ strayed' = strayed /\ foreign' = foreign
      /\ \A p : CellOfPos(p)' = CellOfPos(p)
      /\ \A d : Current(d)' = Current(d)
      /\ (e \in granted' => e \in granted) /\ entity[e].state # "none"
      /\ (Ready' <=> Ready) /\ (Replaced' <=> Replaced)
  BY <1>1, NotifyFrame
<1>3. WorldKept /\ SubsKept
  BY <1>1, <1>2 DEF WorldKept, SubsKept
<1>4. notify'[e].at = "idle"
  BY DEF NotifyReturns, TypeInv, NotifiesOK, NoNotify
<1>5. PlacedInv' /\ AloneInv'
  BY <1>1, <1>4, NotifyStays DEF Going
<1>6. ASSUME e \notin grouped PROVE Owned(e)' /\ Written(e)'
  <2>1. Owned(e) /\ Written(e)
    BY <1>6 DEF OwnerInv, WriteInv
  <2>2. Place(e)' = Place(e)
    BY <1>1, <1>2, <1>4 DEF Place
  <2>3. Owned(e)'
    BY <1>1, <1>2, <2>1, <2>2 DEF Owned, SameLive, Live
  <2>4. Live(entity[e].owner)' <=> Live(entity[e].owner)
    BY <1>1, <1>2 DEF Live
  <2>5. \A c \in Conns : Writer(e, c)' <=> Writer(e, c)
    BY <1>1, <1>2 DEF Writer, Live
  <2>6. Written(e)'
    BY <1>1, <1>2, <1>4, <2>1, <2>4, <2>5 DEF Written
  <2> QED
    BY <2>3, <2>6
<1>7. OwnerInv' /\ WriteInv'
  BY <1>1, <1>3, <1>6, NotifyOthersKept
<1> QED
  BY <1>3, <1>5, <1>7

\* The removal is put in the queue of the source: its entities are still to be added.
LEMMA NotifyRemoveKeeps ==
  ASSUME TypeInv, PlacedInv, AloneInv, OwnerInv, WriteInv, NEW e \in Entities, NotifyRemove(e)
  PROVE  /\ WorldKept /\ SubsKept
         /\ PlacedInv' /\ AloneInv' /\ OwnerInv' /\ WriteInv'
<1> DEFINE n == notify[e]
<1>1. /\ NotifyStep(e) /\ entity' = entity /\ n.at = "remove"
      /\ notify' = [notify EXCEPT ![e].at = "add"]
      /\ spatial' = Execute(spatial, n.src, Callback("remove", n.entities))
  BY DEF NotifyStep, NotifyRemove, At
<1>2. /\ scenario' = scenario /\ current' = current /\ closing' = closing
      /\ creating' = creating /\ interest' = interest /\ groups' = groups
      /\ grouped' = grouped /\ strayed' = strayed /\ foreign' = foreign
      /\ late' = late /\ spawned' = spawned
      /\ n.src \in Instances /\ n.dst \in Instances /\ n.data \subseteq n.entities
      /\ \A x \in Entities \ {e} : notify'[x] = notify[x]
      /\ \A c : Exists(c)' <=> Exists(c)
      /\ \A p : CellOfPos(p)' = CellOfPos(p)
      /\ \A c : Current(c)' = Current(c)
      /\ (e \in granted' => e \in granted) /\ entity[e].state # "none"
      /\ (Ready' <=> Ready) /\ (Replaced' <=> Replaced)
  BY <1>1, NotifyFrame
<1>3. NotifyMoved(e, "add", n.conns)
  <2>1. n.at # "idle"
    BY <1>1
  <2> QED
    BY <1>1, <2>1, NotifyStepsAt
<1>4. /\ notify'[e].at = "add" /\ notify'[e].dst = n.dst /\ notify'[e].src = n.src
      /\ notify'[e].entities = n.entities /\ notify'[e].data = n.data
  BY <1>3 DEF NotifyMoved
<1>5. QueueSet(spatial, spatial', n.src, Append(spatial[n.src].queue, Callback("remove", n.entities)))
  BY <1>1, <1>2, ExecuteChanges DEF TypeInv, ChannelsOK
<1>6. WorkRemoved(spatial, spatial', n.src, n.entities)
  BY <1>2, <1>5, RemoveQueued DEF TypeInv
<1>7. SameOwners(spatial, spatial') /\ SameSubs(spatial, spatial')
  BY <1>5 DEF QueueSet
<1>8. WorldKept /\ SubsKept
  BY <1>1, <1>2, <1>7 DEF WorldKept, SubsKept, SameOwners, SameSubs
<1> HIDE DEF n
<1>9. ASSUME NEW x \in Entities PROVE InWorld(x)'
  <2>1. InWorld(x)
    BY DEF PlacedInv
  <2>2. Entrusted(x) => Entrusted(x)'
    BY <1>2, <1>4 DEF Entrusted, n
  <2>3. x \in n.data => Entrusted(x)'
    BY <1>4 DEF Entrusted
  <2>4. entity[x].state = "alive" /\ x \notin late /\ x \in n.entities => x \in n.data
    BY <1>1, <2>1 DEF InWorld, n
  <2>5. ASSUME entity[x].state = "alive", x \notin late, x \notin n.entities
        PROVE  /\ \A i \in Instances : HoldsIn(spatial', i, x) <=> HoldsIn(spatial, i, x)
               /\ \A i \in Instances : RemoveWaits(spatial'[i].queue, x) => RemoveWaits(spatial[i].queue, x)
    BY <1>6, <2>5 DEF WorkRemoved
  <2>6. \A y \in Entities : notify'[y].at \in {"owners", "remove"} =>
          notify[y].at \in {"owners", "remove"} /\ notify'[y].entities = notify[y].entities
          /\ notify'[y].data = notify[y].data
    BY <1>2, <1>4
  <2> QED
    BY <1>1, <1>2, <2>1, <2>2, <2>3, <2>4, <2>5, <2>6 DEF InWorld
<1>10. ASSUME NEW x \in Entities \ grouped' PROVE Alone(x)'
  <2>1. Alone(x)
    BY <1>2 DEF AloneInv
  <2>2. \A y \in Entities : /\ notify'[y].at # "idle" <=> notify[y].at # "idle"
                            /\ notify[y].at # "idle" =>
                                 /\ notify'[y].entities = notify[y].entities
                                 /\ notify'[y].data = notify[y].data
                                 /\ notify'[y].dst = notify[y].dst /\ notify'[y].src = notify[y].src
    BY <1>1, <1>2, <1>4 DEF n
  <2>3. \A i \in Instances : HoldsIn(spatial', i, x) => HoldsIn(spatial, i, x)
    BY <1>6 DEF WorkRemoved
  <2>4. x # e => (Going(x)' <=> Going(x))
    BY <1>2 DEF Going
  <2>5. x = e => \A i \in Instances : HoldsIn(spatial', i, x) => i # notify[e].src
    BY <1>1, <1>6, <2>1 DEF Alone, WorkRemoved, n
  <2>6. Going(x) => notify[x].at # "idle"
    BY DEF Going
  <2> QED
    BY <1>1, <1>2, <2>1, <2>2, <2>3, <2>4, <2>5, <2>6 DEF Alone
<1>11. PlacedInv' /\ AloneInv'
  BY <1>2, <1>9, <1>10 DEF PlacedInv, AloneInv, Grouped
<1>12. ASSUME e \notin grouped PROVE Owned(e)' /\ Written(e)'
  <2>1. Alone(e) /\ Owned(e) /\ Written(e)
    BY <1>12 DEF OwnerInv, WriteInv, AloneInv
  <2>2. Place(e)' = Place(e) /\ Place(e) = Current(CellOfPos(entity[e].pos))
    BY <1>1, <1>2, <1>4 DEF Place, n
  <2>3. Owned(e)'
    <3> SUFFICES ASSUME entity[e].state = "alive", e \notin strayed \cup foreign, ~Replaced
                 PROVE  SameLive(entity[e].owner, spatial'[Place(e)].owner)
      BY <1>1, <1>2, <2>2 DEF Owned, SameLive, Live
    <3>1. Place(e) = n.dst
      BY <1>1, <2>1, <2>2, PlaceIsDestination DEF n
    <3> QED
      BY <1>2, <1>7, <2>1, <3>1 DEF Owned, SameOwners
  <2>4. Live(entity[e].owner)' <=> Live(entity[e].owner)
    BY <1>1, <1>2 DEF Live
  <2>5. \A c \in Conns : Writer(e, c)' <=> Writer(e, c)
    BY <1>1, <1>2 DEF Writer, Live
  <2>6. spatial'[n.dst].owner = spatial[n.dst].owner
    BY <1>2, <1>7 DEF SameOwners
  <2>7. Written(e)'
    BY <1>1, <1>2, <1>4, <2>1, <2>4, <2>5, <2>6 DEF Written, n
  <2> QED
    BY <2>3, <2>7
<1>13. OwnerInv' /\ WriteInv'
  BY <1>1, <1>8, <1>12, NotifyOthersKept
<1> QED
  BY <1>8, <1>11, <1>13

\* The addition is put in the queue of the destination, and its subscribers are read.
LEMMA NotifyAddKeeps ==
  ASSUME TypeInv, PlacedInv, AloneInv, OwnerInv, SubsInv, WriteInv, NEW e \in Entities, NotifyAdd(e)
  PROVE  /\ WorldKept /\ SubsKept
         /\ PlacedInv' /\ AloneInv' /\ OwnerInv' /\ WriteInv'
<1> DEFINE n == notify[e]
           C == spatial[n.dst].subs
<1>1. /\ NotifyStep(e) /\ entity' = entity /\ n.at = "add"
      /\ notify' = [notify EXCEPT ![e].at = "subscribe", ![e].conns = C]
      /\ spatial' = Execute(spatial, n.dst, Callback("add", n.data))
  BY DEF NotifyStep, NotifyAdd, At
<1>2. /\ scenario' = scenario /\ current' = current /\ closing' = closing
      /\ creating' = creating /\ interest' = interest /\ groups' = groups
      /\ grouped' = grouped /\ strayed' = strayed /\ foreign' = foreign
      /\ late' = late /\ spawned' = spawned /\ entity[e].state # "none"
      /\ e \in granted' => e \in granted
      /\ n.src \in Instances /\ n.dst \in Instances /\ n.data \subseteq n.entities
      /\ Born(n.dst)
      /\ \A x \in Entities \ {e} : notify'[x] = notify[x]
      /\ \A c : Exists(c)' <=> Exists(c)
      /\ \A p : CellOfPos(p)' = CellOfPos(p)
      /\ \A c : Current(c)' = Current(c)
      /\ (Ready' <=> Ready) /\ (Replaced' <=> Replaced)
  BY <1>1, NotifyFrame
<1>3. NotifyMoved(e, "subscribe", C)
  <2>1. n.at # "idle" /\ C \subseteq Conns
    BY <1>1, <1>2 DEF TypeInv, ChannelsOK, ChannelOK
  <2>2. notify' = [notify EXCEPT ![e].at = "subscribe", ![e].conns = C]
    BY <1>1
  <2> HIDE DEF C
  <2> QED
    BY <2>1, <2>2, NotifyStepsAt
<1>4. /\ notify'[e].at = "subscribe" /\ notify'[e].dst = n.dst /\ notify'[e].src = n.src
      /\ notify'[e].entities = n.entities /\ notify'[e].data = n.data /\ notify'[e].conns = C
  BY <1>3 DEF NotifyMoved
<1>5. QueueSet(spatial, spatial', n.dst, Append(spatial[n.dst].queue, Callback("add", n.data)))
  BY <1>1, <1>2, ExecuteChanges DEF TypeInv, ChannelsOK
<1>6. WorkAdded(spatial, spatial', n.dst, n.data)
  BY <1>2, <1>5, AddQueued DEF TypeInv
<1>7. SameOwners(spatial, spatial') /\ SameSubs(spatial, spatial')
  BY <1>5 DEF QueueSet
<1>8. WorldKept /\ SubsKept
  BY <1>1, <1>2, <1>7 DEF WorldKept, SubsKept, SameOwners, SameSubs
<1> HIDE DEF n
<1>9. ASSUME NEW x \in Entities PROVE InWorld(x)'
  <2>1. InWorld(x)
    BY DEF PlacedInv
  <2>2. Entrusted(x) => Entrusted(x)' \/ x \in n.data
    BY <1>2 DEF Entrusted, n
  <2>3. x \in n.data => \E i \in Instances : HoldsIn(spatial', i, x)
    BY <1>2, <1>6 DEF WorkAdded
  <2>4. /\ \A i \in Instances : HoldsIn(spatial, i, x) => HoldsIn(spatial', i, x)
        /\ \A i \in Instances : RemoveWaits(spatial'[i].queue, x) => RemoveWaits(spatial[i].queue, x)
    BY <1>6 DEF WorkAdded
  <2>5. \A y \in Entities : notify'[y].at \in {"owners", "remove"} => notify'[y] = notify[y]
    BY <1>2, <1>4
  <2> QED
    BY <1>1, <1>2, <2>1, <2>2, <2>3, <2>4, <2>5 DEF InWorld
<1>10. ASSUME NEW x \in Entities \ grouped' PROVE Alone(x)'
  <2>1. Alone(x)
    BY <1>2 DEF AloneInv
  <2>2. \A y \in Entities : /\ notify'[y].at # "idle" <=> notify[y].at # "idle"
                            /\ notify[y].at # "idle" =>
                                 /\ notify'[y].entities = notify[y].entities
                                 /\ notify'[y].data = notify[y].data
                                 /\ notify'[y].dst = notify[y].dst /\ notify'[y].src = notify[y].src
    BY <1>1, <1>2, <1>4 DEF n
  <2>3. x # e => \A i \in Instances : HoldsIn(spatial', i, x) => HoldsIn(spatial, i, x)
    <3>1. x # e => x \notin n.data
      BY <1>1, <1>2, <2>1 DEF Alone, n
    <3> QED
      BY <1>6, <3>1 DEF WorkAdded
  <2>4. Going(x)' <=> Going(x)
    BY <1>1, <1>2, <1>4 DEF Going, n
  <2>5. \A i \in Instances : HoldsIn(spatial', i, x) => HoldsIn(spatial, i, x) \/ i = n.dst
    BY <1>6 DEF WorkAdded
  <2>6. x = e /\ entity[e].state = "alive" /\ e \notin strayed /\ ~Replaced => n.dst[1] = CellOfPos(entity[e].pos)
    BY <1>1, <2>1 DEF Alone, n
  <2>7. Going(x) => notify[x].at # "idle"
    BY DEF Going
  <2> QED
    BY <1>1, <1>2, <2>1, <2>2, <2>3, <2>4, <2>5, <2>6, <2>7 DEF Alone
<1>11. PlacedInv' /\ AloneInv'
  BY <1>2, <1>9, <1>10 DEF PlacedInv, AloneInv, Grouped
<1>12. ASSUME e \notin grouped PROVE Owned(e)' /\ Written(e)'
  <2>1. Alone(e) /\ Owned(e) /\ Written(e)
    BY <1>12 DEF OwnerInv, WriteInv, AloneInv
  <2>2. Place(e)' = Place(e) /\ Place(e) = Current(CellOfPos(entity[e].pos))
    BY <1>1, <1>2, <1>4 DEF Place, n
  <2>3. Owned(e)'
    <3> SUFFICES ASSUME entity[e].state = "alive", e \notin strayed \cup foreign, ~Replaced
                 PROVE  SameLive(entity[e].owner, spatial'[Place(e)].owner)
      BY <1>1, <1>2, <2>2 DEF Owned, SameLive, Live
    <3>1. Place(e) = n.dst
      BY <1>1, <2>1, <2>2, PlaceIsDestination DEF n
    <3> QED
      BY <1>2, <1>7, <2>1, <3>1 DEF Owned, SameOwners
  <2>4. Live(entity[e].owner)' <=> Live(entity[e].owner)
    BY <1>1, <1>2 DEF Live
  <2>5. \A c \in Conns : Writer(e, c)' <=> Writer(e, c)
    BY <1>1, <1>2 DEF Writer, Live
  <2>6. ASSUME Ready, ~Replaced
        PROVE  /\ \A s \in Servers : Live(s) /\ n.dst[1] \in interest[s] => s \in C
               /\ Live(spatial[n.dst].owner) => spatial[n.dst].owner \in C
    <3>1. n.dst = Current(n.dst[1]) /\ n.dst[1] \in Cells
      BY <1>2, <2>6, OnlyInstance DEF TypeInv
    <3>2. \A s \in Servers \ closing : \A c \in interest[s] : s \in spatial[Current(c)].subs
      BY <2>6 DEF SubsInv
    <3>3. \A c \in Cells : Live(spatial[Current(c)].owner)
            => spatial[Current(c)].owner \in spatial[Current(c)].subs
      BY <2>6 DEF SubsInv
    <3> QED
      BY <3>1, <3>2, <3>3 DEF Live
  <2> HIDE DEF C
  <2>7. Written(e)'
    BY <1>1, <1>2, <1>4, <2>1, <2>4, <2>5, <2>6 DEF Written, Writer, n
  <2> QED
    BY <2>3, <2>7
<1>13. OwnerInv' /\ WriteInv'
  BY <1>1, <1>8, <1>12, NotifyOthersKept
<1> QED
  BY <1>8, <1>11, <1>13

-----------------------------------------------------------------------------
(* The invariant of the world, and what follows from it.                     *)

\* A world that is there from the beginning is in order.
LEMMA InitWorld ==
  ASSUME Init
  PROVE  WorldInv
<1>1. TypeInv
  BY InitTypes
<1>2. /\ scenario \in Scenarios /\ closing = {} /\ creating = NoConn
      /\ groups = NoGroups /\ grouped = {} /\ strayed = {}
      /\ current = [c \in 0..(MaxCells - 1) |-> IF Ready /\ c \in Cells THEN 1 ELSE 0]
      /\ interest = [c \in Conns |-> SubscriberCells(c)]
      /\ notify = [e \in Entities |-> NoNotify]
      /\ spawned = {e \in Entities : scenario.placed[e] # NoPos}
      /\ granted = {e \in spawned : scenario.access[e] = "write"}
  BY DEF Init
<1>3. FirstChannels /\ FirstEntities
  BY InitChannels, InitEntities
<1>4. Cells \subseteq 0..(MaxCells - 1) /\ NoCell \notin Cells
  BY <1>2, CellsInTable
<1>5. \A c \in Cells : Ready => current[c] = 1
  BY <1>2, <1>4
<1>6. \A e \in Entities : notify[e].at = "idle"
  BY <1>2 DEF NoNotify
<1>7. ASSUME NEW i \in Instances, NEW e \in Entities
      PROVE  /\ HoldsIn(spatial, i, e) <=> Ready /\ i[2] = 1 /\ i[1] \in Cells /\ PlacedIn(e) = i[1]
             /\ ~RemoveWaits(spatial[i].queue, e)
  <2>1. spatial[i].queue = <<>>
    BY <1>3 DEF FirstChannels
  <2>2. HoldsIn(spatial, i, e) <=> e \in spatial[i].entities
    BY <2>1, NoWork, NothingWaits DEF HoldsIn
  <2>3. ~RemoveWaits(spatial[i].queue, e)
    BY <2>1, NoWork DEF RemoveWaits, RemovedAfter
  <2> QED
    BY <1>3, <2>2, <2>3 DEF FirstChannels
<1>8. ASSUME NEW e \in Entities, scenario.placed[e] # NoPos
      PROVE  /\ Ready /\ PlacedIn(e) \in Cells /\ entity[e].state = "alive"
             /\ entity[e].owner = OwnerOfCell(PlacedIn(e)) /\ CellOfPos(entity[e].pos) = PlacedIn(e)
             /\ \A c \in Conns :
                  entity[e].access[c] = IF c = entity[e].owner THEN scenario.access[e] ELSE "none"
             /\ Current(PlacedIn(e)) \in Instances /\ Exists(PlacedIn(e))
             /\ Current(PlacedIn(e))[1] = PlacedIn(e) /\ Current(PlacedIn(e))[2] = 1
  <2>1. /\ Ready /\ PlacedIn(e) \in Cells /\ entity[e].state = "alive"
        /\ entity[e].owner = OwnerOfCell(PlacedIn(e)) /\ entity[e].pos = scenario.placed[e]
        /\ \A c \in Conns :
             entity[e].access[c] = IF c = entity[e].owner THEN scenario.access[e] ELSE "none"
    BY <1>3, <1>8 DEF FirstEntities
  <2>4. \A c \in Cells : c # NoCell
    BY <1>4
  <2>5. PlacedIn(e) # NoCell
    BY <2>1, <2>4
  <2>6. current[PlacedIn(e)] = 1
    BY <1>5, <2>1
  <2>2. Exists(PlacedIn(e)) /\ current[PlacedIn(e)] = 1
    BY <2>5, <2>6 DEF Exists
  <2>3. Current(PlacedIn(e)) \in Instances
    BY <1>1, <2>1, <2>2, CurrentBorn DEF TypeInv
  <2> QED
    BY <2>1, <2>2, <2>3 DEF PlacedIn, Current
<1>9. ASSUME NEW e \in Entities, scenario.placed[e] = NoPos
      PROVE  entity[e].state = "none" /\ entity[e].pos = NoPos /\ PlacedIn(e) = NoCell
  BY <1>3, <1>9 DEF FirstEntities, NoEntity, PlacedIn, CellOfPos
<1>10. PlacedInv
  <2>1. ASSUME NEW e \in Entities PROVE InWorld(e)
    <3>1. scenario.placed[e] # NoPos => \E i \in Instances : HoldsIn(spatial, i, e)
      BY <1>7, <1>8
    <3>2. e \in spawned <=> scenario.placed[e] # NoPos
      BY <1>2
    <3>3. e \in spawned => entity[e].state # "none"
      BY <1>8, <3>2
    <3> QED
      BY <1>6, <1>7, <3>1, <3>2, <3>3 DEF InWorld
  <2> QED
    BY <2>1 DEF PlacedInv
<1>11. AloneInv
  <2>1. Grouped(groups) = {}
    BY <1>2 DEF Grouped, HandoverOf, Members, NoGroups
  <2>2. ASSUME NEW e \in Entities PROVE Alone(e)
    <3>1. CASE scenario.placed[e] = NoPos
      BY <1>4, <1>6, <1>7, <1>9, <3>1 DEF Alone
    <3>2. CASE scenario.placed[e] # NoPos
      BY <1>6, <1>7, <1>8, <3>2 DEF Alone
    <3> QED
      BY <3>1, <3>2
  <2> QED
    BY <2>1, <2>2 DEF AloneInv
<1>12. OwnerInv
  <2>1. ASSUME NEW e \in Entities PROVE Owned(e)
    <3>1. CASE scenario.placed[e] = NoPos
      BY <1>9, <3>1 DEF Owned
    <3>2. CASE scenario.placed[e] # NoPos
      <4> DEFINE i == Current(PlacedIn(e))
      <4>2. i \in Instances /\ i[1] = PlacedIn(e) /\ i[2] = 1 /\ Ready /\ PlacedIn(e) \in Cells
        BY <1>8, <3>2
      <4>3. ASSUME NEW j \in Instances, Ready, j[2] = 1, j[1] \in Cells
            PROVE  spatial[j].owner = OwnerOfCell(j[1])
        BY <1>3, <4>3 DEF FirstChannels
      <4>4. spatial[i].owner = OwnerOfCell(i[1])
        <5> HIDE DEF i
        <5> QED
          BY <4>2, <4>3
      <4>1. spatial[Current(PlacedIn(e))].owner = OwnerOfCell(PlacedIn(e))
        BY <4>2, <4>4
      <4> QED
        BY <1>6, <1>8, <3>2, <4>1 DEF Owned, Place, SameLive
    <3> QED
      BY <3>1, <3>2
  <2> QED
    BY <2>1 DEF OwnerInv
<1>13. SubsInv
  <2> SUFFICES ASSUME Ready
               PROVE  /\ \A s \in Servers : \A c \in interest[s] : s \in spatial[Current(c)].subs
                      /\ \A c \in Cells : spatial[Current(c)].owner \in spatial[Current(c)].subs
    BY <1>2, <1>5 DEF SubsInv
  <2>1. ASSUME NEW c \in Cells
        PROVE  /\ spatial[Current(c)].owner = OwnerOfCell(c)
               /\ spatial[Current(c)].subs = {d \in Conns : c \in SubscriberCells(d)}
    <3>1. Current(c) \in Instances /\ Current(c)[1] = c /\ Current(c)[2] = 1
      BY <1>1, <1>4, <1>5, CurrentBorn DEF Current, Exists, TypeInv
    <3> QED
      BY <1>3, <3>1 DEF FirstChannels
  <2>2. ASSUME NEW s \in Servers, NEW c \in interest[s] PROVE s \in spatial[Current(c)].subs
    <3>1. s \in Conns /\ interest[s] = SubscriberCells(s)
      BY <1>2, Kinds
    <3>2. c \in Cells
      BY <1>1, <3>1 DEF TypeInv, ServersOK
    <3> QED
      BY <2>1, <3>1, <3>2
  <2>3. ASSUME NEW c \in Cells PROVE OwnerOfCell(c) \in Conns /\ c \in SubscriberCells(OwnerOfCell(c))
    <3> DEFINE o == OwnerOfCell(c)
               r == RegionServer(grid, c)
    <3>1. o \in Servers /\ r \in ServerIndexes(grid) /\ o = scenario.owners[r + 1]
          /\ c \in ChannelsOfServer(grid, r)
      BY <1>2, FirstOwner
    <3>2. o \notin Clients /\ o \in Conns
      BY <3>1, Kinds, HandoverAssumption
    <3> HIDE DEF o, r
    <3>3. c \in SubscriberCells(o)
      BY <3>1, <3>2 DEF SubscriberCells
    <3> QED
      BY <3>2, <3>3 DEF o
  <2> QED
    BY <2>1, <2>2, <2>3
<1>14. WriteInv
  <2>1. ASSUME NEW e \in Entities PROVE Written(e)
    <3>1. CASE scenario.placed[e] = NoPos
      BY <1>2, <1>9, <3>1 DEF Written
    <3>2. CASE scenario.placed[e] # NoPos
      <4>1. Live(entity[e].owner) => entity[e].owner \in Conns
        BY <1>1, Kinds DEF Live, TypeInv, EntitiesOK, EntityOK
      <4> QED
        BY <1>2, <1>8, <3>2, <4>1 DEF Written, Writer
    <3> QED
      BY <3>1, <3>2
  <2> QED
    BY <2>1 DEF WriteInv
<1> QED
  BY <1>1, <1>10, <1>11, <1>12, <1>13, <1>14 DEF WorldInv

\* Steady steps keep the invariant, as do those that keep each part.
LEMMA SteadyWorld ==
  ASSUME WorldInv, TypeInv', Steady, SubsKept
  PROVE  WorldInv'
BY SteadyPlaces, SteadyOwners, SteadyWriters, SubsStay DEF WorldInv, Steady

LEMMA KeptWorld ==
  ASSUME WorldInv, TypeInv', WorldKept, SubsKept, PlacedInv', AloneInv', OwnerInv', WriteInv'
  PROVE  WorldInv'
BY SubsStay DEF WorldInv

\* GLOBAL's goroutine.
LEMMA GlobalWorld ==
  ASSUME WorldInv, TypeInv', GlobalStep
  PROVE  WorldInv'
<1>1. TypeInv /\ PlacedInv /\ AloneInv /\ OwnerInv /\ SubsInv /\ WriteInv
  BY DEF WorldInv
<1>2. CASE SubscribeCreated
  <2>1. Steady
    BY <1>1, <1>2, SubscribeCreatedSteady
  <2>2. SubsInv'
    <3>1. creating # NoConn
      BY <1>2 DEF SubscribeCreated
    <3>2. (Ready' <=> Ready) /\ (Replaced' <=> Replaced)
      BY <2>1, WorldNames DEF Steady, WorldKept
    <3> QED
      BY <1>1, <3>1, <3>2 DEF SubsInv
  <2> QED
    BY <1>1, <2>1, <2>2, SteadyPlaces, SteadyOwners, SteadyWriters DEF WorldInv
<1>3. CASE ControllerTick
  BY <1>3, ControllerTickSteady, SteadyWorld
<1>4. CASE HandleCreateSpatial
  <2>1. CASE ~Creates
    BY <1>1, <1>4, <2>1, RefusedSteady, SteadyWorld
  <2>2. CASE Creates
    <3>1. Creation
      BY <1>1, <1>4, <2>2, CreationChanges
    <3> QED
      BY <1>1, <1>4, <3>1, CreationPlaces DEF WorldInv
  <2> QED
    BY <2>1, <2>2
<1>5. CASE HandleCreateWorldEntity
  BY <1>1, <1>5, CreateWorldEntityKeeps, KeptWorld
<1>6. CASE HandleRemoveEntity
  BY <1>1, <1>6, RemoveEntitySteady, SteadyWorld
<1> QED
  BY <1>2, <1>3, <1>4, <1>5, <1>6 DEF GlobalStep

\* The goroutines of the spatial channels.
LEMMA SpatialWorld ==
  ASSUME WorldInv, TypeInv', NEW i \in Instances, SpatialStep(i)
  PROVE  WorldInv'
<1>1. TypeInv /\ PlacedInv /\ AloneInv /\ OwnerInv /\ SubsInv /\ WriteInv
  BY DEF WorldInv
<1>2. CASE HandleCreateEntity(i)
  BY <1>1, <1>2, CreateEntityKeeps, KeptWorld
<1>3. CASE HandleSpawn(i)
  BY <1>1, <1>3, SpawnKeeps, KeptWorld
<1>4. CASE ~HandleCreateEntity(i) /\ ~HandleSpawn(i)
  <2>1. Steady /\ SubsKept
    BY <1>1, <1>4, DataSteady, DestroySteady, InterestSteady, SubSteady, SpatialTickSteady
       DEF SpatialStep
  <2> QED
    BY <2>1, SteadyWorld
<1> QED
  BY <1>2, <1>3, <1>4

\* The goroutines of the entity channels.
LEMMA EntityWorld ==
  ASSUME WorldInv, TypeInv', NEW e \in Entities, EntityStep(e)
  PROVE  WorldInv'
<1>1. TypeInv /\ PlacedInv /\ AloneInv /\ OwnerInv /\ SubsInv /\ WriteInv
  BY DEF WorldInv
<1>2. CASE NotifyOwners(e)
  BY <1>1, <1>2, NotifyOwnersKeeps, KeptWorld
<1>3. CASE NotifyRemove(e)
  BY <1>1, <1>3, NotifyRemoveKeeps, KeptWorld
<1>4. CASE NotifyAdd(e)
  BY <1>1, <1>4, NotifyAddKeeps, KeptWorld
<1>5. CASE NotifyReturns(e)
  BY <1>1, <1>5, NotifyReturnsKeeps, KeptWorld
<1>6. CASE \E c \in Conns : NotifySubscribe(e, c)
  BY <1>1, <1>6, NotifySubscribeKeeps, KeptWorld
<1>7. CASE HandleUpdate(e) /\ MayUpdate(entity[e], NextOf(e).from)
  BY <1>1, <1>7, MergeKeeps, KeptWorld
<1>8. CASE \/ SetObjRef(e) \/ HandleAddGroup(e) \/ HandleRemoveGroup(e)
           \/ HandleUpdate(e) /\ ~MayUpdate(entity[e], NextOf(e).from)
  BY <1>1, <1>8, InboxSteady, SteadyWorld
<1>9. CASE EntityTick(e)
  BY <1>1, <1>9, EntityTickSteady, SteadyWorld
<1> QED
  BY <1>2, <1>3, <1>4, <1>5, <1>6, <1>7, <1>8, <1>9 DEF EntityStep, NotifyStep

LEMMA WorldStep ==
  ASSUME WorldInv, [Next]_vars
  PROVE  WorldInv'
<1>1. TypeInv /\ TypeInv'
  BY TypeStep DEF WorldInv
<1>2. CASE UNCHANGED vars
  <2>1. WorldKept /\ SubsKept /\ DataKept /\ \A x \in Entities : EntityKept(x)
    BY <1>2 DEF vars, worldVars, entityVars, historyVars, WorldKept, SubsKept, DataKept, WorkKept,
       EntityKept, HoldsIn
  <2> QED
    BY <1>1, <2>1, SteadyWorld DEF Steady
<1>3. CASE \E s \in Servers \cup {Master} : Send(s)
  BY <1>1, <1>3, SendSteady, SteadyWorld DEF Senders
<1>4. CASE \E c \in Conns : Close(c)
  BY <1>1, <1>4, CloseSteady, SteadyWorld
<1>5. CASE GlobalStep
  BY <1>1, <1>5, GlobalWorld
<1>6. CASE \E i \in Instances : SpatialStep(i)
  BY <1>1, <1>6, SpatialWorld
<1>7. CASE \E e \in Entities : EntityStep(e)
  BY <1>1, <1>7, EntityWorld
<1> QED
  BY <1>2, <1>3, <1>4, <1>5, <1>6, <1>7 DEF Next

LEMMA WorldInvariant == Spec => []WorldInv
<1>1. Init => WorldInv
  BY InitWorld
<1>2. WorldInv /\ [Next]_vars => WorldInv'
  BY WorldStep
<1> QED
  BY <1>1, <1>2, PTL DEF Spec

\* Without callbacks that wait for e, channels hold it when their data does.
LEMMA SettledData ==
  ASSUME NEW e, Settled(e), NEW i \in Instances
  PROVE  HoldsIn(spatial, i, e) <=> e \in spatial[i].entities
BY NothingWaits DEF Settled, HoldsIn

\* However updates, handovers and callbacks interleave, an entity that entered the
\* world is never lost, and one that never was in a group is in no channel's data but
\* that of its location, whatever servers send and whichever of them close: a handover
\* removes an entity from its source only when its goroutine goes on to add it to
\* the destination, and what waits in the queues is done in the order of the steps.
THEOREM EntityPlaced == Spec => []EntityIsPlaced
<1>1. ASSUME WorldInv PROVE EntityIsPlaced
  <2> SUFFICES ASSUME NEW e \in Alive, Settled(e), ~Replaced
               PROVE  /\ e \in spawned \ late => DataCells(e) # {}
                      /\ e \notin grouped \cup strayed => DataCells(e) \subseteq {CellOfPos(entity[e].pos)}
    BY DEF EntityIsPlaced
  <2>1. e \in Entities /\ entity[e].state = "alive"
    BY DEF Alive
  <2>2. TypeInv /\ InWorld(e) /\ (e \notin grouped => Alone(e))
    BY <1>1, <2>1 DEF WorldInv, PlacedInv, AloneInv
  <2>3. ASSUME NEW c \in DataCells(e)
        PROVE  /\ c \in Cells /\ Current(c) \in Instances /\ Current(c)[1] = c
               /\ HoldsIn(spatial, Current(c), e)
    <3>1. c \in Cells /\ Exists(c) /\ e \in spatial[Current(c)].entities
      BY DEF DataCells
    <3>2. Current(c) \in Instances /\ Current(c)[1] = c
      BY <2>2, <3>1, CurrentBorn DEF TypeInv
    <3> QED
      BY <3>1, <3>2, SettledData
  <2>4. ASSUME e \in spawned \ late PROVE DataCells(e) # {}
    <3>1. ~Entrusted(e)
      <4>1. \A x \in Entities : NotifyOK(notify[x])
        BY <2>2 DEF TypeInv, NotifiesOK
      <4>2. ASSUME NEW x \in Entities, notify[x].at # "idle"
            PROVE  notify[x].data \subseteq notify[x].entities
        <5>1. NoNotify.at = "idle"
          BY DEF NoNotify
        <5>2. notify[x] # NoNotify
          BY <4>2, <5>1
        <5> QED
          BY <4>1, <5>2 DEF NotifyOK
      <4> QED
        BY <4>2 DEF Entrusted, Settled, Idle
    <3>2. PICK i \in Instances : HoldsIn(spatial, i, e)
      BY <2>1, <2>2, <2>4, <3>1 DEF InWorld
    <3>3. e \in spatial[i].entities
      BY <3>2, SettledData
    <3>4. Born(i)
      BY <2>2, <3>2, HoldersAreBorn DEF TypeInv
    <3>5. Exists(i[1]) /\ i = Current(i[1]) /\ i[1] \in Cells
      BY <2>2, <3>4, OnlyInstance DEF TypeInv
    <3>6. i[1] \in DataCells(e)
      BY <3>3, <3>5 DEF DataCells
    <3> QED
      BY <3>6
  <2>5. ASSUME e \notin grouped \cup strayed, NEW c \in DataCells(e)
        PROVE  c = CellOfPos(entity[e].pos)
    <3>1. notify[e].at = "idle"
      BY <2>1, <2>2, <2>5 DEF Settled, Idle, Alone
    <3> QED
      BY <2>1, <2>2, <2>3, <2>5, <3>1 DEF Alone, Going
  <2> QED
    BY <2>4, <2>5
<1> QED
  BY <1>1, WorldInvariant, PTL

\* As soon as its Notify changed the owners, an entity that never was in a group
\* belongs to the live owner of the channel where it is, however the handover
\* interleaves with servers that close and channels that lose their owners.
THEOREM OwnersFollow == Spec => []OwnerFollowsChannel
<1>1. ASSUME WorldInv PROVE OwnerFollowsChannel
  <2> SUFFICES ASSUME NEW e \in Alive, Idle(e), ~Replaced, e \notin grouped \cup strayed \cup foreign,
                      Live(spatial[Current(CellOfPos(entity[e].pos))].owner)
               PROVE  entity[e].owner = spatial[Current(CellOfPos(entity[e].pos))].owner
    BY DEF OwnerFollowsChannel
  <2>1. e \in Entities /\ entity[e].state = "alive" /\ notify[e].at = "idle"
    BY DEF Alive, Idle
  <2>2. Owned(e)
    BY <1>1, <2>1 DEF WorldInv, OwnerInv
  <2> QED
    BY <2>1, <2>2 DEF Owned, Place, SameLive
<1> QED
  BY <1>1, WorldInvariant, PTL

\* Once its Notify returned, the owner of an entity that never was in a group is the
\* only live subscriber that may write: the server that lost it was unsubscribed or, as
\* it watches the destination, subscribed again for reading. The owner may write when
\* it asked for that at the creation of the entity, and after a handover whatever was
\* asked: whoever gets the entity then is among the subscribers of the destination.
THEOREM OwnerWrites == Spec => []OnlyOwnerWrites
<1>1. ASSUME WorldInv PROVE OnlyOwnerWrites
  <2> SUFFICES ASSUME NEW e \in Alive, Idle(e), e \notin grouped, Ready, ~Replaced
               PROVE  /\ e \notin strayed \cup foreign => \A c \in Conns \ closing :
                           entity[e].access[c] = "write" => c = entity[e].owner
                      /\ e \in granted /\ Live(entity[e].owner) =>
                           entity[e].access[entity[e].owner] = "write"
    BY DEF OnlyOwnerWrites
  <2>1. e \in Entities /\ entity[e].state = "alive" /\ notify[e].at = "idle"
    BY DEF Alive, Idle
  <2>2. Written(e)
    BY <1>1, <2>1 DEF WorldInv, WriteInv
  <2>3. \A c \in Conns \ closing : Live(c)
    BY Kinds DEF Live
  <2> QED
    BY <2>1, <2>2, <2>3 DEF Written, Writer
<1> QED
  BY <1>1, WorldInvariant, PTL

-----------------------------------------------------------------------------
(* The borders of servers.                                                   *)

\* The border is not wider than what a server has along either axis.
Narrow(g) == g.border <= ServerGridCols(g) /\ g.border <= ServerGridRows(g)

\* The column and the row of a server among the servers, and its first grid.
LEMMA ServerPlace ==
  ASSUME NEW g \in Grids, NEW i \in ServerIndexes(g)
  PROVE  /\ i % g.serverCols \in 0..(g.serverCols - 1)
         /\ i \div g.serverCols \in 0..(g.serverRows - 1)
         /\ ServerGridCols(g) \in Nat \ {0} /\ ServerGridRows(g) \in Nat \ {0}
         /\ g.gridCols <= ServerGridCols(g) * g.serverCols
         /\ g.gridRows <= ServerGridRows(g) * g.serverRows
         /\ FirstCol(g, i) \in Nat /\ FirstRow(g, i) \in Nat
<1> DEFINE m == g.serverCols
           n == g.serverRows
<1>1. m \in Nat \ {0} /\ n \in Nat \ {0}
  BY DEF Grids
<1>2. i \in 0..(m * n - 1)
  BY DEF ServerIndexes, ServerCount
<1>3. /\ ServerGridCols(g) \in Nat \ {0} /\ g.gridCols <= ServerGridCols(g) * m
      /\ ServerGridRows(g) \in Nat \ {0} /\ g.gridRows <= ServerGridRows(g) * n
  BY ServersSuffice DEF Grids, ServerGridCols, ServerGridRows
<1> HIDE DEF m, n
<1>4. i \in Nat /\ i < m * n
  BY <1>1, <1>2
<1>5. i \div m \in Nat /\ i % m \in 0..(m - 1) /\ i = m * (i \div m) + (i % m)
  BY <1>1, <1>4, Division
<1>6. i \div m < n
  <2>1. (i \div m) * m < n * m
    BY <1>1, <1>4, <1>5
  <2> QED
    BY <1>1, <1>5, <2>1, Multiples
<1>7. (i % m) * ServerGridCols(g) \in Nat /\ (i \div m) * ServerGridRows(g) \in Nat
  BY <1>1, <1>3, <1>5
<1> QED
  BY <1>1, <1>3, <1>5, <1>6, <1>7 DEF FirstCol, FirstRow, m, n

\* The server at a column and a row of servers.
LEMMA ServerAt ==
  ASSUME NEW g \in Grids, NEW a \in 0..(g.serverCols - 1), NEW b \in 0..(g.serverRows - 1)
  PROVE  \E j \in ServerIndexes(g) :
           FirstCol(g, j) = a * ServerGridCols(g) /\ FirstRow(g, j) = b * ServerGridRows(g)
<1> DEFINE m == g.serverCols
           n == g.serverRows
           j == m * b + a
<1>1. m \in Nat \ {0} /\ n \in Nat \ {0} /\ a \in 0..(m - 1) /\ b \in 0..(n - 1)
  BY DEF Grids
<1>2. j \div m = b /\ j % m = a
  <2> HIDE DEF m, n
  <2>1. j = m * b + a
    OBVIOUS
  <2> HIDE DEF j
  <2> QED
    BY <1>1, <2>1, Quotient
<1>3. j \in 0..(m * n - 1)
  <2> HIDE DEF m, n
  <2>1. b * m <= (n - 1) * m
    BY <1>1, Multiples
  <2>2. (n - 1) * m = m * n - m /\ b * m \in Nat /\ m * n \in Nat /\ j = b * m + a
    BY <1>1
  <2> QED
    BY <1>1, <2>1, <2>2
<1>4. j \in ServerIndexes(g)
  BY <1>3 DEF ServerIndexes, ServerCount
<1>5. FirstCol(g, j) = a * ServerGridCols(g) /\ FirstRow(g, j) = b * ServerGridRows(g)
  BY <1>2 DEF FirstCol, FirstRow
<1> QED
  BY <1>4, <1>5

\* A border that is narrow enough lies in the areas of the neighbours.
LEMMA BorderOfNeighbours ==
  ASSUME NEW g \in Grids, NEW i \in ServerIndexes(g), Narrow(g), NEW c \in BorderOf(g, i)
  PROVE  \E j \in ServerIndexes(g) : c \in ChannelsOfServer(g, j)
<1> DEFINE cols == ServerGridCols(g)
           rows == ServerGridRows(g)
           a  == i % g.serverCols
           b  == i \div g.serverCols
           c0 == FirstCol(g, i)
           r0 == FirstRow(g, i)
<1>1. /\ g.serverCols \in Nat \ {0} /\ g.serverRows \in Nat \ {0} /\ g.border \in Nat
      /\ a \in 0..(g.serverCols - 1) /\ b \in 0..(g.serverRows - 1)
      /\ cols \in Nat \ {0} /\ rows \in Nat \ {0} /\ c0 \in Nat /\ r0 \in Nat
      /\ g.border <= cols /\ g.border <= rows
  BY ServerPlace DEF Grids, Narrow
<1>2. c0 = a * cols /\ r0 = b * rows
  BY DEF FirstCol, FirstRow
<1>3. OwnCols(g, i) = c0..(c0 + cols - 1) /\ OwnRows(g, i) = r0..(r0 + rows - 1)
  BY DEF OwnCols, OwnRows
<1>4. \/ a > 0 /\ c \in CellsAt(g, (c0 - g.border)..(c0 - 1), OwnRows(g, i))
      \/ a < g.serverCols - 1 /\ c \in CellsAt(g, (c0 + cols)..(c0 + cols + g.border - 1), OwnRows(g, i))
      \/ b > 0 /\ c \in CellsAt(g, OwnCols(g, i), (r0 - g.border)..(r0 - 1))
      \/ b < g.serverRows - 1 /\ c \in CellsAt(g, OwnCols(g, i), (r0 + rows)..(r0 + rows + g.border - 1))
  BY DEF BorderOf
<1> HIDE DEF cols, rows, a, b, c0, r0
<1>5. ASSUME NEW x \in 0..(g.serverCols - 1), NEW y \in 0..(g.serverRows - 1),
             NEW C, NEW R, C \subseteq (x * cols)..(x * cols + cols - 1),
             R \subseteq (y * rows)..(y * rows + rows - 1), c \in CellsAt(g, C, R)
      PROVE  \E j \in ServerIndexes(g) : c \in ChannelsOfServer(g, j)
  <2>1. PICK j \in ServerIndexes(g) : FirstCol(g, j) = x * cols /\ FirstRow(g, j) = y * rows
    BY ServerAt DEF cols, rows
  <2>2. OwnCols(g, j) = (x * cols)..(x * cols + cols - 1) /\ OwnRows(g, j) = (y * rows)..(y * rows + rows - 1)
    BY <2>1 DEF OwnCols, OwnRows, cols, rows
  <2>3. PICK col \in C, row \in R : c = ChannelAt(g, col, row)
    <3>1. c \in CellsAt(g, C, R)
      BY <1>5
    <3> QED
      BY <3>1 DEF CellsAt
  <2>4. col \in OwnCols(g, j) /\ row \in OwnRows(g, j)
    BY <1>5, <2>2
  <2> QED
    BY <2>3, <2>4, CellsMember DEF ChannelsOfServer
<1>6. /\ (a - 1) * cols = c0 - cols /\ (a + 1) * cols = c0 + cols
      /\ (b - 1) * rows = r0 - rows /\ (b + 1) * rows = r0 + rows
  BY <1>1, <1>2
<1>7. CASE a > 0 /\ c \in CellsAt(g, (c0 - g.border)..(c0 - 1), OwnRows(g, i))
  <2>1. a - 1 \in 0..(g.serverCols - 1)
    BY <1>1, <1>7
  <2>2. (c0 - g.border)..(c0 - 1) \subseteq ((a - 1) * cols)..((a - 1) * cols + cols - 1)
    BY <1>1, <1>6
  <2> QED
    BY <1>1, <1>2, <1>3, <1>5, <1>7, <2>1, <2>2
<1>8. CASE a < g.serverCols - 1 /\ c \in CellsAt(g, (c0 + cols)..(c0 + cols + g.border - 1), OwnRows(g, i))
  <2>1. a + 1 \in 0..(g.serverCols - 1)
    BY <1>1, <1>8
  <2>2. (c0 + cols)..(c0 + cols + g.border - 1) \subseteq ((a + 1) * cols)..((a + 1) * cols + cols - 1)
    BY <1>1, <1>6
  <2> QED
    BY <1>1, <1>2, <1>3, <1>5, <1>8, <2>1, <2>2
<1>9. CASE b > 0 /\ c \in CellsAt(g, OwnCols(g, i), (r0 - g.border)..(r0 - 1))
  <2>1. b - 1 \in 0..(g.serverRows - 1)
    BY <1>1, <1>9
  <2>2. (r0 - g.border)..(r0 - 1) \subseteq ((b - 1) * rows)..((b - 1) * rows + rows - 1)
    BY <1>1, <1>6
  <2> QED
    BY <1>1, <1>2, <1>3, <1>5, <1>9, <2>1, <2>2
<1>10. CASE b < g.serverRows - 1 /\ c \in CellsAt(g, OwnCols(g, i), (r0 + rows)..(r0 + rows + g.border - 1))
  <2>1. b + 1 \in 0..(g.serverRows - 1)
    BY <1>1, <1>10
  <2>2. (r0 + rows)..(r0 + rows + g.border - 1) \subseteq ((b + 1) * rows)..((b + 1) * rows + rows - 1)
    BY <1>1, <1>6
  <2> QED
    BY <1>1, <1>2, <1>3, <1>5, <1>10, <2>1, <2>2
<1> QED
  BY <1>4, <1>7, <1>8, <1>9, <1>10

\* What is near a server's area along one axis: its own strip, the border before it,
\* or the border behind it, unless it is the last one.
LEMMA NearStrip ==
  ASSUME NEW size \in Nat \ {0}, NEW k \in Nat, NEW border \in Nat, NEW n \in Nat, k < n,
         NEW x \in Nat, x < size * n,
         NEW y \in (k * size)..(k * size + size - 1), x - y \in -border..border
  PROVE  \/ x \in (k * size)..(k * size + size - 1)
         \/ k > 0 /\ x \in (k * size - border)..(k * size - 1)
         \/ k < n - 1 /\ x \in (k * size + size)..(k * size + size + border - 1)
<1> DEFINE z == k * size
<1>1. z \in Nat
  OBVIOUS
<1>2. k = 0 => z = 0
  OBVIOUS
<1>3. k = n - 1 => z + size = size * n
  OBVIOUS
<1>4. x \in Nat /\ y \in z..(z + size - 1) /\ x - y \in -border..border /\ x < size * n
      /\ size \in Nat \ {0} /\ size * n \in Nat
  OBVIOUS
<1> HIDE DEF z
<1> QED
  <2>1. CASE x < z
    <3>1. k > 0
      BY <1>1, <1>2, <1>4, <2>1
    <3>2. x \in (z - border)..(z - 1)
      BY <1>1, <1>4, <2>1
    <3> QED
      BY <3>1, <3>2 DEF z
  <2>2. CASE x >= z /\ x <= z + size - 1
    <3>1. x \in z..(z + size - 1)
      BY <1>1, <1>4, <2>2
    <3> QED
      BY <3>1 DEF z
  <2>3. CASE x > z + size - 1
    <3>1. k # n - 1
      BY <1>1, <1>3, <1>4, <2>3
    <3>2. k < n - 1
      BY <3>1
    <3>3. x \in (z + size)..(z + size + border - 1)
      BY <1>1, <1>4, <2>3
    <3> QED
      BY <3>2, <3>3 DEF z
  <2> QED
    BY <1>1, <1>4, <2>1, <2>2, <2>3

\* What is near a server's area is in the area or on its border.
LEMMA NearIsWatched ==
  ASSUME grid \in Grids, NEW i \in ServerIndexes(grid), NEW c \in NearBy(i)
  PROVE  c \in ChannelsOfServer(grid, i) \cup BorderOf(grid, i)
<1> DEFINE g    == grid
           cols == ServerGridCols(g)
           rows == ServerGridRows(g)
           a  == i % g.serverCols
           b  == i \div g.serverCols
           c0 == FirstCol(g, i)
           r0 == FirstRow(g, i)
           x  == c % g.gridCols
           y  == c \div g.gridCols
           near(u, S) == \E v \in S : u - v \in -g.border..g.border
<1>1. /\ c \in CellsOf(g)
      /\ \/ x \in OwnCols(g, i) /\ near(y, OwnRows(g, i))
         \/ y \in OwnRows(g, i) /\ near(x, OwnCols(g, i))
  BY DEF NearBy, Cells
<1>2. /\ g.serverCols \in Nat \ {0} /\ g.serverRows \in Nat \ {0} /\ g.border \in Nat
      /\ a \in 0..(g.serverCols - 1) /\ b \in 0..(g.serverRows - 1)
      /\ cols \in Nat \ {0} /\ rows \in Nat \ {0}
      /\ g.gridCols <= cols * g.serverCols /\ g.gridRows <= rows * g.serverRows
      /\ g.gridCols \in Nat /\ g.gridRows \in Nat
  BY ServerPlace DEF Grids
<1>3. /\ x \in 0..(g.gridCols - 1) /\ y \in 0..(g.gridRows - 1)
      /\ c = x + y * g.gridCols
  BY <1>1, CellPlace
<1>4. ChannelAt(g, x, y) = c
  <2>1. x \in Int /\ y \in Int
    BY <1>2, <1>3
  <2> HIDE DEF x, y
  <2> QED
    BY <1>3, <2>1, CornerCell
<1>5. ASSUME NEW C, NEW R, x \in C, y \in R PROVE c \in CellsAt(g, C, R)
  BY <1>4, <1>5, CellsMember
<1>6. c0 = a * cols /\ r0 = b * rows
  BY DEF FirstCol, FirstRow
<1>7. OwnCols(g, i) = c0..(c0 + cols - 1) /\ OwnRows(g, i) = r0..(r0 + rows - 1)
  BY DEF OwnCols, OwnRows
<1>8. BorderOf(g, i) =
        (IF a > 0 THEN CellsAt(g, (c0 - g.border)..(c0 - 1), OwnRows(g, i)) ELSE {})
        \cup (IF a < g.serverCols - 1
              THEN CellsAt(g, (c0 + cols)..(c0 + cols + g.border - 1), OwnRows(g, i)) ELSE {})
        \cup (IF b > 0 THEN CellsAt(g, OwnCols(g, i), (r0 - g.border)..(r0 - 1)) ELSE {})
        \cup (IF b < g.serverRows - 1
              THEN CellsAt(g, OwnCols(g, i), (r0 + rows)..(r0 + rows + g.border - 1)) ELSE {})
  BY DEF BorderOf
<1>9. ChannelsOfServer(g, i) = CellsAt(g, OwnCols(g, i), OwnRows(g, i))
  BY DEF ChannelsOfServer
<1> HIDE DEF g, cols, rows, a, b, c0, r0, x, y
<1>10. CASE x \in OwnCols(g, i) /\ near(y, OwnRows(g, i))
  <2>1. PICK v \in OwnRows(g, i) : y - v \in -g.border..g.border
    BY <1>10
  <2>2. b \in Nat /\ b < g.serverRows /\ y \in Nat /\ y < rows * g.serverRows
    BY <1>2, <1>3
  <2>3. \/ y \in (b * rows)..(b * rows + rows - 1)
        \/ b > 0 /\ y \in (b * rows - g.border)..(b * rows - 1)
        \/ b < g.serverRows - 1 /\ y \in (b * rows + rows)..(b * rows + rows + g.border - 1)
    BY <1>2, <1>6, <1>7, <2>1, <2>2, NearStrip
  <2>4. \/ y \in OwnRows(g, i)
        \/ b > 0 /\ y \in (r0 - g.border)..(r0 - 1)
        \/ b < g.serverRows - 1 /\ y \in (r0 + rows)..(r0 + rows + g.border - 1)
    BY <1>6, <1>7, <2>3
  <2> QED
    BY <1>5, <1>8, <1>9, <1>10, <2>4 DEF g
<1>11. CASE y \in OwnRows(g, i) /\ near(x, OwnCols(g, i))
  <2>1. PICK v \in OwnCols(g, i) : x - v \in -g.border..g.border
    BY <1>11
  <2>2. a \in Nat /\ a < g.serverCols /\ x \in Nat /\ x < cols * g.serverCols
    BY <1>2, <1>3
  <2>3. \/ x \in (a * cols)..(a * cols + cols - 1)
        \/ a > 0 /\ x \in (a * cols - g.border)..(a * cols - 1)
        \/ a < g.serverCols - 1 /\ x \in (a * cols + cols)..(a * cols + cols + g.border - 1)
    BY <1>2, <1>6, <1>7, <2>1, <2>2, NearStrip
  <2>4. \/ x \in OwnCols(g, i)
        \/ a > 0 /\ x \in (c0 - g.border)..(c0 - 1)
        \/ a < g.serverCols - 1 /\ x \in (c0 + cols)..(c0 + cols + g.border - 1)
    BY <1>6, <1>7, <2>3
  <2> QED
    BY <1>5, <1>8, <1>9, <1>11, <2>4 DEF g
<1> QED
  BY <1>1, <1>10, <1>11

-----------------------------------------------------------------------------
(* Which servers are subscribed to what.                                     *)

\* A live server owns the channels made for its index, and is subscribed to them
\* unless the creation under way is its own.
Installed(i) ==
  Live(serverConnections[i]) =>
    \A c \in ChannelsOfServer(grid, i) :
      /\ c \in Cells /\ Exists(c)
      /\ spatial[Current(c)].owner = serverConnections[i]
      /\ serverConnections[i] \in spatial[Current(c)].subs \/ creating = serverConnections[i]

Complete == \A i \in ServerIndexes(grid) : Live(serverConnections[i])

Watches(i) ==
  \A c \in BorderOf(grid, i) : Exists(c) /\ serverConnections[i] \in spatial[Current(c)].subs

WatchInv ==
  Narrow(grid) =>
    /\ \A i \in ServerIndexes(grid) : Installed(i)
    /\ Complete => \A i \in ServerIndexes(grid) : Watches(i)

\* No server takes an index, and no creation is under way or done with.
ServersKept ==
  /\ creating' = creating
  /\ \A i \in ServerIndexes(grid) :
       \/ serverConnections'[i] = serverConnections[i]
       \/ serverConnections'[i] = NoConn

LEMMA WatchStays ==
  ASSUME TypeInv, WatchInv, WorldKept, SubsKept, ServersKept
  PROVE  WatchInv'
<1>1. /\ grid' = grid /\ Cells' = Cells
      /\ \A c : Exists(c)' <=> Exists(c)
      /\ \A c : Current(c)' = Current(c)
  BY WorldNames DEF WorldKept
<1> SUFFICES ASSUME Narrow(grid)
             PROVE  /\ \A i \in ServerIndexes(grid) : Installed(i)'
                    /\ Complete' => \A i \in ServerIndexes(grid) : Watches(i)'
  BY <1>1 DEF WatchInv
<1>2. ASSUME NEW i \in ServerIndexes(grid), Live(serverConnections[i])'
      PROVE  /\ Live(serverConnections[i]) /\ serverConnections'[i] = serverConnections[i]
             /\ serverConnections[i] \in Servers \ closing
  BY <1>2 DEF Live, ServersKept, WorldKept, TypeInv, ServersOK
<1>3. ASSUME NEW i \in ServerIndexes(grid), Live(serverConnections[i])',
             NEW c, Exists(c), c \in Cells, serverConnections[i] \in spatial[Current(c)].subs
      PROVE  serverConnections'[i] \in spatial'[Current(c)].subs
  <2>1. Current(c) \in Instances
    BY <1>3, CurrentBorn DEF TypeInv
  <2> QED
    BY <1>2, <1>3, <2>1 DEF SubsKept
<1>4. ASSUME NEW i \in ServerIndexes(grid) PROVE Installed(i)'
  <2> SUFFICES ASSUME Live(serverConnections[i])', NEW c \in ChannelsOfServer(grid, i)
               PROVE  /\ c \in Cells /\ Exists(c)
                      /\ spatial'[Current(c)].owner = serverConnections'[i]
                      /\ \/ serverConnections'[i] \in spatial'[Current(c)].subs
                         \/ creating' = serverConnections'[i]
    BY <1>1 DEF Installed
  <2>1. /\ c \in Cells /\ Exists(c)
        /\ spatial[Current(c)].owner = serverConnections[i]
        /\ serverConnections[i] \in spatial[Current(c)].subs \/ creating = serverConnections[i]
    BY <1>2 DEF WatchInv, Installed
  <2>2. Current(c) \in Instances
    BY <2>1, CurrentBorn DEF TypeInv
  <2>3. spatial'[Current(c)].owner = serverConnections'[i]
    BY <1>2, <2>1, <2>2 DEF WorldKept
  <2> QED
    BY <1>2, <1>3, <2>1, <2>3 DEF ServersKept
<1>5. ASSUME Complete', NEW i \in ServerIndexes(grid) PROVE Watches(i)'
  <2>1. \A j \in ServerIndexes(grid) : Live(serverConnections[j])'
    BY <1>1, <1>5 DEF Complete
  <2>2. Complete
    BY <1>2, <2>1 DEF Complete
  <2>3. Watches(i)
    BY <2>2 DEF WatchInv
  <2>4. BorderOf(grid, i) \subseteq Cells \cup {NoCell}
    BY CellsInTable, BorderInWorld DEF TypeInv, GridInv, Cells
  <2>5. ASSUME NEW c \in BorderOf(grid, i)
        PROVE  Exists(c) /\ serverConnections'[i] \in spatial'[Current(c)].subs
    <3>1. Exists(c) /\ serverConnections[i] \in spatial[Current(c)].subs
      BY <2>3 DEF Watches
    <3>2. c \in Cells
      BY <2>4, <3>1 DEF Exists
    <3> QED
      BY <1>3, <2>1, <3>1, <3>2
  <2> QED
    BY <1>1, <2>5 DEF Watches
<1> QED
  BY <1>4, <1>5

\* The server that has created its channels subscribes to them.
LEMMA WatchSubscribed ==
  ASSUME TypeInv, WatchInv, SubscribeCreated
  PROVE  WatchInv'
<1> DEFINE s == creating
           own == {c \in Cells : Exists(c) /\ spatial[Current(c)].owner = s}
<1>1. /\ grid' = grid /\ Cells' = Cells /\ closing' = closing
      /\ serverConnections' = serverConnections
      /\ \A c : Exists(c)' <=> Exists(c)
      /\ \A c : Current(c)' = Current(c)
  BY DEF SubscribeCreated, grid, Cells, Exists, Current
<1>2. \A i \in Instances :
        /\ spatial'[i].owner = spatial[i].owner
        /\ spatial[i].subs \subseteq spatial'[i].subs
        /\ s \notin closing /\ i[1] \in own /\ i = Current(i[1]) => s \in spatial'[i].subs
  <2>1. CASE s \in closing
    BY <2>1 DEF SubscribeCreated
  <2>2. CASE s \notin closing
    <3> DEFINE grown(i) == [spatial[i] EXCEPT !.subs = @ \cup {s}]
    <3>1. spatial' = [i \in Instances |->
                       IF i[1] \in own /\ i = Current(i[1]) THEN grown(i) ELSE spatial[i]]
      BY <2>2 DEF SubscribeCreated
    <3> HIDE DEF own
    <3>2. ASSUME NEW i \in Instances
          PROVE  grown(i).owner = spatial[i].owner /\ grown(i).subs = spatial[i].subs \cup {s}
      <4>1. IsChannel(spatial[i])
        BY DEF TypeInv, ChannelsOK, Channels
      <4> DEFINE v == spatial[i].subs \cup {s}
      <4>2. grown(i) = [owner |-> spatial[i].owner, subs |-> v,
                        entities |-> spatial[i].entities, queue |-> spatial[i].queue]
        BY <4>1, ChannelField
      <4> HIDE DEF grown, v
      <4>3. grown(i).owner = spatial[i].owner /\ grown(i).subs = v
        BY <4>2, ChannelRecord
      <4> QED
        BY <4>3 DEF v
    <3> HIDE DEF grown
    <3> QED
      BY <3>1, <3>2
  <2> QED
    BY <2>1, <2>2
<1>3. ASSUME NEW c \in Cells, Exists(c)
      PROVE  Current(c) \in Instances /\ Current(c)[1] = c
  BY <1>3, CurrentBorn DEF TypeInv
<1> SUFFICES ASSUME Narrow(grid)
             PROVE  /\ \A i \in ServerIndexes(grid) : Installed(i)'
                    /\ Complete' => \A i \in ServerIndexes(grid) : Watches(i)'
  BY <1>1 DEF WatchInv
<1>4. ASSUME NEW i \in ServerIndexes(grid) PROVE Installed(i)'
  <2> SUFFICES ASSUME Live(serverConnections[i]), NEW c \in ChannelsOfServer(grid, i)
               PROVE  /\ c \in Cells /\ Exists(c)
                      /\ spatial'[Current(c)].owner = serverConnections[i]
                      /\ serverConnections[i] \in spatial'[Current(c)].subs
    BY <1>1 DEF Installed, Live
  <2>1. /\ c \in Cells /\ Exists(c)
        /\ spatial[Current(c)].owner = serverConnections[i]
        /\ serverConnections[i] \in spatial[Current(c)].subs \/ s = serverConnections[i]
    BY DEF WatchInv, Installed
  <2>2. Current(c) \in Instances /\ Current(c)[1] = c
    BY <1>3, <2>1
  <2>3. s = serverConnections[i] => c \in own /\ s \notin closing
    BY <2>1 DEF Live
  <2> QED
    BY <1>2, <2>1, <2>2, <2>3
<1>5. ASSUME Complete', NEW i \in ServerIndexes(grid) PROVE Watches(i)'
  <2>1. Complete
    BY <1>1, <1>5 DEF Complete, Live
  <2>2. Watches(i)
    BY <2>1 DEF WatchInv
  <2>3. BorderOf(grid, i) \subseteq Cells \cup {NoCell}
    BY CellsInTable, BorderInWorld DEF TypeInv, GridInv, Cells
  <2>4. ASSUME NEW c \in BorderOf(grid, i)
        PROVE  Exists(c) /\ serverConnections[i] \in spatial'[Current(c)].subs
    <3>1. Exists(c) /\ serverConnections[i] \in spatial[Current(c)].subs
      BY <2>2 DEF Watches
    <3>2. Current(c) \in Instances
      BY <1>3, <2>3, <3>1 DEF Exists
    <3> QED
      BY <1>2, <3>1, <3>2
  <2> QED
    BY <1>1, <2>4 DEF Watches
<1> QED
  BY <1>4, <1>5

\* There are no channels on a border that is zero wide.
LEMMA NoBorder ==
  ASSUME NEW g \in Grids, NEW i \in ServerIndexes(g), NEW c \in BorderOf(g, i)
  PROVE  g.border > 0
<1>1. /\ g.border \in Nat /\ FirstCol(g, i) \in Nat /\ FirstRow(g, i) \in Nat
      /\ ServerGridCols(g) \in Nat /\ ServerGridRows(g) \in Nat
  BY ServerPlace DEF Grids
<1> SUFFICES ASSUME g.border = 0 PROVE FALSE
  BY <1>1
<1>2. \A n \in Nat : (n - 0)..(n - 1) = {} /\ n..(n + 0 - 1) = {}
  OBVIOUS
<1>3. /\ FirstCol(g, i) + ServerGridCols(g) \in Nat
      /\ FirstRow(g, i) + ServerGridRows(g) \in Nat
  BY <1>1
<1>4. \A C : CellsAt(g, {}, C) = {} /\ CellsAt(g, C, {}) = {}
  BY DEF CellsAt
<1> QED
  BY <1>1, <1>2, <1>3, <1>4 DEF BorderOf

\* A server that takes a free index: with the last one, all are subscribed to their
\* borders, which are then in the world and created; what is created again loses its
\* subscribers, and they are subscribed again when the index was the last free one.
LEMMA WatchCreation ==
  ASSUME TypeInv, TypeInv', WatchInv, HandleCreateSpatial, Creation
  PROVE  WatchInv'
<1>1. /\ grid' = grid /\ Cells' = Cells /\ closing' = closing /\ creating = NoConn
      /\ grid \in Grids /\ Cells \subseteq 0..(MaxCells - 1)
  BY CellsInTable DEF HandleCreateSpatial, TakeGlobal, grid, Cells, TypeInv, GridInv
<1> SUFFICES ASSUME Narrow(grid)
             PROVE  /\ \A i \in ServerIndexes(grid) : Installed(i)'
                    /\ Complete' => \A i \in ServerIndexes(grid) : Watches(i)'
  BY <1>1 DEF WatchInv
<1>2. ASSUME NEW c \in Cells
      PROVE  /\ current[c] \in Nat
             /\ current'[c] = current[c] + (IF c \in Made THEN 1 ELSE 0)
             /\ c # NoCell
             /\ Exists(c)' <=> c \in Made \/ Exists(c)
             /\ c \notin Made => Current(c)' = Current(c)
             /\ Exists(c)' => Current(c)' \in Instances /\ Current(c)'[1] = c /\ Current(c)'[2] = current'[c]
  <2>1. current[c] \in Nat /\ current'[c] = current[c] + (IF c \in Made THEN 1 ELSE 0)
    BY <1>1, HandoverAssumption DEF TypeInv, GridInv, Creation
  <2>2. c # NoCell
    BY CellsInTable DEF TypeInv, GridInv
  <2>3. Exists(c)' <=> c \in Made \/ Exists(c)
    BY <2>1, <2>2 DEF Exists
  <2>4. c \notin Made => Current(c)' = Current(c)
    BY <2>1 DEF Current
  <2>5. Exists(c)' => Current(c)' \in Instances
    <3>1. current'[c] \in 0..MaxGen /\ c \in 0..(MaxCells - 1)
      BY <1>1 DEF Creation
    <3>2. current'[c] > 0 => current'[c] \in 1..MaxGen
      BY <3>1, HandoverAssumption
    <3> QED
      BY <3>1, <3>2 DEF Exists, Current, Instances
  <2> QED
    BY <2>1, <2>2, <2>3, <2>4, <2>5 DEF Current
<1>3. \A i \in ServerIndexes(grid) :
        serverConnections'[i] = IF i = NewIndex THEN Creator ELSE serverConnections[i]
  BY DEF Creation
<1>4. ASSUME NEW i \in ServerIndexes(grid), i # NewIndex, NEW c \in ChannelsOfServer(grid, i), c \in Cells
      PROVE  c \notin Made
  BY <1>1, <1>4, RegionsAreChannels DEF Made, Creation, Cells
<1>5. ASSUME NEW i \in ServerIndexes(grid), Live(serverConnections'[i]), NEW c \in ChannelsOfServer(grid, i)
      PROVE  /\ c \in Cells /\ Exists(c)'
             /\ spatial'[Current(c)'].owner = serverConnections'[i]
             /\ i # NewIndex => serverConnections'[i] \in spatial'[Current(c)'].subs
  <2>1. CASE i = NewIndex
    <3>1. c \in Made /\ c \in Cells
      BY <2>1 DEF Made, Creation
    <3>2. NewInstance(Current(c)') /\ Current(c)' \in Instances
      BY <1>2, <3>1 DEF NewInstance, Creation
    <3> QED
      BY <1>2, <1>3, <2>1, <3>1, <3>2 DEF Creation
  <2>2. CASE i # NewIndex
    <3>1. serverConnections'[i] = serverConnections[i] /\ Live(serverConnections[i])
      BY <1>3, <1>5, <2>2
    <3>2. /\ c \in Cells /\ Exists(c)
          /\ spatial[Current(c)].owner = serverConnections[i]
          /\ serverConnections[i] \in spatial[Current(c)].subs
      BY <1>1, <3>1 DEF WatchInv, Installed, Live
    <3>3. c \notin Made
      BY <1>4, <2>2, <3>2
    <3>4. Exists(c)' /\ Current(c)' = Current(c) /\ Current(c) \in Instances /\ Current(c)[1] = c
      BY <1>2, <3>2, <3>3
    <3>5. ~NewInstance(Current(c))
      BY <3>3, <3>4 DEF NewInstance
    <3>6. /\ spatial'[Current(c)].owner = spatial[Current(c)].owner
          /\ spatial[Current(c)].subs \subseteq spatial'[Current(c)].subs
      BY <3>4, <3>5 DEF Creation
    <3> QED
      BY <3>1, <3>2, <3>4, <3>6
  <2> QED
    BY <2>1, <2>2
<1>6. ASSUME NextServerIndex(NewConns) = ServerCount(grid), NEW i \in ServerIndexes(grid)
      PROVE  /\ ~BorderFails(NewCurrent, i)
             /\ \A c \in BorderOf(grid, i) : c \in Cells /\ Exists(c)'
  <2>1. \A j \in ServerIndexes(grid) : Live(serverConnections'[j])
    BY <1>1, <1>6, CompleteIsLive DEF Creation
  <2>2. ASSUME NEW c \in BorderOf(grid, i) PROVE c \in Cells /\ Exists(c)'
    <3>1. PICK j \in ServerIndexes(grid) : c \in ChannelsOfServer(grid, j)
      BY <1>1, BorderOfNeighbours
    <3> QED
      BY <1>5, <2>1, <3>1
  <2>3. ASSUME NEW c \in BorderOf(grid, i) PROVE c # NoCell /\ NewCurrent[c] # 0
    BY <2>2 DEF Exists, Creation
  <2> QED
    BY <2>2, <2>3 DEF BorderFails
<1>7. ASSUME Complete', NEW i \in ServerIndexes(grid) PROVE Watches(i)'
  <2>1. NextServerIndex(NewConns) = ServerCount(grid)
    <3>1. \A j \in ServerIndexes(grid) : Live(serverConnections'[j])
      BY <1>1, <1>7 DEF Complete, Live
    <3>2. DOMAIN NewConns = ServerIndexes(grid) /\ serverConnections' = NewConns
      BY DEF Creation
    <3>3. FreeIndexes(NewConns) = {}
      BY <3>1, <3>2 DEF FreeIndexes
    <3> QED
      BY <3>3 DEF NextServerIndex
  <2>2. ASSUME grid.border > 0 PROVE NewSubscribed = ServerIndexes(grid)
    <3>1. DOMAIN NewConns = ServerIndexes(grid)
      BY DEF Creation
    <3>2. NewSubscribed = {k \in ServerIndexes(grid) : grid.border > 0 /\ \A j \in 0..k : ~BorderFails(NewCurrent, j)}
      BY <2>1, <3>1 DEF NewSubscribed, BorderSubscribed
    <3>3. \A k \in ServerIndexes(grid) : 0..k \subseteq ServerIndexes(grid)
      BY <1>1 DEF ServerIndexes, ServerCount, Grids
    <3>4. \A k \in ServerIndexes(grid) : ~BorderFails(NewCurrent, k)
      BY <1>6, <2>1
    <3> QED
      BY <2>2, <3>2, <3>3, <3>4
  <2>3. ASSUME NEW c \in BorderOf(grid, i)
        PROVE  Exists(c)' /\ serverConnections'[i] \in spatial'[Current(c)'].subs
    <3>1. c \in Cells /\ Exists(c)'
      BY <1>6, <2>1
    <3>2. grid.border > 0
      BY <1>1, NoBorder
    <3>3. serverConnections'[i] \in NewSubscribers(c)
      BY <2>2, <3>2 DEF NewSubscribers, Creation
    <3>4. Current(c)' \in Instances /\ NewestOfCell(Current(c)') /\ Current(c)'[1] = c
      BY <1>2, <3>1 DEF NewestOfCell, Creation
    <3>5. NewSubscribers(c) \subseteq spatial'[Current(c)'].subs
      BY <3>4 DEF Creation
    <3> QED
      BY <3>1, <3>3, <3>5
  <2> QED
    BY <1>1, <2>3 DEF Watches
<1>8. ASSUME NEW i \in ServerIndexes(grid) PROVE Installed(i)'
  <2> SUFFICES ASSUME Live(serverConnections[i])', NEW c \in ChannelsOfServer(grid, i)
               PROVE  /\ c \in Cells /\ Exists(c)'
                      /\ spatial'[Current(c)'].owner = serverConnections'[i]
                      /\ \/ serverConnections'[i] \in spatial'[Current(c)'].subs
                         \/ creating' = serverConnections'[i]
    BY <1>1 DEF Installed
  <2>1. Live(serverConnections'[i])
    BY <1>1 DEF Live
  <2>2. i = NewIndex => creating' = serverConnections'[i]
    <3>1. ~(NextServerIndex(NewConns) = ServerCount(grid) /\ \E j \in DOMAIN NewConns : BorderFails(NewCurrent, j))
      BY <1>6 DEF Creation
    <3> QED
      BY <1>3, <3>1 DEF Creation
  <2> QED
    BY <1>5, <2>1, <2>2
<1> QED
  BY <1>7, <1>8

\* A world that is there from the beginning.
LEMMA InitWatch ==
  ASSUME Init
  PROVE  WatchInv
<1>1. TypeInv /\ FirstChannels
  BY InitTypes, InitChannels
<1>2. /\ scenario \in Scenarios /\ closing = {} /\ grid \in Grids
      /\ NoCell \notin Cells /\ Cells \subseteq 0..(MaxCells - 1)
      /\ current = [c \in 0..(MaxCells - 1) |-> IF Ready /\ c \in Cells THEN 1 ELSE 0]
      /\ serverConnections = [i \in ServerIndexes(grid) |->
                                IF Ready THEN scenario.owners[i + 1] ELSE NoConn]
  BY CellsInTable DEF Init
<1>3. ASSUME NEW i \in ServerIndexes(grid), Live(serverConnections[i])
      PROVE  /\ Ready /\ serverConnections[i] = scenario.owners[i + 1]
             /\ serverConnections[i] \in Servers
             /\ ChannelsOfServer(grid, i) \cup BorderOf(grid, i) \subseteq Cells
             /\ ChannelsOfServer(grid, i) \cup BorderOf(grid, i) \subseteq SubscriberCells(serverConnections[i])
  <2>1. Ready /\ serverConnections[i] = scenario.owners[i + 1]
    BY <1>2, <1>3 DEF Live
  <2>2. serverConnections[i] \in Servers
    BY <1>1, <1>3 DEF TypeInv, ServersOK, Live
  <2>3. ChannelsOfServer(grid, i) \cup BorderOf(grid, i) \subseteq Cells
    BY <1>2, <2>1, HandoverAssumption DEF Ready, grid, Cells
  <2>4. serverConnections[i] \notin Clients
    BY <2>2, HandoverAssumption
  <2>5. ChannelsOfServer(grid, i) \cup BorderOf(grid, i) \subseteq SubscriberCells(serverConnections[i])
    BY <2>1, <2>4 DEF SubscriberCells
  <2> QED
    BY <2>1, <2>2, <2>3, <2>5
<1>4. ASSUME NEW i \in ServerIndexes(grid), Live(serverConnections[i]),
             NEW c \in ChannelsOfServer(grid, i) \cup BorderOf(grid, i)
      PROVE  /\ c \in Cells /\ Exists(c)
             /\ spatial[Current(c)].owner = OwnerOfCell(c)
             /\ serverConnections[i] \in spatial[Current(c)].subs
  <2>1. c \in Cells /\ Ready
    BY <1>3, <1>4
  <2>2. current[c] = 1 /\ c # NoCell
    BY <1>2, <2>1
  <2>3. Current(c) = <<c, 1>> /\ Exists(c)
    BY <2>2 DEF Current, Exists
  <2>4. Current(c) \in Instances
    BY <1>1, <2>1, <2>3, CurrentBorn DEF TypeInv
  <2> DEFINE j == Current(c)
  <2>5. j \in Instances /\ j[1] = c /\ j[2] = 1
    BY <2>3, <2>4
  <2> HIDE DEF j
  <2>6. spatial[j].owner = OwnerOfCell(j[1])
    BY <1>1, <2>1, <2>5 DEF FirstChannels
  <2>7. spatial[j].subs = {d \in Conns : c \in SubscriberCells(d)}
    BY <1>1, <2>1, <2>5 DEF FirstChannels
  <2>8. serverConnections[i] \in spatial[j].subs
    BY <1>3, <1>4, <2>7, Kinds
  <2> QED
    BY <2>1, <2>3, <2>5, <2>6, <2>8 DEF j
<1>5. ASSUME NEW i \in ServerIndexes(grid) PROVE Installed(i)
  <2> SUFFICES ASSUME Live(serverConnections[i]), NEW c \in ChannelsOfServer(grid, i)
               PROVE  /\ c \in Cells /\ Exists(c)
                      /\ spatial[Current(c)].owner = serverConnections[i]
                      /\ serverConnections[i] \in spatial[Current(c)].subs
    BY DEF Installed
  <2>1. /\ c \in Cells /\ Exists(c)
        /\ spatial[Current(c)].owner = OwnerOfCell(c)
        /\ serverConnections[i] \in spatial[Current(c)].subs
    BY <1>4
  <2>2. OwnerOfCell(c) = scenario.owners[RegionServer(grid, c) + 1]
    BY <1>2, <1>3, <2>1, FirstOwner
  <2>3. RegionServer(grid, c) = i
    BY <1>2, <2>1, RegionsAreChannels DEF Cells
  <2> QED
    BY <1>3, <2>1, <2>2, <2>3
<1>6. ASSUME Complete, NEW i \in ServerIndexes(grid) PROVE Watches(i)
  BY <1>4, <1>6 DEF Complete, Watches
<1> QED
  BY <1>5, <1>6 DEF WatchInv

LEMMA WatchStep ==
  ASSUME WorldInv, TypeInv', WatchInv, [Next]_vars
  PROVE  WatchInv'
<1>1. TypeInv /\ PlacedInv /\ AloneInv /\ OwnerInv /\ SubsInv /\ WriteInv
  BY DEF WorldInv
<1>2. ASSUME Steady \/ WorldKept, SubsKept, UNCHANGED <<serverConnections, creating>>
      PROVE  WatchInv'
  BY <1>1, <1>2, WatchStays DEF Steady, ServersKept
<1>3. CASE UNCHANGED vars
  <2>1. WorldKept /\ SubsKept
    BY <1>3 DEF vars, worldVars, entityVars, historyVars, WorldKept, SubsKept
  <2> QED
    BY <1>2, <1>3, <2>1 DEF vars, worldVars
<1>4. CASE \E s \in Servers \cup {Master} : Send(s)
  BY <1>1, <1>2, <1>4, SendSteady DEF Senders, Send, worldVars
<1>5. CASE \E c \in Conns : Close(c)
  BY <1>2, <1>5, CloseSteady DEF Close, worldVars
<1>6. CASE GlobalStep
  <2>1. CASE SubscribeCreated
    BY <1>1, <2>1, WatchSubscribed
  <2>2. CASE ControllerTick
    <3>1. ServersKept
      BY <1>1, <2>2 DEF ControllerTick, ServersKept, TypeInv, GridInv
    <3> QED
      BY <1>1, <2>2, <3>1, ControllerTickSteady, WatchStays DEF Steady
  <2>3. CASE HandleCreateSpatial
    <3>1. CASE ~Creates
      BY <1>1, <1>2, <2>3, <3>1, RefusedSteady, CreationChanges DEF worldVars
    <3>2. CASE Creates
      BY <1>1, <2>3, <3>2, CreationChanges, WatchCreation
    <3> QED
      BY <3>1, <3>2
  <2>4. CASE HandleCreateWorldEntity
    BY <1>1, <1>2, <2>4, CreateWorldEntityKeeps DEF HandleCreateWorldEntity, worldVars
  <2>5. CASE HandleRemoveEntity
    BY <1>1, <1>2, <2>5, RemoveEntitySteady DEF HandleRemoveEntity, worldVars
  <2> QED
    BY <1>6, <2>1, <2>2, <2>3, <2>4, <2>5 DEF GlobalStep
<1>7. ASSUME NEW i \in Instances, SpatialStep(i) PROVE WatchInv'
  <2>1. UNCHANGED <<serverConnections, creating>>
    BY <1>7 DEF SpatialStep, AddToData, RemoveFromData, HandleCreateEntity, HandleSpawn, HandleDestroy,
       HandleInterest, HandleSub, HandleUnsub, SpatialTick, Take, worldVars
  <2>2. CASE HandleCreateEntity(i)
    BY <1>1, <1>2, <2>1, <2>2, CreateEntityKeeps
  <2>3. CASE HandleSpawn(i)
    BY <1>1, <1>2, <2>1, <2>3, SpawnKeeps
  <2>4. CASE ~HandleCreateEntity(i) /\ ~HandleSpawn(i)
    <3>1. Steady /\ SubsKept
      BY <1>1, <1>7, <2>4, DataSteady, DestroySteady, InterestSteady, SubSteady, SpatialTickSteady
         DEF SpatialStep
    <3> QED
      BY <1>2, <2>1, <3>1
  <2> QED
    BY <2>2, <2>3, <2>4
<1>8. ASSUME NEW e \in Entities, EntityStep(e) PROVE WatchInv'
  <2>1. UNCHANGED <<serverConnections, creating>>
    BY <1>8 DEF EntityStep, HandleUpdate, SetObjRef, HandleAddGroup, HandleRemoveGroup, EntityTick,
       Entered, NotifyStep, NotifyOwners, NotifyRemove, NotifyAdd, NotifyReturns, NotifySubscribe,
       NotifyVars, worldVars
  <2>2. CASE NotifyOwners(e)
    BY <1>1, <1>2, <2>1, <2>2, NotifyOwnersKeeps
  <2>3. CASE NotifyRemove(e)
    BY <1>1, <1>2, <2>1, <2>3, NotifyRemoveKeeps
  <2>4. CASE NotifyAdd(e)
    BY <1>1, <1>2, <2>1, <2>4, NotifyAddKeeps
  <2>5. CASE NotifyReturns(e)
    BY <1>1, <1>2, <2>1, <2>5, NotifyReturnsKeeps
  <2>6. CASE \E c \in Conns : NotifySubscribe(e, c)
    BY <1>1, <1>2, <2>1, <2>6, NotifySubscribeKeeps
  <2>7. CASE HandleUpdate(e) /\ MayUpdate(entity[e], NextOf(e).from)
    BY <1>1, <1>2, <2>1, <2>7, MergeKeeps
  <2>8. CASE \/ SetObjRef(e) \/ HandleAddGroup(e) \/ HandleRemoveGroup(e)
             \/ HandleUpdate(e) /\ ~MayUpdate(entity[e], NextOf(e).from)
    BY <1>1, <1>2, <2>1, <2>8, InboxSteady
  <2>9. CASE EntityTick(e)
    BY <1>1, <1>2, <2>1, <2>9, EntityTickSteady
  <2> QED
    BY <1>8, <2>2, <2>3, <2>4, <2>5, <2>6, <2>7, <2>8, <2>9 DEF EntityStep, NotifyStep
<1> QED
  BY <1>3, <1>4, <1>5, <1>6, <1>7, <1>8 DEF Next

\* For every grid and any number of servers, however they close, are forgotten and
\* replaced by others that create their channels again: once every index belongs to a
\* live server, each is subscribed to its own channels and to those on its border, as
\* long as the border is not wider than a server's grids.
THEOREM BordersAreWatched == Spec => []ServersWatchTheirBorders
<1>1. Init => WorldInv /\ WatchInv
  BY InitWorld, InitWatch
<1>2. WorldInv /\ WatchInv /\ [Next]_vars => WorldInv' /\ WatchInv'
  <2>1. ASSUME WorldInv, WatchInv, [Next]_vars PROVE WorldInv' /\ WatchInv'
    <3>1. WorldInv'
      BY <2>1, WorldStep
    <3>2. TypeInv'
      BY <3>1 DEF WorldInv
    <3> QED
      BY <2>1, <3>1, <3>2, WatchStep
  <2> QED
    BY <2>1
<1>3. WorldInv /\ WatchInv => ServersWatchTheirBorders
  <2> SUFFICES ASSUME WorldInv, WatchInv, creating = NoConn, FreeIndexes(serverConnections) = {},
                      NEW i \in ServerIndexes(grid),
                      ~(grid.border > ServerGridCols(grid)), ~(grid.border > ServerGridRows(grid)),
                      NEW c \in NearBy(i)
               PROVE  Exists(c) /\ serverConnections[i] \in spatial[Current(c)].subs
    BY DEF ServersWatchTheirBorders
  <2>1. TypeInv /\ grid \in Grids
    BY CellsInTable DEF WorldInv, TypeInv, GridInv
  <2>2. Narrow(grid)
    BY <2>1, ServerPlace DEF Narrow, Grids
  <2>3. Complete
    BY <2>1 DEF FreeIndexes, Complete, TypeInv, GridInv
  <2>4. Installed(i) /\ Watches(i) /\ Live(serverConnections[i])
    BY <2>2, <2>3 DEF WatchInv, Complete
  <2>5. c \in ChannelsOfServer(grid, i) \cup BorderOf(grid, i)
    BY <2>1, NearIsWatched
  <2> QED
    BY <2>4, <2>5 DEF Installed, Watches, Live
<1> QED
  BY <1>1, <1>2, <1>3, PTL DEF Spec

-----------------------------------------------------------------------------
(* Clients' interest: what they will be subscribed to.                       *)

ClientMessage(m, c) == m.type \in {"sub", "unsub"} /\ m.client = c

\* After position n of the queue a subscription message for client c waits.
AskedAfter(q, n, c) == \E k \in DOMAIN q : k > n /\ ClientMessage(q[k], c)
AskWaits(q, c)      == AskedAfter(q, 0, c)

\* Client c will be subscribed when everything that waits was done.
WillWatch(S, q, c) ==
  \/ c \in S /\ ~AskedAfter(q, 0, c)
  \/ \E n \in DOMAIN q : ClientMessage(q[n], c) /\ q[n].type = "sub" /\ ~AskedAfter(q, n, c)

\* The last message for a client decides, and messages for others do not.
LEMMA AskAppended ==
  ASSUME NEW q, IsQueue(q), NEW S, NEW m, NEW c
  PROVE  /\ ClientMessage(m, c) /\ m.type = "sub" => WillWatch(S, Append(q, m), c)
         /\ ClientMessage(m, c) /\ m.type # "sub" => ~WillWatch(S, Append(q, m), c)
         /\ ~ClientMessage(m, c) => (WillWatch(S, Append(q, m), c) <=> WillWatch(S, q, c))
         /\ AskWaits(Append(q, m), c) => AskWaits(q, c) \/ ClientMessage(m, c)
<1> DEFINE r == Append(q, m)
           last == Len(q) + 1
<1>1. /\ Len(q) \in Nat /\ DOMAIN q = 1..Len(q) /\ DOMAIN r = DOMAIN q \cup {last}
      /\ \A k \in DOMAIN q : r[k] = q[k] /\ k < last /\ k \in Nat /\ k > 0
      /\ r[last] = m /\ last \in Nat /\ last > 0
  BY AppendedWork
<1> HIDE DEF r, last
<1> HIDE DEF ClientMessage
<1>2. ASSUME NEW n \in DOMAIN q \cup {0}
      PROVE  AskedAfter(r, n, c) <=> AskedAfter(q, n, c) \/ ClientMessage(m, c)
  <2>1. n < last
    BY <1>1
  <2> QED
    BY <1>1, <2>1 DEF AskedAfter
<1>3. ~AskedAfter(r, last, c)
  BY <1>1 DEF AskedAfter
<1>4. \A n \in DOMAIN q : r[n] = q[n]
  BY <1>1
<1>5. ASSUME ClientMessage(m, c), m.type = "sub" PROVE WillWatch(S, r, c)
  BY <1>1, <1>3, <1>5 DEF WillWatch
<1>6. ASSUME ClientMessage(m, c), m.type # "sub" PROVE ~WillWatch(S, r, c)
  BY <1>1, <1>2, <1>6 DEF WillWatch
<1>7. ASSUME ~ClientMessage(m, c) PROVE WillWatch(S, r, c) <=> WillWatch(S, q, c)
  BY <1>1, <1>2, <1>4, <1>7 DEF WillWatch
<1>8. AskWaits(r, c) => AskWaits(q, c) \/ ClientMessage(m, c)
  BY <1>2 DEF AskWaits
<1> QED
  BY <1>5, <1>6, <1>7, <1>8 DEF r

\* Doing what waits first does not change what the client will be subscribed to.
LEMMA AskTaken ==
  ASSUME NEW q, IsQueue(q), q # <<>>, NEW S, NEW c
  PROVE  /\ AskWaits(Tail(q), c) => AskWaits(q, c)
         /\ ClientMessage(Head(q), c) /\ Head(q).type = "sub" =>
              (WillWatch(S \cup {c}, Tail(q), c) <=> WillWatch(S, q, c))
         /\ ClientMessage(Head(q), c) /\ Head(q).type # "sub" =>
              (WillWatch(S \ {c}, Tail(q), c) <=> WillWatch(S, q, c))
         /\ ~ClientMessage(Head(q), c) => (WillWatch(S, Tail(q), c) <=> WillWatch(S, q, c))
<1> DEFINE r == Tail(q)
<1>1. /\ Len(q) \in Nat /\ Len(q) > 0 /\ DOMAIN q = 1..Len(q) /\ DOMAIN r = 1..(Len(q) - 1)
      /\ Head(q) = q[1]
      /\ \A k \in DOMAIN r : k + 1 \in DOMAIN q /\ r[k] = q[k + 1]
  BY TailOfWork
<1>2. \A k \in DOMAIN q : k = 1 \/ (k - 1 \in DOMAIN r /\ q[k] = r[k - 1])
  BY <1>1
<1> HIDE DEF r
<1> HIDE DEF ClientMessage
<1>3. ASSUME NEW n \in DOMAIN r \cup {0}
      PROVE  AskedAfter(r, n, c) <=> AskedAfter(q, n + 1, c)
  <2>1. ASSUME NEW k \in DOMAIN r, k > n PROVE k + 1 \in DOMAIN q /\ k + 1 > n + 1 /\ q[k + 1] = r[k]
    BY <1>1, <2>1
  <2>2. ASSUME NEW k \in DOMAIN q, k > n + 1
        PROVE  k - 1 \in DOMAIN r /\ k - 1 > n /\ q[k] = r[k - 1]
    BY <1>1, <1>2, <2>2
  <2>3. AskedAfter(r, n, c) => AskedAfter(q, n + 1, c)
    BY <2>1 DEF AskedAfter
  <2>4. AskedAfter(q, n + 1, c) => AskedAfter(r, n, c)
    BY <2>2 DEF AskedAfter
  <2> QED
    BY <2>3, <2>4
<1>4. AskedAfter(q, 0, c) <=> AskedAfter(q, 1, c) \/ ClientMessage(q[1], c)
  <2>1. \A k \in DOMAIN q : k > 0 <=> k > 1 \/ k = 1
    BY <1>1
  <2>2. 1 \in DOMAIN q
    BY <1>1
  <2> QED
    BY <2>1, <2>2 DEF AskedAfter
<1>5. AskedAfter(r, 0, c) <=> AskedAfter(q, 1, c)
  BY <1>3
<1> DEFINE Later(p, n) == ClientMessage(p[n], c) /\ p[n].type = "sub" /\ ~AskedAfter(p, n, c)
<1>6. (\E n \in DOMAIN q : Later(q, n)) <=> Later(q, 1) \/ \E n \in DOMAIN r : Later(r, n)
  <2>1. ASSUME NEW n \in DOMAIN r PROVE n + 1 \in DOMAIN q /\ (Later(q, n + 1) <=> Later(r, n))
    BY <1>1, <1>3
  <2>2. ASSUME NEW n \in DOMAIN q, n # 1 PROVE n - 1 \in DOMAIN r /\ (Later(q, n) <=> Later(r, n - 1))
    <3>1. n - 1 \in DOMAIN r /\ q[n] = r[n - 1] /\ (n - 1) + 1 = n
      BY <1>1, <1>2, <2>2
    <3> QED
      BY <1>3, <3>1
  <2>3. 1 \in DOMAIN q
    BY <1>1
  <2> HIDE DEF Later
  <2> QED
    BY <2>1, <2>2, <2>3
<1>7. WillWatch(S, q, c) <=> (c \in S /\ ~AskedAfter(q, 0, c)) \/ Later(q, 1) \/ \E n \in DOMAIN r : Later(r, n)
  BY <1>6 DEF WillWatch
<1>8. \A T : WillWatch(T, r, c) <=> (c \in T /\ ~AskedAfter(q, 1, c)) \/ \E n \in DOMAIN r : Later(r, n)
  BY <1>5 DEF WillWatch
<1>9. Later(q, 1) <=> ClientMessage(Head(q), c) /\ Head(q).type = "sub" /\ ~AskedAfter(q, 1, c)
  BY <1>1
<1>10. AskedAfter(q, 0, c) <=> AskedAfter(q, 1, c) \/ ClientMessage(Head(q), c)
  BY <1>1, <1>4
<1>11. AskWaits(r, c) => AskWaits(q, c)
  BY <1>4, <1>5 DEF AskWaits
<1> HIDE DEF Later
<1>12. ASSUME ClientMessage(Head(q), c), Head(q).type = "sub"
       PROVE  WillWatch(S \cup {c}, r, c) <=> WillWatch(S, q, c)
  BY <1>7, <1>8, <1>9, <1>10, <1>12
<1>13. ASSUME ClientMessage(Head(q), c), Head(q).type # "sub"
       PROVE  WillWatch(S \ {c}, r, c) <=> WillWatch(S, q, c)
  BY <1>7, <1>8, <1>9, <1>10, <1>13
<1>14. ASSUME ~ClientMessage(Head(q), c) PROVE WillWatch(S, r, c) <=> WillWatch(S, q, c)
  BY <1>7, <1>8, <1>9, <1>10, <1>14
<1> QED
  BY <1>11, <1>12, <1>13, <1>14 DEF r

\* Other subscribers do not matter.
LEMMA OwnSubscription ==
  ASSUME NEW S, NEW T, NEW q, NEW c, c \in T <=> c \in S
  PROVE  WillWatch(T, q, c) <=> WillWatch(S, q, c)
BY DEF WillWatch

\* When no message waits the subscriptions are what they will be.
LEMMA NothingAsked ==
  ASSUME NEW S, NEW q, IsQueue(q), NEW c, ~AskWaits(q, c)
  PROVE  WillWatch(S, q, c) <=> c \in S
<1>1. \A k \in DOMAIN q : k > 0
  BY AppendedWork
<1>2. \A k \in DOMAIN q : ~ClientMessage(q[k], c)
  BY <1>1 DEF AskWaits, AskedAfter
<1> QED
  BY <1>2 DEF WillWatch, AskedAfter

-----------------------------------------------------------------------------
(* Tables.                                                                   *)

WatchesIn(S, i, c) == WillWatch(S[i].subs, S[i].queue, c)

\* What client c is and will be subscribed to is the same, and no message is added.
WatchKept(S, T, c) == \A i \in Instances :
  /\ c \in T[i].subs => c \in S[i].subs
  /\ WatchesIn(T, i, c) <=> WatchesIn(S, i, c)
  /\ AskWaits(T[i].queue, c) => AskWaits(S[i].queue, c)

LEMMA SameWatch ==
  ASSUME NEW S, NEW T, NEW c, SameQueues(S, T),
         \A i \in Instances : c \in T[i].subs <=> c \in S[i].subs
  PROVE  WatchKept(S, T, c)
<1>1. ASSUME NEW i \in Instances
      PROVE  /\ c \in T[i].subs => c \in S[i].subs
             /\ WatchesIn(T, i, c) <=> WatchesIn(S, i, c)
             /\ AskWaits(T[i].queue, c) => AskWaits(S[i].queue, c)
  <2>1. T[i].queue = S[i].queue
    BY DEF SameQueues
  <2>2. WillWatch(T[i].subs, S[i].queue, c) <=> WillWatch(S[i].subs, S[i].queue, c)
    BY OwnSubscription
  <2> QED
    BY <2>1, <2>2 DEF WatchesIn
<1> QED
  BY <1>1 DEF WatchKept

LEMMA WatchKeptTwice ==
  ASSUME NEW S, NEW T, NEW U, NEW c, WatchKept(S, T, c), WatchKept(T, U, c)
  PROVE  WatchKept(S, U, c)
BY DEF WatchKept

LEMMA QueuedWatch ==
  ASSUME NEW S, ChannelsOK(S), NEW i \in Instances, NEW m, NEW c, ~ClientMessage(m, c),
         NEW T, QueueSet(S, T, i, Append(S[i].queue, m))
  PROVE  WatchKept(S, T, c)
<1>1. IsQueue(S[i].queue)
  BY DEF ChannelsOK, ChannelOK
<1>2. ASSUME NEW j \in Instances
      PROVE  /\ c \in T[j].subs => c \in S[j].subs
             /\ WatchesIn(T, j, c) <=> WatchesIn(S, j, c)
             /\ AskWaits(T[j].queue, c) => AskWaits(S[j].queue, c)
  <2>1. T[j].subs = S[j].subs /\ T[j].queue = IF j = i THEN Append(S[i].queue, m) ELSE S[j].queue
    BY DEF QueueSet, SameSubs
  <2>2. /\ WillWatch(S[i].subs, Append(S[i].queue, m), c) <=> WillWatch(S[i].subs, S[i].queue, c)
        /\ AskWaits(Append(S[i].queue, m), c) => AskWaits(S[i].queue, c)
    BY <1>1, AskAppended
  <2> QED
    BY <2>1, <2>2 DEF WatchesIn
<1> QED
  BY <1>2 DEF WatchKept

LEMMA TakenWatch ==
  ASSUME TypeInv, NEW i \in Instances, NEW type, Take(i, type), NEW c, ~ClientMessage(FirstOf(i), c)
  PROVE  WatchKept(spatial, Taken(i), c)
<1> DEFINE q == spatial[i].queue
           S == Taken(i)
<1>1. QueueSet(spatial, S, i, Tail(q))
  BY SpatialTaken
<1>2. IsQueue(q) /\ q # <<>> /\ ~ClientMessage(Head(q), c)
  BY DEF TypeInv, ChannelsOK, ChannelOK, Take, FirstOf
<1> HIDE DEF S
<1>3. ASSUME NEW j \in Instances
      PROVE  /\ c \in S[j].subs => c \in spatial[j].subs
             /\ WatchesIn(S, j, c) <=> WatchesIn(spatial, j, c)
             /\ AskWaits(S[j].queue, c) => AskWaits(spatial[j].queue, c)
  <2>1. S[j].subs = spatial[j].subs /\ S[j].queue = IF j = i THEN Tail(q) ELSE spatial[j].queue
    BY <1>1 DEF QueueSet, SameSubs
  <2>2. /\ WillWatch(spatial[i].subs, Tail(q), c) <=> WillWatch(spatial[i].subs, q, c)
        /\ AskWaits(Tail(q), c) => AskWaits(q, c)
    BY <1>2, AskTaken
  <2> QED
    BY <2>1, <2>2 DEF WatchesIn
<1> QED
  BY <1>3 DEF WatchKept, S

-----------------------------------------------------------------------------
(* The invariant.                                                            *)

\* What a client's latest query answered: only channels that existed, and they are, or
\* will be when their messages were handled, its subscriptions.
Answered(c) ==
  LET q == asked[c].query
      R == QueryChannelIds(grid, q)
  IN /\ q \in Queries /\ ~QueryFails(grid, q)
     /\ \A x \in asked[c].among : x \in Cells /\ current[x] > 0
     /\ c \notin overlapped \/ (\E i : via[c] = {i}) =>
          \A i \in Instances : Born(i) /\ i[1] \in R \cap asked[c].among => WatchesIn(spatial, i, c)
     /\ c \notin overlapped => \A i \in Instances : WatchesIn(spatial, i, c) => i[1] \in R

\* A client knows of its subscriptions, its messages come from other channels, and its
\* latest query was answered.
Followed(c) ==
  /\ \A i \in Instances : c \in spatial[i].subs => i[1] \in interest[c]
  /\ \A i \in Instances : AskWaits(spatial[i].queue, c) => \E j \in via[c] : j # i
  /\ IsFiniteSet(via[c])
  /\ asked[c] = NoQuery \/ Answered(c)

InterestInv ==
  /\ asked = [c \in Clients |-> asked[c]] /\ via = [c \in Clients |-> via[c]]
  /\ ~Replaced => \A c \in Clients \ closing : Followed(c)

\* Whatever a step does to subscriptions, what client c will be subscribed to is kept.
AskKept(c) ==
  /\ scenario' = scenario /\ current' = current
  /\ asked'[c] = asked[c] /\ via'[c] = via[c] /\ (c \in overlapped' <=> c \in overlapped)
  /\ \A i \in Instances : WatchesIn(spatial', i, c) <=> WatchesIn(spatial, i, c)
  /\ \A i \in Instances : AskWaits(spatial'[i].queue, c) => AskWaits(spatial[i].queue, c)

\* Steps that are not about client c.
ClientKept(c) ==
  /\ scenario' = scenario /\ current' = current
  /\ asked'[c] = asked[c] /\ via'[c] = via[c] /\ (c \in overlapped' <=> c \in overlapped)
  /\ interest'[c] = interest[c]
  /\ WatchKept(spatial, spatial', c)

LEMMA AnsweredStays ==
  ASSUME NEW c \in Clients, Followed(c), AskKept(c),
         \A i \in Instances : c \in spatial'[i].subs => i[1] \in interest'[c]
  PROVE  Followed(c)'
<1>1. /\ grid' = grid /\ Cells' = Cells
      /\ \A i : Born(i)' <=> Born(i)
  BY SameWorld DEF AskKept
<1>2. /\ asked'[c] = asked[c] /\ via'[c] = via[c] /\ (c \in overlapped' <=> c \in overlapped)
      /\ current' = current
      /\ \A i \in Instances : WatchesIn(spatial', i, c) <=> WatchesIn(spatial, i, c)
      /\ \A i \in Instances : AskWaits(spatial'[i].queue, c) => AskWaits(spatial[i].queue, c)
  BY DEF AskKept
<1>3. Answered(c) => Answered(c)'
  <2>1. \A i \in Instances : WatchesIn(spatial, i, c)' <=> WatchesIn(spatial, i, c)
    BY <1>2 DEF WatchesIn
  <2> QED
    BY <1>1, <1>2, <2>1 DEF Answered
<1>4. \A i \in Instances : AskWaits(spatial[i].queue, c)' <=> AskWaits(spatial'[i].queue, c)
  OBVIOUS
<1> QED
  BY <1>2, <1>3, <1>4 DEF Followed

LEMMA FollowedStays ==
  ASSUME NEW c \in Clients, Followed(c), ClientKept(c)
  PROVE  Followed(c)'
<1>1. AskKept(c)
  BY DEF ClientKept, AskKept, WatchKept
<1>2. \A i \in Instances : c \in spatial'[i].subs => i[1] \in interest'[c]
  BY DEF ClientKept, WatchKept, Followed
<1> QED
  BY <1>1, <1>2, AnsweredStays

-----------------------------------------------------------------------------
(* The steps that are not about clients.                                     *)

\* No client asks, and none is subscribed.
ClientsQuiet ==
  /\ scenario' = scenario /\ current' = current /\ closing \subseteq closing'
  /\ asked' = asked /\ via' = via /\ overlapped' = overlapped
  /\ \A c \in Clients : interest'[c] = interest[c]
  /\ \A c \in Clients \ closing : WatchKept(spatial, spatial', c)

LEMMA QuietStays ==
  ASSUME InterestInv, ClientsQuiet
  PROVE  InterestInv'
<1>1. Replaced' <=> Replaced
  BY WorldNames DEF ClientsQuiet
<1>2. ASSUME ~Replaced, NEW c \in Clients \ closing' PROVE Followed(c)'
  <2>1. c \in Clients \ closing /\ Followed(c)
    BY <1>2 DEF ClientsQuiet, InterestInv
  <2>2. ClientKept(c)
    BY <2>1 DEF ClientsQuiet, ClientKept
  <2> QED
    BY <2>1, <2>2, FollowedStays
<1> QED
  BY <1>1, <1>2 DEF InterestInv, ClientsQuiet

\* The spatial channels are not touched.
LEMMA SameChannelsQuiet ==
  ASSUME scenario' = scenario, current' = current, closing \subseteq closing', spatial' = spatial,
         interest' = interest, asked' = asked, via' = via, overlapped' = overlapped
  PROVE  ClientsQuiet
<1>1. ASSUME NEW c PROVE WatchKept(spatial, spatial', c)
  BY DEF WatchKept
<1> QED
  BY <1>1 DEF ClientsQuiet

\* A message or a callback that is no subscription.
LEMMA QueuedQuiet ==
  ASSUME TypeInv, NEW i \in Instances, NEW m, m.type \notin {"sub", "unsub"},
         scenario' = scenario, current' = current, closing' = closing,
         interest' = interest, asked' = asked, via' = via, overlapped' = overlapped,
         spatial' = Execute(spatial, i, m)
  PROVE  ClientsQuiet
<1>1. QueueSet(spatial, spatial', i, Append(spatial[i].queue, m))
  BY ExecuteChanges DEF TypeInv, ChannelsOK
<1>2. ASSUME NEW c PROVE WatchKept(spatial, spatial', c)
  <2>1. ~ClientMessage(m, c)
    BY DEF ClientMessage
  <2> QED
    BY <1>1, <2>1, QueuedWatch DEF TypeInv
<1> QED
  BY <1>2 DEF ClientsQuiet

LEMMA SendQuiet ==
  ASSUME TypeInv, NEW s \in Senders, Send(s)
  PROVE  ClientsQuiet
<1> DEFINE m == Head(sends[s])
           put == Delivered(s, m)
<1>1. /\ scenario' = scenario /\ current' = current /\ closing' = closing
      /\ interest' = interest /\ asked' = asked /\ via' = via /\ overlapped' = overlapped
  BY DEF Send, worldVars, historyVars
<1>2. sends[s] \in Seq(Range(scenario.sends[s])) /\ sends[s] # <<>>
  BY DEF TypeInv, SendersOK, Send
<1>3. m \in Range(scenario.sends[s])
  BY <1>2, HeadAndTail
<1>4. m.kind = "spatial" => m.ch \in Cells /\ put.type \notin {"sub", "unsub"}
  BY <1>3, MessageTypes, NoCallbackSent DEF TypeInv, GridInv
<1>5. spatial' = IF m.kind = "spatial" /\ Exists(m.ch) THEN Execute(spatial, Current(m.ch), put)
                 ELSE spatial
  BY DEF Send
<1> HIDE DEF m, put
<1>6. CASE m.kind = "spatial" /\ Exists(m.ch)
  <2>1. Current(m.ch) \in Instances
    BY <1>4, <1>6, CurrentBorn DEF TypeInv
  <2> QED
    BY <1>1, <1>4, <1>5, <1>6, <2>1, QueuedQuiet
<1>7. CASE ~(m.kind = "spatial" /\ Exists(m.ch))
  BY <1>1, <1>5, <1>7, SameChannelsQuiet
<1> QED
  BY <1>6, <1>7

LEMMA SubscribeCreatedQuiet ==
  ASSUME TypeInv, SubscribeCreated
  PROVE  ClientsQuiet
<1>1. /\ SameQueues(spatial, spatial')
      /\ \A i \in Instances : spatial'[i].subs \in {spatial[i].subs, spatial[i].subs \cup {creating}}
      /\ \A c \in Conns \ {creating} : interest'[c] = interest[c]
  BY SubscribeCreatedChanges
<1>2. creating \in Servers
  BY DEF SubscribeCreated, TypeInv, ServersOK
<1>3. ASSUME NEW c \in Clients PROVE interest'[c] = interest[c] /\ WatchKept(spatial, spatial', c)
  <2>1. c # creating /\ c \in Conns
    BY <1>2, HandoverAssumption, Kinds
  <2>2. \A i \in Instances : c \in spatial'[i].subs <=> c \in spatial[i].subs
    BY <1>1, <2>1
  <2> QED
    BY <1>1, <2>1, <2>2, SameWatch
<1>4. /\ scenario' = scenario /\ current' = current /\ closing' = closing
      /\ asked' = asked /\ via' = via /\ overlapped' = overlapped
  BY DEF SubscribeCreated, historyVars
<1> QED
  BY <1>3, <1>4 DEF ClientsQuiet

LEMMA WorldEntityQuiet ==
  ASSUME TypeInv, HandleCreateWorldEntity
  PROVE  ClientsQuiet
<1> DEFINE m == Head(globalQueue)
           c == CellOfPos(m.pos)
           add == Callback("add", {m.entity})
<1>1. /\ scenario' = scenario /\ current' = current /\ closing' = closing
      /\ interest' = interest /\ asked' = asked /\ via' = via /\ overlapped' = overlapped
  BY DEF HandleCreateWorldEntity, TakeGlobal, worldVars
<1>2. m.pos \in Positions
  <2>1. TakeGlobal("createEntity")
    BY DEF HandleCreateWorldEntity
  <2>2. GlobalWork(m) /\ m.type = "createEntity"
    BY <2>1, GlobalTaken DEF TypeInv
  <2> QED
    BY <2>2 DEF GlobalWork
<1>3. spatial' = spatial \/ (Exists(c) /\ spatial' = Execute(spatial, Current(c), add))
  BY DEF HandleCreateWorldEntity, CreateWorldEntity
<1>4. Exists(c) => Current(c) \in Instances
  <2>1. c \in Cells \cup {NoCell}
    BY <1>2, PositionsArePoints, PointCell DEF TypeInv, GridInv
  <2> QED
    BY <2>1, CurrentBorn DEF TypeInv, Exists
<1>5. add.type \notin {"sub", "unsub"}
  BY DEF Callback
<1> HIDE DEF m, c, add
<1> QED
  BY <1>1, <1>3, <1>4, <1>5, QueuedQuiet, SameChannelsQuiet

\* A step of a spatial channel that takes a message which is no subscription, and
\* changes at most the data, or puts a callback in another queue.
LEMMA TakenQuiet ==
  ASSUME TypeInv, NEW i \in Instances, NEW type, Take(i, type), type \notin {"sub", "unsub"},
         interest' = interest, asked' = asked, via' = via, overlapped' = overlapped,
         \/ spatial' = Taken(i)
         \/ \E v : spatial' = [Taken(i) EXCEPT ![i].entities = v]
         \/ \E j \in Instances : \E m : /\ m.type \notin {"sub", "unsub"}
                                      /\ spatial' = Execute(Taken(i), j, m)
  PROVE  ClientsQuiet
<1> DEFINE S == Taken(i)
<1>1. /\ ChannelsOK(S) /\ Channels(S) /\ FirstOf(i).type = type
      /\ scenario' = scenario /\ current' = current /\ closing' = closing
  BY SpatialTaken
<1>2. ASSUME NEW c PROVE WatchKept(spatial, S, c)
  <2>1. ~ClientMessage(FirstOf(i), c)
    BY <1>1 DEF ClientMessage
  <2> QED
    BY <2>1, TakenWatch
<1> HIDE DEF S
<1>3. ASSUME NEW c PROVE WatchKept(S, spatial', c)
  <2>1. CASE spatial' = S
    BY <2>1 DEF WatchKept
  <2>2. ASSUME NEW v, spatial' = [S EXCEPT ![i].entities = v] PROVE WatchKept(S, spatial', c)
    <3>1. DataSet(S, spatial', i, v)
      BY <1>1, <2>2, EntitiesChanged
    <3> QED
      BY <3>1, SameWatch DEF DataSet, SameSubs
  <2>3. ASSUME NEW j \in Instances, NEW m, m.type \notin {"sub", "unsub"},
               spatial' = Execute(S, j, m)
        PROVE  WatchKept(S, spatial', c)
    <3>1. QueueSet(S, spatial', j, Append(S[j].queue, m))
      BY <1>1, <2>3, ExecuteChanges
    <3>2. ~ClientMessage(m, c)
      BY <2>3 DEF ClientMessage
    <3> QED
      BY <1>1, <3>1, <3>2, QueuedWatch
  <2> QED
    BY <2>1, <2>2, <2>3 DEF S
<1>4. ASSUME NEW c PROVE WatchKept(spatial, spatial', c)
  BY <1>2, <1>3, WatchKeptTwice
<1> QED
  BY <1>1, <1>4 DEF ClientsQuiet

LEMMA SpatialQuiet ==
  ASSUME TypeInv, NEW i \in Instances,
         \/ AddToData(i) \/ RemoveFromData(i) \/ HandleCreateEntity(i)
         \/ HandleSpawn(i) \/ HandleDestroy(i)
  PROVE  ClientsQuiet
<1>1. CASE AddToData(i) \/ RemoveFromData(i)
  <2>1. \E v : spatial' = [Taken(i) EXCEPT ![i].entities = v]
    BY <1>1 DEF AddToData, RemoveFromData
  <2>2. interest' = interest /\ asked' = asked /\ via' = via /\ overlapped' = overlapped
    BY <1>1 DEF AddToData, RemoveFromData, historyVars
  <2>3. Take(i, "add") \/ Take(i, "remove")
    BY <1>1 DEF AddToData, RemoveFromData
  <2> QED
    BY <2>1, <2>2, <2>3, TakenQuiet
<1>2. CASE HandleCreateEntity(i)
  BY <1>2, TakenQuiet DEF HandleCreateEntity
<1>3. CASE HandleDestroy(i)
  <2>1. \E v : spatial' = [Taken(i) EXCEPT ![i].entities = v]
    BY <1>3 DEF HandleDestroy
  <2> QED
    BY <1>3, <2>1, TakenQuiet DEF HandleDestroy
<1>4. CASE HandleSpawn(i)
  <2> DEFINE m == FirstOf(i)
             c == CellOfPos(m.pos)
             add == Callback("add", {m.entity})
  <2>1. Take(i, "spawn") /\ interest' = interest /\ asked' = asked /\ via' = via
        /\ overlapped' = overlapped
    BY <1>4 DEF HandleSpawn
  <2>2. m.pos \in Points
    BY <2>1, SpatialTaken DEF SpatialWork
  <2>3. Exists(c) => Current(c) \in Instances
    BY <2>2, PointCell, CurrentBorn DEF TypeInv, GridInv, Exists
  <2>4. \/ spatial' = Taken(i)
        \/ spatial' = [Taken(i) EXCEPT ![i].entities = Taken(i)[i].entities \cup {m.entity}]
        \/ Exists(c) /\ spatial' = Execute(Taken(i), Current(c), add)
    BY <1>4 DEF HandleSpawn, Spawn
  <2>5. add.type \notin {"sub", "unsub"}
    BY DEF Callback
  <2> HIDE DEF m, c, add
  <2> QED
    BY <2>1, <2>3, <2>4, <2>5, TakenQuiet
<1> QED
  BY <1>1, <1>2, <1>3, <1>4

LEMMA SpatialTickQuiet ==
  ASSUME TypeInv, NEW i \in Instances, SpatialTick(i)
  PROVE  ClientsQuiet
<1>1. /\ SameQueues(spatial, spatial')
      /\ \A j \in Instances : spatial'[j].subs =
           IF j = i THEN spatial[i].subs \ closing ELSE spatial[j].subs
  BY SpatialTickChanges DEF TypeInv, ChannelsOK
<1>2. /\ scenario' = scenario /\ current' = current /\ closing' = closing /\ interest' = interest
      /\ asked' = asked /\ via' = via /\ overlapped' = overlapped
  BY DEF SpatialTick, worldVars, historyVars
<1>3. ASSUME NEW c \in Clients \ closing PROVE WatchKept(spatial, spatial', c)
  <2>1. \A j \in Instances : c \in spatial'[j].subs <=> c \in spatial[j].subs
    BY <1>1
  <2> QED
    BY <1>1, <2>1, SameWatch
<1> QED
  BY <1>2, <1>3 DEF ClientsQuiet

LEMMA EntityQuiet ==
  ASSUME TypeInv, NEW e \in Entities, EntityStep(e)
  PROVE  ClientsQuiet
<1>1. /\ scenario' = scenario /\ current' = current /\ closing' = closing /\ interest' = interest
      /\ asked' = asked /\ via' = via /\ overlapped' = overlapped
  BY DEF EntityStep, HandleUpdate, SetObjRef, HandleAddGroup, HandleRemoveGroup, EntityTick,
     Entered, NotifyStep, NotifyOwners, NotifyRemove, NotifyAdd, NotifyReturns, NotifySubscribe,
     NotifyVars, worldVars, historyVars
<1>2. CASE NotifyRemove(e)
  <2> DEFINE m == Callback("remove", notify[e].entities)
  <2>1. notify[e].src \in Instances
    BY <1>2, NotifyFrame DEF NotifyStep
  <2>2. spatial' = Execute(spatial, notify[e].src, m)
    BY <1>2 DEF NotifyRemove
  <2>3. m.type \notin {"sub", "unsub"}
    BY DEF Callback
  <2> HIDE DEF m
  <2> QED
    BY <1>1, <2>1, <2>2, <2>3, QueuedQuiet
<1>3. CASE NotifyAdd(e)
  <2> DEFINE m == Callback("add", notify[e].data)
  <2>1. notify[e].dst \in Instances
    BY <1>3, NotifyFrame DEF NotifyStep
  <2>2. spatial' = Execute(spatial, notify[e].dst, m)
    BY <1>3 DEF NotifyAdd
  <2>3. m.type \notin {"sub", "unsub"}
    BY DEF Callback
  <2> HIDE DEF m
  <2> QED
    BY <1>1, <2>1, <2>2, <2>3, QueuedQuiet
<1>4. CASE ~NotifyRemove(e) /\ ~NotifyAdd(e)
  <2>1. spatial' = spatial
    BY <1>4 DEF EntityStep, HandleUpdate, SetObjRef, HandleAddGroup, HandleRemoveGroup, EntityTick,
       Entered, NotifyStep, NotifyOwners, NotifyReturns, NotifySubscribe, NotifyVars
  <2> QED
    BY <1>1, <2>1, SameChannelsQuiet
<1> QED
  BY <1>2, <1>3, <1>4

-----------------------------------------------------------------------------
(* The steps that are about clients, and the creation of channels.           *)

\* New channels have no clients; when they replace one that existed nothing is promised.
LEMMA CreationFollowed ==
  ASSUME TypeInv, TypeInv', HandleCreateSpatial, Creation, ~Replaced',
         NEW c \in Clients, Followed(c)
  PROVE  Followed(c)'
<1>1. /\ grid' = grid /\ Cells' = Cells
      /\ asked' = asked /\ via' = via /\ overlapped' = overlapped
  BY DEF HandleCreateSpatial, TakeGlobal, grid, Cells
<1>2. ASSUME NEW x \in Cells
      PROVE  /\ current[x] \in Nat
             /\ current'[x] = current[x] + (IF x \in Made THEN 1 ELSE 0)
  BY CellsInTable, HandoverAssumption DEF TypeInv, GridInv, Creation
<1>3. ASSUME NEW x PROVE c \notin NewSubscribers(x)
  <2>1. ASSUME NEW j \in NewSubscribed PROVE NewConns[j] # c
    <3>1. j \in ServerIndexes(grid) /\ Live(NewConns[j])
      BY DEF Creation
    <3>2. serverConnections'[j] \in Servers \cup {NoConn}
      BY <1>1, <3>1 DEF TypeInv, ServersOK
    <3> QED
      BY <3>1, <3>2, HandoverAssumption DEF Creation, Live
  <2> QED
    BY <2>1 DEF NewSubscribers
<1>4. ASSUME NEW i \in Instances
      PROVE  /\ c \in spatial'[i].subs => c \in spatial[i].subs
             /\ WatchesIn(spatial', i, c) => WatchesIn(spatial, i, c)
             /\ ~NewInstance(i) => (WatchesIn(spatial', i, c) <=> WatchesIn(spatial, i, c))
             /\ AskWaits(spatial'[i].queue, c) => AskWaits(spatial[i].queue, c)
  <2>1. /\ spatial'[i].subs = (IF NewInstance(i) THEN {} ELSE spatial[i].subs)
                              \cup (IF NewestOfCell(i) THEN NewSubscribers(i[1]) ELSE {})
        /\ spatial'[i].queue = IF NewInstance(i) THEN <<>> ELSE spatial[i].queue
    BY DEF Creation
  <2>2. c \notin NewSubscribers(i[1])
    BY <1>3
  <2>3. CASE NewInstance(i)
    <3>1. c \notin spatial'[i].subs /\ spatial'[i].queue = <<>>
      BY <2>1, <2>2, <2>3
    <3>2. ~AskWaits(<<>>, c)
      BY NoWork DEF AskWaits, AskedAfter
    <3>3. ~WatchesIn(spatial', i, c)
      BY <3>1, NoWork DEF WatchesIn, WillWatch
    <3> QED
      BY <2>3, <3>1, <3>2, <3>3
  <2>4. CASE ~NewInstance(i)
    <3>1. spatial'[i].queue = spatial[i].queue /\ (c \in spatial'[i].subs <=> c \in spatial[i].subs)
      BY <2>1, <2>2, <2>4
    <3>2. WatchesIn(spatial', i, c) <=> WatchesIn(spatial, i, c)
      BY <3>1, OwnSubscription DEF WatchesIn
    <3> QED
      BY <3>1, <3>2
  <2> QED
    BY <2>3, <2>4
<1>5. interest[c] \subseteq interest'[c]
  BY Kinds DEF Creation
<1>6. ASSUME Answered(c), NEW i \in Instances, i[1] \in asked[c].among, Born(i)'
      PROVE  Born(i) /\ ~NewInstance(i)
  <2>1. i[1] \in Cells /\ current[i[1]] > 0
    BY <1>6 DEF Answered
  <2>2. ~(current'[i[1]] > 1)
    BY <1>1, <2>1 DEF Replaced
  <2>3. i[1] \notin Made
    BY <1>2, <2>1, <2>2
  <2>4. current'[i[1]] = current[i[1]]
    BY <1>2, <2>1, <2>3
  <2> QED
    BY <1>1, <1>6, <2>3, <2>4 DEF Born, NewInstance
<1>7. \A i \in Instances : WatchesIn(spatial, i, c)' <=> WatchesIn(spatial', i, c)
  BY DEF WatchesIn
<1>8. ASSUME Answered(c) PROVE Answered(c)'
  <2> DEFINE q == asked[c].query
             R == QueryChannelIds(grid, q)
  <2>1. /\ q \in Queries /\ ~QueryFails(grid, q)
        /\ \A x \in asked[c].among : x \in Cells /\ current[x] > 0
        /\ c \notin overlapped \/ (\E i : via[c] = {i}) =>
             \A i \in Instances : Born(i) /\ i[1] \in R \cap asked[c].among => WatchesIn(spatial, i, c)
        /\ c \notin overlapped => \A i \in Instances : WatchesIn(spatial, i, c) => i[1] \in R
    BY <1>8 DEF Answered
  <2> HIDE DEF q, R
  <2>2. \A x \in asked[c].among : x \in Cells /\ current'[x] > 0
    BY <1>2, <2>1
  <2>3. c \notin overlapped \/ (\E i : via[c] = {i}) =>
          \A i \in Instances : Born(i)' /\ i[1] \in R \cap asked[c].among => WatchesIn(spatial', i, c)
    BY <1>4, <1>6, <1>8, <2>1
  <2>4. c \notin overlapped => \A i \in Instances : WatchesIn(spatial', i, c) => i[1] \in R
    BY <1>4, <2>1
  <2> QED
    BY <1>1, <1>7, <2>1, <2>2, <2>3, <2>4 DEF Answered, q, R
<1>9. \A i \in Instances : c \in spatial'[i].subs => i[1] \in interest'[c]
  BY <1>4, <1>5 DEF Followed
<1>10. \A i \in Instances : AskWaits(spatial'[i].queue, c) => \E j \in via[c] : j # i
  BY <1>4 DEF Followed
<1> QED
  BY <1>1, <1>8, <1>9, <1>10 DEF Followed

\* A subscription message that is handled: it decides when it was the last one.
LEMMA SubFollowed ==
  ASSUME TypeInv, ~Replaced, NEW i \in Instances, HandleSub(i) \/ HandleUnsub(i),
         NEW c \in Clients \ closing, Followed(c)
  PROVE  Followed(c)'
<1> DEFINE m == FirstOf(i)
           S == Taken(i)
           q == spatial[i].queue
           d == m.client
<1>1. PICK type \in {"sub", "unsub"} : Take(i, type)
  BY DEF HandleSub, HandleUnsub
<1>2. /\ ChannelsOK(S) /\ Channels(S) /\ m.type = type
      /\ QueueSet(spatial, S, i, Tail(q))
      /\ scenario' = scenario /\ current' = current /\ closing' = closing
      /\ SpatialWork(m)
  BY <1>1, SpatialTaken
<1>3. d \in Clients /\ d \in Conns
  BY <1>2, Kinds DEF SpatialWork
<1>4. asked' = asked /\ via' = via /\ overlapped' = overlapped
  BY DEF HandleSub, HandleUnsub, historyVars
<1>5. IsQueue(q) /\ q # <<>> /\ m = Head(q)
  BY <1>1 DEF TypeInv, ChannelsOK, ChannelOK, Take, FirstOf
<1>6. interest \in [Conns -> SUBSET Cells] /\ c \in Conns
  BY Kinds DEF TypeInv, ServersOK
<1>7. \/ spatial' = S /\ interest' = interest
      \/ /\ spatial' = [S EXCEPT ![i].subs = S[i].subs \cup {d}]
         /\ interest' = [interest EXCEPT ![d] = interest[d] \cup {i[1]}]
      \/ /\ spatial' = [S EXCEPT ![i].subs = S[i].subs \ {d}]
         /\ interest' = [interest EXCEPT ![d] = interest[d] \ {i[1]}]
  BY DEF HandleSub, HandleUnsub, Subscribed, Unsubscribed
<1>8. ASSUME d = c
      PROVE  \/ /\ m.type = "sub"
                /\ spatial' = [S EXCEPT ![i].subs = S[i].subs \cup {c}]
                /\ interest' = [interest EXCEPT ![c] = interest[c] \cup {i[1]}]
             \/ /\ m.type = "unsub" /\ c \notin S[i].subs
                /\ spatial' = S /\ interest' = interest
             \/ /\ m.type = "unsub" /\ c \in S[i].subs
                /\ spatial' = [S EXCEPT ![i].subs = S[i].subs \ {c}]
                /\ interest' = [interest EXCEPT ![c] = interest[c] \ {i[1]}]
  BY <1>8 DEF HandleSub, HandleUnsub, Subscribed, Unsubscribed, Take, FirstOf
<1>9. ASSUME d # c PROVE Followed(c)'
  <2>1. ~ClientMessage(m, c)
    BY <1>9 DEF ClientMessage
  <2>2. WatchKept(spatial, S, c)
    BY <1>1, <2>1, TakenWatch
  <2> HIDE DEF S, m, d
  <2>3. SameQueues(S, spatial') /\ \A j \in Instances : c \in spatial'[j].subs <=> c \in S[j].subs
    <3>1. CASE spatial' = S
      BY <3>1 DEF SameQueues
    <3>2. ASSUME NEW v \in {S[i].subs \cup {d}, S[i].subs \ {d}}, spatial' = [S EXCEPT ![i].subs = v]
          PROVE  SameQueues(S, spatial') /\ \A j \in Instances : c \in spatial'[j].subs <=> c \in S[j].subs
      <4>1. SubsSet(S, spatial', i, v)
        BY <1>2, <3>2, SubsChanged
      <4> QED
        BY <1>9, <3>2, <4>1 DEF SubsSet
    <3> QED
      BY <1>7, <3>1, <3>2
  <2>4. WatchKept(spatial, spatial', c)
    BY <2>2, <2>3, SameWatch, WatchKeptTwice
  <2>5. interest'[c] = interest[c]
    BY <1>3, <1>6, <1>7, <1>9
  <2>6. ClientKept(c)
    BY <1>2, <1>4, <2>4, <2>5 DEF ClientKept
  <2> QED
    BY <2>6, FollowedStays
<1>10. ASSUME d = c PROVE Followed(c)'
  <2>1. ClientMessage(m, c) /\ (m.type # "sub" <=> m.type = "unsub")
    BY <1>2, <1>10 DEF ClientMessage
  <2>2. Born(i)
    BY <1>1, SpatialTaken
  <2>3. /\ \A j \in Instances : S[j].subs = spatial[j].subs
        /\ \A j \in Instances : S[j].queue = IF j = i THEN Tail(q) ELSE spatial[j].queue
    BY <1>2 DEF QueueSet, SameSubs
  <2> HIDE DEF S, m, d
  <2>4. PICK v : /\ SameQueues(S, spatial')
                 /\ \A j \in Instances : spatial'[j].subs = IF j = i THEN v ELSE S[j].subs
                 /\ \/ m.type = "sub" /\ v = S[i].subs \cup {c} /\ interest'[c] = interest[c] \cup {i[1]}
                    \/ /\ m.type = "unsub" /\ c \notin S[i].subs /\ v = S[i].subs
                       /\ interest'[c] = interest[c]
                    \/ m.type = "unsub" /\ v = S[i].subs \ {c} /\ interest'[c] = interest[c] \ {i[1]}
    <3>1. ASSUME NEW v, spatial' = [S EXCEPT ![i].subs = v]
          PROVE  /\ SameQueues(S, spatial')
                 /\ \A j \in Instances : spatial'[j].subs = IF j = i THEN v ELSE S[j].subs
      <4>1. SubsSet(S, spatial', i, v)
        BY <1>2, <3>1, SubsChanged
      <4> QED
        BY <4>1 DEF SubsSet
    <3>2. CASE m.type = "sub"
      <4>1. /\ spatial' = [S EXCEPT ![i].subs = S[i].subs \cup {c}]
            /\ interest'[c] = interest[c] \cup {i[1]}
        BY <1>6, <1>8, <1>10, <3>2
      <4> QED
        BY <3>1, <3>2, <4>1
    <3>3. CASE m.type = "unsub" /\ c \in S[i].subs
      <4>1. /\ spatial' = [S EXCEPT ![i].subs = S[i].subs \ {c}]
            /\ interest'[c] = interest[c] \ {i[1]}
        BY <1>6, <1>8, <1>10, <3>3
      <4> QED
        BY <3>1, <3>3, <4>1
    <3>4. CASE m.type = "unsub" /\ c \notin S[i].subs
      <4>1. spatial' = S /\ interest' = interest
        BY <1>8, <1>10, <3>4
      <4>2. SameQueues(S, S)
        BY DEF SameQueues
      <4> QED
        BY <3>4, <4>1, <4>2
    <3> QED
      BY <1>2, <3>2, <3>3, <3>4
  <2>5. ASSUME NEW j \in Instances
        PROVE  /\ WatchesIn(spatial', j, c) <=> WatchesIn(spatial, j, c)
               /\ AskWaits(spatial'[j].queue, c) => AskWaits(spatial[j].queue, c)
    <3>1. CASE j # i
      <4>1. spatial'[j].subs = spatial[j].subs /\ spatial'[j].queue = spatial[j].queue
        BY <2>3, <2>4, <3>1 DEF SameQueues
      <4> QED
        BY <4>1 DEF WatchesIn
    <3>2. CASE j = i
      <4>1. spatial'[i].subs = v /\ spatial'[i].queue = Tail(q) /\ S[i].subs = spatial[i].subs
        BY <2>3, <2>4 DEF SameQueues
      <4>2. /\ AskWaits(Tail(q), c) => AskWaits(q, c)
            /\ m.type = "sub" =>
                 (WillWatch(spatial[i].subs \cup {c}, Tail(q), c) <=> WillWatch(spatial[i].subs, q, c))
            /\ m.type # "sub" =>
                 (WillWatch(spatial[i].subs \ {c}, Tail(q), c) <=> WillWatch(spatial[i].subs, q, c))
        BY <1>5, <2>1, AskTaken
      <4>3. c \notin spatial[i].subs =>
              (WillWatch(spatial[i].subs, Tail(q), c) <=> WillWatch(spatial[i].subs \ {c}, Tail(q), c))
        BY OwnSubscription
      <4>4. WillWatch(v, Tail(q), c) <=> WillWatch(spatial[i].subs, q, c)
        BY <2>1, <2>4, <4>1, <4>2, <4>3
      <4> QED
        BY <3>2, <4>1, <4>2, <4>4 DEF WatchesIn
    <3> QED
      BY <3>1, <3>2
  <2>6. ASSUME NEW j \in Instances, c \in spatial'[j].subs PROVE j[1] \in interest'[c]
    <3>1. CASE j = i
      <4>1. m.type = "sub" /\ v = S[i].subs \cup {c}
        BY <2>4, <2>6, <3>1
      <4> QED
        BY <2>4, <3>1, <4>1
    <3>2. CASE j # i
      <4>1. c \in spatial[j].subs
        BY <2>3, <2>4, <2>6, <3>2
      <4>2. j[1] \in interest[c]
        BY <4>1 DEF Followed
      <4>3. Born(j)
        BY <4>1 DEF TypeInv, ChannelsOK, ChannelOK
      <4>4. j = Current(j[1]) /\ i = Current(i[1])
        BY <2>2, <4>3, OnlyInstance DEF TypeInv
      <4>5. j[1] # i[1]
        BY <3>2, <4>4
      <4> QED
        BY <2>4, <4>2, <4>5
    <3> QED
      BY <3>1, <3>2
  <2>7. AskKept(c)
    BY <1>2, <1>4, <2>5 DEF AskKept
  <2> QED
    BY <2>6, <2>7, AnsweredStays
<1> QED
  BY <1>9, <1>10

\* The interest of another client.
LEMMA OtherInterest ==
  ASSUME TypeInv, NEW i \in Instances, HandleInterest(i), via = [d \in Clients |-> via[d]],
         asked = [d \in Clients |-> asked[d]],
         NEW c \in Clients, c # FirstOf(i).client, Followed(c)
  PROVE  Followed(c)'
<1> DEFINE m == FirstOf(i)
           S == Taken(i)
<1>1. /\ ChannelsOK(S) /\ Born(i) /\ SpatialWork(m) /\ m.type = "interest"
      /\ scenario' = scenario /\ current' = current /\ Take(i, "interest")
  BY SpatialTaken DEF HandleInterest
<1>2. m.client \in Clients /\ UpdateInterest(i, S, m)
  BY <1>1 DEF SpatialWork, HandleInterest
<1>3. ~ClientMessage(m, c)
  BY <1>1 DEF ClientMessage
<1>4. WatchKept(spatial, S, c)
  BY <1>1, <1>3, TakenWatch
<1>5. InterestChanged(S, i, m.client)
  BY <1>1, <1>2, InterestChanges
<1>6. asked'[c] = asked[c] /\ via'[c] = via[c] /\ (c \in overlapped' <=> c \in overlapped)
  BY <1>2 DEF UpdateInterest
<1> HIDE DEF m, S
<1>7. c # m.client
  BY DEF m
<1>8. ASSUME NEW j \in Instances
      PROVE  /\ c \in spatial'[j].subs => c \in S[j].subs
             /\ WatchesIn(spatial', j, c) <=> WatchesIn(S, j, c)
             /\ AskWaits(spatial'[j].queue, c) => AskWaits(S[j].queue, c)
  <2>1. c \in spatial'[j].subs <=> c \in S[j].subs
    BY <1>5, <1>7 DEF InterestChanged
  <2>2. WillWatch(spatial'[j].subs, S[j].queue, c) <=> WillWatch(S[j].subs, S[j].queue, c)
    BY <2>1, OwnSubscription
  <2>3. CASE spatial'[j].queue = S[j].queue
    BY <2>1, <2>2, <2>3 DEF WatchesIn
  <2>4. ASSUME NEW w, spatial'[j].queue = Append(S[j].queue, w), w.client = m.client
        PROVE  /\ c \in spatial'[j].subs => c \in S[j].subs
               /\ WatchesIn(spatial', j, c) <=> WatchesIn(S, j, c)
               /\ AskWaits(spatial'[j].queue, c) => AskWaits(S[j].queue, c)
    <3>1. IsQueue(S[j].queue)
      BY <1>1 DEF ChannelsOK, ChannelOK
    <3>2. ~ClientMessage(w, c)
      BY <1>7, <2>4 DEF ClientMessage
    <3>3. /\ WillWatch(spatial'[j].subs, Append(S[j].queue, w), c)
               <=> WillWatch(spatial'[j].subs, S[j].queue, c)
          /\ AskWaits(Append(S[j].queue, w), c) => AskWaits(S[j].queue, c)
      BY <3>1, <3>2, AskAppended
    <3> QED
      BY <2>1, <2>2, <2>4, <3>3 DEF WatchesIn
  <2> QED
    BY <1>5, <2>3, <2>4 DEF InterestChanged
<1>9. WatchKept(S, spatial', c)
  BY <1>8 DEF WatchKept
<1>10. interest'[c] = interest[c]
  BY <1>5, <1>7, Kinds DEF InterestChanged
<1>11. ClientKept(c)
  BY <1>1, <1>4, <1>6, <1>9, <1>10, WatchKeptTwice DEF ClientKept
<1> QED
  BY <1>11, FollowedStays

\* A client's own query, handled by channel i: it is subscribed to i at once, and the
\* other channels it wants or leaves are sent a message. Messages of earlier queries
\* that wait in other channels are put before them, and those in i itself after the
\* subscription: that is why only clients whose queries all go to one channel, or that
\* never had two under way, get what they asked for.
LEMMA OwnInterest ==
  ASSUME TypeInv, ~Replaced, NEW i \in Instances, HandleInterest(i), via = [d \in Clients |-> via[d]],
         asked = [d \in Clients |-> asked[d]],
         NEW c \in Clients \ closing, c = FirstOf(i).client, Followed(c)
  PROVE  Followed(c)'
<1> DEFINE m == FirstOf(i)
           S == Taken(i)
           R == QueryChannelIds(grid, m.query)
           pending == \E j \in Instances : \E k \in DOMAIN S[j].queue :
                   S[j].queue[k].type \in {"sub", "unsub"} /\ S[j].queue[k].client = m.client
           direct == DirectSubs(S, i, m)
           among == {x \in Cells : Exists(x)}
<1>1. /\ ChannelsOK(S) /\ Born(i) /\ SpatialWork(m) /\ m.type = "interest"
      /\ scenario' = scenario /\ current' = current /\ Take(i, "interest")
  BY SpatialTaken DEF HandleInterest
<1>2. m.client \in Clients /\ m.query \in Queries /\ UpdateInterest(i, S, m) /\ m.client = c
  BY <1>1 DEF SpatialWork, HandleInterest
<1>3. ~ClientMessage(m, c)
  BY <1>1 DEF ClientMessage
<1>4. WatchKept(spatial, S, c)
  BY <1>1, <1>3, TakenWatch
<1>5. CASE QueryFails(grid, m.query)
  <2>1. spatial' = S /\ UNCHANGED <<interest, asked, via, overlapped>>
    BY <1>2, <1>5 DEF UpdateInterest
  <2>2. ClientKept(c)
    BY <1>1, <1>4, <2>1 DEF ClientKept
  <2> QED
    BY <2>2, FollowedStays
<1>6. CASE ~QueryFails(grid, m.query)
  <2>1. InterestSent(S, i, m)
    BY <1>1, <1>2, <1>6, InterestChanges
  <2>2. /\ interest' = [interest EXCEPT ![c] =
                 IF c \in direct THEN interest[c] \cup (Wanted(m) \cap {i[1]})
                 ELSE IF c \in S[i].subs THEN interest[c] \ {i[1]} ELSE interest[c]]
        /\ asked' = [asked EXCEPT ![c] = [query |-> m.query, among |-> among]]
        /\ via' = [via EXCEPT ![c] = via[c] \cup {i}]
        /\ overlapped' = IF pending THEN overlapped \cup {c} ELSE overlapped
    BY <1>2, <1>6 DEF UpdateInterest, DirectSubs, Wanted, Unwanted
  <2>3. /\ interest'[c] = IF c \in direct THEN interest[c] \cup (Wanted(m) \cap {i[1]})
                          ELSE IF c \in S[i].subs THEN interest[c] \ {i[1]} ELSE interest[c]
        /\ asked'[c] = [query |-> m.query, among |-> among]
        /\ via'[c] = via[c] \cup {i}
        /\ c \notin overlapped' => ~pending
    BY <2>2, Kinds DEF TypeInv, ServersOK
  <2>4. asked'[c].query = m.query /\ asked'[c].among = among
    BY <2>3
  <2>5. Wanted(m) = {x \in R : Exists(x)} /\ Unwanted(m) = {x \in interest[c] \ R : Exists(x)}
    BY <1>2 DEF Wanted, Unwanted
  <2>6. ASSUME ~pending, NEW j \in Instances PROVE ~AskWaits(S[j].queue, c)
    BY <1>2, <2>6 DEF AskWaits, AskedAfter, ClientMessage
  <2>7. ASSUME NEW j \in Instances
        PROVE  /\ c \in S[j].subs => j[1] \in interest[c] /\ Born(j)
               /\ AskWaits(S[j].queue, c) => \E k \in via[c] : k # j
               /\ IsQueue(S[j].queue)
    <3>1. c \in S[j].subs => c \in spatial[j].subs
      BY <1>4 DEF WatchKept
    <3>2. c \in S[j].subs => Born(j)
      BY <1>1 DEF ChannelsOK, ChannelOK
    <3>3. IsQueue(S[j].queue)
      BY <1>1 DEF ChannelsOK, ChannelOK
    <3> QED
      BY <1>4, <3>1, <3>2, <3>3 DEF WatchKept, Followed
  <2>8. \A j \in Instances : Born(j) => Exists(j[1]) /\ j = Current(j[1]) /\ j[1] \in Cells
    BY OnlyInstance DEF TypeInv
  <2>9. direct = IF i[1] \in Wanted(m) THEN S[i].subs \cup {c}
                 ELSE IF i[1] \in Unwanted(m) THEN S[i].subs \ {c} ELSE S[i].subs
    BY <1>1, <1>2, <2>8 DEF DirectSubs
  <2>10. ASSUME NEW j \in Instances
         PROVE  /\ spatial'[j].subs = IF j = i THEN direct ELSE S[j].subs
                /\ Requested(i, m, j) => spatial'[j].queue = Append(S[j].queue, Request(m, j[1]))
                /\ ~Requested(i, m, j) => spatial'[j].queue = S[j].queue
    BY <2>1 DEF InterestSent
  <2>11. /\ ~Requested(i, m, i)
         /\ \A j \in Instances : j # i /\ Born(j) =>
              (Requested(i, m, j) <=> j[1] \in Wanted(m) \cup Unwanted(m))
    BY <2>8 DEF Requested
  <2>12. \A x : /\ Request(m, x).type = IF x \in Wanted(m) THEN "sub" ELSE "unsub"
                /\ ClientMessage(Request(m, x), c)
    BY <1>2 DEF Request, ClientMessage
  <2> HIDE DEF m, S, R, pending, direct, among
  <2>13. c \in direct <=> i[1] \in R
    <3>1. Exists(i[1])
      BY <1>1, <2>8
    <3>2. c \in S[i].subs => i[1] \in interest[c]
      BY <2>7
    <3> QED
      BY <2>5, <2>9, <3>1, <3>2
  <2>14. ASSUME NEW j \in Instances, Born(j), j # i PROVE j[1] # i[1]
    BY <1>1, <2>8, <2>14
  <2>15. ASSUME NEW j \in Instances, c \in spatial'[j].subs PROVE j[1] \in interest'[c]
    <3>1. CASE j = i
      <4>1. c \in direct
        BY <2>10, <2>15, <3>1
      <4>2. i[1] \in Wanted(m)
        BY <1>1, <2>5, <2>8, <2>13, <4>1
      <4> QED
        BY <2>3, <3>1, <4>1, <4>2
    <3>2. CASE j # i
      <4>1. c \in S[j].subs
        BY <2>10, <2>15, <3>2
      <4>2. j[1] \in interest[c] /\ j[1] # i[1]
        BY <2>7, <2>14, <3>2, <4>1
      <4> QED
        BY <2>3, <4>2
    <3> QED
      BY <3>1, <3>2
  <2>16. ASSUME NEW j \in Instances, AskWaits(spatial'[j].queue, c)
         PROVE  \E k \in via'[c] : k # j
    <3>1. CASE Requested(i, m, j)
      BY <2>3, <2>11, <3>1
    <3>2. CASE ~Requested(i, m, j)
      BY <2>3, <2>7, <2>10, <2>16, <3>2
    <3> QED
      BY <3>1, <3>2
  <2>17. IsFiniteSet(via'[c])
    <3>1. IsFiniteSet(via[c])
      BY DEF Followed
    <3>2. IsFiniteSet(via[c] \cup {i})
      BY <3>1, FS_AddElement
    <3> QED
      BY <2>3, <3>2
  <2>18. ASSUME NEW j \in Instances, ~AskWaits(S[j].queue, c), ~Requested(i, m, j)
         PROVE  WatchesIn(spatial', j, c) <=> c \in spatial'[j].subs
    <3>1. spatial'[j].queue = S[j].queue
      BY <2>10, <2>18
    <3> QED
      BY <2>7, <2>18, <3>1, NothingAsked DEF WatchesIn
  <2>19. ASSUME NEW j \in Instances, Requested(i, m, j)
         PROVE  WatchesIn(spatial', j, c) <=> j[1] \in Wanted(m)
    <3>1. spatial'[j].queue = Append(S[j].queue, Request(m, j[1]))
      BY <2>10, <2>19
    <3> DEFINE w == Request(m, j[1])
    <3>2. ClientMessage(w, c) /\ (w.type = "sub" <=> j[1] \in Wanted(m))
      BY <2>12
    <3> HIDE DEF w
    <3>3. /\ w.type = "sub" => WillWatch(spatial'[j].subs, Append(S[j].queue, w), c)
          /\ w.type # "sub" => ~WillWatch(spatial'[j].subs, Append(S[j].queue, w), c)
      BY <2>7, <3>2, AskAppended
    <3> QED
      BY <3>1, <3>2, <3>3 DEF WatchesIn, w
  <2>20. c \notin overlapped' \/ (\E k : via'[c] = {k}) => ~AskWaits(S[i].queue, c)
    <3>1. CASE c \notin overlapped'
      BY <2>3, <2>6, <3>1
    <3>2. ASSUME NEW k, via'[c] = {k} PROVE ~AskWaits(S[i].queue, c)
      <4>1. \A x \in via[c] : x = i
        BY <2>3, <3>2
      <4> QED
        BY <2>7, <4>1
    <3> QED
      BY <3>1, <3>2
  <2>21. ASSUME c \notin overlapped' \/ (\E k : via'[c] = {k}),
                NEW j \in Instances, Born(j), j[1] \in R \cap among
         PROVE  WatchesIn(spatial', j, c)
    <3>1. Exists(j[1]) /\ j[1] \in Wanted(m)
      BY <2>5, <2>8, <2>21
    <3>2. CASE j = i
      <4>1. c \in spatial'[i].subs
        BY <2>10, <2>13, <2>21, <3>2
      <4> QED
        BY <2>11, <2>18, <2>20, <2>21, <3>2, <4>1
    <3>3. CASE j # i
      <4>1. Requested(i, m, j)
        BY <2>11, <2>21, <3>1, <3>3
      <4> QED
        BY <2>19, <3>1, <4>1
    <3> QED
      BY <3>2, <3>3
  <2>22. ASSUME c \notin overlapped', NEW j \in Instances, WatchesIn(spatial', j, c)
         PROVE  j[1] \in R
    <3>1. ~AskWaits(S[j].queue, c)
      BY <2>3, <2>6, <2>22
    <3>2. CASE Requested(i, m, j)
      BY <2>5, <2>19, <2>22, <3>2
    <3>3. CASE ~Requested(i, m, j)
      <4>1. c \in spatial'[j].subs
        BY <2>18, <2>22, <3>1, <3>3
      <4>2. CASE j = i
        BY <2>10, <2>13, <4>1, <4>2
      <4>3. CASE j # i
        <5>1. j[1] \in interest[c] /\ Born(j)
          BY <2>7, <2>10, <4>1, <4>3
        <5>2. j[1] \notin Unwanted(m) /\ Exists(j[1])
          BY <2>8, <2>11, <3>3, <4>3, <5>1
        <5> QED
          BY <2>5, <5>1, <5>2
      <4> QED
        BY <4>2, <4>3
    <3> QED
      BY <3>2, <3>3
  <2>23. /\ grid' = grid /\ Cells' = Cells /\ \A j : Born(j)' <=> Born(j)
    BY <1>1, SameWorld
  <2>24. \A x \in among : x \in Cells /\ current[x] > 0
    BY DEF among, Exists
  <2>25. \A j \in Instances : WatchesIn(spatial, j, c)' <=> WatchesIn(spatial', j, c)
    BY DEF WatchesIn
  <2>26. Answered(c)'
    BY <1>1, <1>2, <1>6, <2>4, <2>21, <2>22, <2>23, <2>24, <2>25 DEF Answered, R
  <2> QED
    BY <2>15, <2>16, <2>17, <2>26 DEF Followed
<1> QED
  BY <1>5, <1>6

-----------------------------------------------------------------------------
\* Who watches in the beginning knows of it, and nobody has asked.
LEMMA InitInterest ==
  ASSUME Init
  PROVE  InterestInv
<1>1. FirstChannels
  BY InitChannels
<1>2. /\ interest = [c \in Conns |-> SubscriberCells(c)]
      /\ asked = [c \in Clients |-> NoQuery] /\ via = [c \in Clients |-> {}]
  BY DEF Init
<1>3. ASSUME NEW c \in Clients PROVE Followed(c)
  <2>1. asked[c] = NoQuery /\ via[c] = {} /\ interest[c] = SubscriberCells(c)
    BY <1>2, Kinds
  <2>2. ASSUME NEW i \in Instances, c \in spatial[i].subs PROVE i[1] \in interest[c]
    <3>1. \/ spatial[i].subs = {d \in Conns : i[1] \in SubscriberCells(d)}
          \/ spatial[i].subs = {}
      BY <1>1 DEF FirstChannels
    <3> QED
      BY <2>1, <2>2, <3>1
  <2>3. \A i \in Instances : ~AskWaits(spatial[i].queue, c)
    BY <1>1, NoWork DEF FirstChannels, AskWaits, AskedAfter
  <2> QED
    BY <2>1, <2>2, <2>3, FS_EmptySet DEF Followed
<1> QED
  BY <1>2, <1>3 DEF InterestInv

LEMMA InterestStep ==
  ASSUME TypeInv, TypeInv', InterestInv, [Next]_vars
  PROVE  InterestInv'
<1>1. ClientsQuiet => InterestInv'
  BY QuietStays
<1>2. CASE UNCHANGED vars
  BY <1>1, <1>2, SameChannelsQuiet DEF vars, worldVars, historyVars
<1>3. CASE \E s \in Servers \cup {Master} : Send(s)
  BY <1>1, <1>3, SendQuiet DEF Senders
<1>4. CASE \E c \in Conns : Close(c)
  BY <1>1, <1>4, SameChannelsQuiet DEF Close, worldVars, historyVars
<1>5. CASE GlobalStep
  <2>1. CASE SubscribeCreated
    BY <1>1, <2>1, SubscribeCreatedQuiet
  <2>2. CASE ControllerTick
    BY <1>1, <2>2, SameChannelsQuiet DEF ControllerTick, historyVars
  <2>3. CASE HandleCreateSpatial
    <3>1. /\ scenario' = scenario /\ closing' = closing
          /\ asked' = asked /\ via' = via /\ overlapped' = overlapped
      BY <2>3 DEF HandleCreateSpatial, TakeGlobal
    <3>2. CASE ~Creates
      BY <1>1, <2>3, <3>1, <3>2, CreationChanges, SameChannelsQuiet DEF worldVars
    <3>3. CASE Creates
      <4>1. Creation
        BY <2>3, <3>3, CreationChanges
      <4>2. ASSUME ~Replaced', NEW c \in Clients \ closing PROVE Followed(c)'
        <5>1. ~Replaced
          <6>1. grid' = grid /\ Cells' = Cells
            BY <3>1 DEF grid, Cells
          <6>2. ASSUME NEW x \in Cells, current[x] > 1 PROVE current'[x] > 1
            <7>1. x \in 0..(MaxCells - 1) /\ current[x] \in Nat
              BY CellsInTable, HandoverAssumption DEF TypeInv, GridInv
            <7>2. current'[x] = current[x] + (IF x \in Made THEN 1 ELSE 0)
              BY <4>1, <7>1 DEF Creation
            <7> QED
              BY <6>2, <7>1, <7>2
          <6> QED
            BY <4>2, <6>1, <6>2 DEF Replaced
        <5>2. Followed(c)
          BY <4>2, <5>1 DEF InterestInv
        <5> QED
          BY <2>3, <4>1, <4>2, <5>2, CreationFollowed
      <4> QED
        BY <3>1, <4>2 DEF InterestInv
    <3> QED
      BY <3>2, <3>3
  <2>4. CASE HandleCreateWorldEntity
    BY <1>1, <2>4, WorldEntityQuiet
  <2>5. CASE HandleRemoveEntity
    BY <1>1, <2>5, SameChannelsQuiet DEF HandleRemoveEntity, TakeGlobal, worldVars
  <2> QED
    BY <1>5, <2>1, <2>2, <2>3, <2>4, <2>5 DEF GlobalStep
<1>6. ASSUME NEW i \in Instances, SpatialStep(i) PROVE InterestInv'
  <2>1. CASE SpatialTick(i)
    BY <1>1, <2>1, SpatialTickQuiet
  <2>2. CASE \/ AddToData(i) \/ RemoveFromData(i) \/ HandleCreateEntity(i)
             \/ HandleSpawn(i) \/ HandleDestroy(i)
    BY <1>1, <2>2, SpatialQuiet
  <2>3. ASSUME scenario' = scenario, current' = current, closing' = closing,
               asked' = [c \in Clients |-> asked'[c]], via' = [c \in Clients |-> via'[c]],
               ~Replaced => \A c \in Clients \ closing : Followed(c) => Followed(c)'
        PROVE  InterestInv'
    <3>1. Replaced' <=> Replaced
      BY <2>3, WorldNames
    <3> QED
      BY <2>3, <3>1 DEF InterestInv
  <2>4. CASE HandleSub(i) \/ HandleUnsub(i)
    <3>1. /\ scenario' = scenario /\ current' = current /\ closing' = closing
          /\ asked' = asked /\ via' = via
      BY <2>4 DEF HandleSub, HandleUnsub, Take, worldVars, historyVars
    <3>2. ASSUME ~Replaced, NEW c \in Clients \ closing, Followed(c) PROVE Followed(c)'
      BY <2>4, <3>2, SubFollowed
    <3> QED
      BY <2>3, <3>1, <3>2 DEF InterestInv
  <2>5. CASE HandleInterest(i)
    <3>1. scenario' = scenario /\ current' = current /\ closing' = closing
      BY <2>5 DEF HandleInterest, Take, worldVars
    <3>2. asked' = [c \in Clients |-> asked'[c]] /\ via' = [c \in Clients |-> via'[c]]
      <4> DEFINE m == FirstOf(i)
      <4>1. /\ \/ asked' = asked
               \/ asked' = [asked EXCEPT ![m.client] =
                              [query |-> m.query, among |-> {c \in Cells : Exists(c)}]]
            /\ via' = via \/ via' = [via EXCEPT ![m.client] = via[m.client] \cup {i}]
        BY <2>5 DEF HandleInterest, UpdateInterest
      <4>2. asked = [c \in Clients |-> asked[c]] /\ via = [c \in Clients |-> via[c]]
        BY DEF InterestInv
      <4> QED
        BY <4>1, <4>2
    <3>3. ASSUME ~Replaced, NEW c \in Clients \ closing, Followed(c) PROVE Followed(c)'
      <4>1. asked = [d \in Clients |-> asked[d]] /\ via = [d \in Clients |-> via[d]]
        BY DEF InterestInv
      <4>2. CASE c = FirstOf(i).client
        BY <2>5, <3>3, <4>1, <4>2, OwnInterest
      <4>3. CASE c # FirstOf(i).client
        BY <2>5, <3>3, <4>1, <4>3, OtherInterest
      <4> QED
        BY <4>2, <4>3
    <3> QED
      BY <2>3, <3>1, <3>2, <3>3
  <2> QED
    BY <1>6, <2>1, <2>2, <2>4, <2>5 DEF SpatialStep
<1>7. CASE \E e \in Entities : EntityStep(e)
  BY <1>1, <1>7, EntityQuiet
<1> QED
  BY <1>2, <1>3, <1>4, <1>5, <1>6, <1>7 DEF Next

\* For every grid, any number of clients and servers, and any interleaving of the
\* channels that handle the queries and the messages they send each other: a client's
\* latest query is answered, within what its grid lets it reach, unless an earlier one
\* was under way.
THEOREM InterestFollows == Spec => []InterestFollowsQuery
<1>1. Init => WorldInv /\ InterestInv
  BY InitWorld, InitInterest
<1>2. WorldInv /\ InterestInv /\ [Next]_vars => WorldInv' /\ InterestInv'
  <2>1. ASSUME WorldInv, InterestInv, [Next]_vars PROVE WorldInv' /\ InterestInv'
    <3>1. WorldInv'
      BY <2>1, WorldStep
    <3>2. TypeInv /\ TypeInv'
      BY <2>1, <3>1 DEF WorldInv
    <3> QED
      BY <2>1, <3>1, <3>2, InterestStep
  <2> QED
    BY <2>1
<1>3. WorldInv /\ InterestInv => InterestFollowsQuery
  <2> SUFFICES ASSUME WorldInv, InterestInv, NEW c \in Clients \ closing, asked[c] # NoQuery,
                      ~Replaced,
                      ~\E i \in Instances : \E k \in DOMAIN spatial[i].queue :
                         spatial[i].queue[k].type \in {"sub", "unsub"} /\ spatial[i].queue[k].client = c
               PROVE  LET subbed == {x \in Cells : Exists(x) /\ c \in spatial[Current(x)].subs}
                      IN /\ c \notin overlapped \/ Cardinality(via[c]) = 1 =>
                              MustReach(grid, asked[c].query) \cap asked[c].among \subseteq subbed
                         /\ c \notin overlapped => subbed \subseteq MayReach(grid, asked[c].query)
    BY DEF InterestFollowsQuery
  <2> DEFINE q == asked[c].query
             R == QueryChannelIds(grid, q)
             among == asked[c].among
             subbed == {x \in Cells : Exists(x) /\ c \in spatial[Current(x)].subs}
  <2>1. TypeInv /\ GridInv /\ grid \in Grids
    BY CellsInTable DEF WorldInv, TypeInv, GridInv
  <2>2. Followed(c) /\ Answered(c)
    BY DEF InterestInv, Followed
  <2>3. ASSUME NEW i \in Instances PROVE WatchesIn(spatial, i, c) <=> c \in spatial[i].subs
    <3>1. IsQueue(spatial[i].queue)
      BY <2>1 DEF TypeInv, ChannelsOK, ChannelOK
    <3>2. ~AskWaits(spatial[i].queue, c)
      BY DEF AskWaits, AskedAfter, ClientMessage
    <3> QED
      BY <3>1, <3>2, NothingAsked DEF WatchesIn
  <2>4. q \in Queries /\ ~QueryFails(grid, q) /\ \A x \in among : x \in Cells /\ current[x] > 0
    BY <2>2 DEF Answered
  <2>5. MustReach(grid, q) \subseteq R /\ R \subseteq MayReach(grid, q)
    BY <2>1, <2>4, QueryReaches
  <2>6. \A x \in Cells : Exists(x) => /\ Current(x) \in Instances /\ Born(Current(x))
                                      /\ Current(x)[1] = x
    BY <2>1, CurrentBorn DEF Current
  <2>7. ASSUME c \notin overlapped \/ Cardinality(via[c]) = 1, NEW x \in MustReach(grid, q) \cap among
        PROVE  x \in subbed
    <3>1. c \notin overlapped \/ (\E i : via[c] = {i})
      <4>1. IsFiniteSet(via[c])
        BY <2>2 DEF Followed
      <4> QED
        BY <2>7, <4>1, FS_Singleton
    <3>2. x \in Cells /\ Exists(x)
      <4>1. x \in Cells /\ current[x] > 0
        BY <2>4
      <4> QED
        BY <2>1, <4>1, CellsInTable DEF Exists, GridInv
    <3>3. Current(x) \in Instances /\ Born(Current(x)) /\ Current(x)[1] \in R \cap among
      BY <2>5, <2>6, <2>7, <3>2
    <3>4. WatchesIn(spatial, Current(x), c)
      BY <2>2, <3>1, <3>3 DEF Answered
    <3> QED
      BY <2>3, <3>2, <3>3, <3>4
  <2>8. ASSUME c \notin overlapped, NEW x \in subbed PROVE x \in MayReach(grid, q)
    <3>1. WatchesIn(spatial, Current(x), c) /\ Current(x) \in Instances /\ Current(x)[1] = x
      BY <2>3, <2>6
    <3>2. x \in R
      BY <2>2, <2>8, <3>1 DEF Answered
    <3> QED
      BY <2>5, <3>2
  <2> QED
    BY <2>7, <2>8
<1> QED
  BY <1>1, <1>2, <1>3, PTL DEF Spec
=============================================================================

----------------------- MODULE ChannelLifecycleProofs -----------------------
(***************************************************************************)
(* Theorems about module ChannelLifecycle, for every value of its          *)
(* constants: its types, that a channel that is not being removed is found *)
(* under its id, that channels are refused as full only while no id is     *)
(* free, and that removing a channel does not end the process unless its   *)
(* removal was asked for twice or its id used again.                       *)
(*                                                                         *)
(* All rest on one invariant, CoreInv: the types, what the table of ids    *)
(* says, how often a channel is marked as removed at each place its        *)
(* goroutine may be, and what that goroutine works on there.               *)
(***************************************************************************)
EXTENDS ChannelLifecycle, TLAPS, FiniteSetTheorems, NaturalsInduction, WellFoundedInduction

-----------------------------------------------------------------------------
(* The types, the table, and what a goroutine may be doing.                *)

\* The values of the variables.
Channel ==
  [kind : Kinds, id : Ids, owner : Conns \cup {Nobody}, subs : SUBSET Conns,
   removing : Nat, closed : BOOLEAN, queue : Seq(Messages)]
Job == [msg : Messages \cup {NoMessage}, at : Insts \cup {Nobody}]
Sending == [msg : Requests, at : Insts]

\* The types of the variables.
Types ==
  /\ allChannels \in [Ids -> Insts \cup {Nobody}]
  /\ nextChannelId \in Ids /\ full \in BOOLEAN /\ made \in 0 .. MaxInst + 1
  /\ ch \in [Insts -> Channel] /\ pc \in [Insts -> PCs] /\ job \in [Insts -> Job]
  /\ reading \in [Insts -> BOOLEAN] /\ writer \in [Insts -> Insts \cup {Nobody}]
  /\ kept \in [Insts -> BOOLEAN]
  /\ sent \subseteq Requests /\ put \in [Conns -> Sending \cup {Nobody}]
  /\ closing \subseteq Conns /\ panicked \in {"no", "send", "close", "nil"}
  /\ removedElsewhere \in BOOLEAN /\ raced \in BOOLEAN
  /\ removedBy \in [Insts -> {"no", "request", "internal"}]

\* The instances that have been made, and how often one was marked as removed before
\* RemoveChannel closed it.
Made == {i \in Insts : Exists(i)}
Marks(c) == IF c.closed THEN c.removing - 1 ELSE c.removing
Marked(i) == Marks(ch[i])

\* Where a goroutine may be: in the middle of a tick its own channel is not marked, at
\* its end once, or twice, once for the owner and once for the kept handles.  Only
\* RemoveChannel removes.
MidTick == {"messages", "setFull", "store", "subTest", "subLock", "subWait", "remove", "delete",
            "connections", "broadcast"}
TickAt(i) ==
  /\ pc[i] = "none" <=> ~Exists(i)
  /\ reading[i] => pc[i] \in {"connections", "broadcast", "ask", "send"}
  /\ Len(ch[i].queue) <= QueueSize
  /\ Marked(i) \in 0 .. 2
  /\ pc[i] \in MidTick => Marked(i) = 0
  /\ pc[i] \in {"ask", "send"} => Marked(i) >= 1 /\ (reading[i] => Marked(i) = 1)
  /\ pc[i] = "recover" => Marked(i) <= 1
  /\ removedBy[i] # "no" => Exists(i) /\ ch[i].closed

\* What a goroutine works on.
Subscribing == {"subTest", "subLock", "subWait"}
JobAt(i) ==
  /\ pc[i] \in Subscribing => job[i].msg \in Requests
  /\ pc[i] \in Subscribing \cup {"remove", "delete"} => job[i].at \in Made
  /\ pc[i] = "store" =>
       /\ job[i].msg \in Requests /\ job[i].msg.kind = "createEntity"
       /\ job[i].at # Nobody => job[i].at \in Made /\ IsRemoving(job[i].at)
  /\ pc[i] = "delete" => ch[job[i].at].closed /\ removedBy[job[i].at] # "no"
  /\ pc[i] = "setFull" => i = GLOBAL

\* What is found under an id has it, and each type of channel has ids of its own.
IdAt(i) ==
  /\ ch[i].kind = "GLOBAL" => i = GLOBAL
  /\ ch[i].kind = "NORMAL" => ch[i].id \in NormalIds \cup {GLOBAL}
  /\ ch[i].kind \in {"SPATIAL", "ENTITY"} => ch[i].id \notin NormalIds
TableInv ==
  /\ GLOBAL \in Made /\ ch[GLOBAL].id = GLOBAL
  /\ \A x \in Ids : allChannels[x] # Nobody => allChannels[x] \in Made /\ ch[allChannels[x]].id = x
  /\ \A i \in Made : IdAt(i)
  /\ nextChannelId \in NormalIds \cup {GLOBAL}

CoreInv ==
  /\ Types /\ TableInv
  /\ \A i \in Insts : TickAt(i) /\ JobAt(i)

\* What the assumption says of numbers and ids.
LEMMA Constants ==
  ASSUME LifecycleAssumption
  PROVE  /\ MaxId \in Nat /\ MaxId >= 2 /\ MaxInst \in Nat /\ QueueSize \in Nat /\ QueueSize >= 1
         /\ Cardinality(SpatialIds) \in Nat /\ Cardinality(SpatialIds) <= MaxInst
         /\ SpatialIds = MaxId + 1 .. MaxId + Cardinality(SpatialIds)
         /\ Ids \subseteq Nat /\ Insts \subseteq Nat /\ GLOBAL \in Insts /\ GLOBAL \in Ids
         /\ Nobody \notin Ids /\ Nobody \notin Insts /\ Nobody \notin Conns
         /\ NormalIds \subseteq Ids /\ GLOBAL \notin NormalIds /\ 1 \in NormalIds
         /\ \A x \in EntityIds \cup SpatialIds : x \in Ids /\ x \notin NormalIds /\ x # GLOBAL
<1>1. Cardinality(SpatialIds) \in Nat
  BY FS_CardinalityType DEF LifecycleAssumption
<1> DEFINE n == Cardinality(SpatialIds)
<1>2. n \in Nat /\ n <= MaxInst /\ SpatialIds = MaxId + 1 .. MaxId + n
  BY <1>1 DEF LifecycleAssumption
<1>3. MaxId \in Nat /\ MaxId >= 2 /\ MaxInst \in Nat /\ QueueSize \in Nat /\ QueueSize >= 1
  BY DEF LifecycleAssumption
<1>4. EntityIds \subseteq {k \in Nat : k > MaxId + n} /\ Nobody \notin Int /\ Nobody \notin Conns
  BY DEF LifecycleAssumption
<1> HIDE DEF n
<1>5. Ids \subseteq Nat /\ Insts \subseteq Nat
  BY <1>2, <1>3, <1>4 DEF Ids, Insts, NormalIds, GLOBAL
<1>6. \A x \in EntityIds \cup SpatialIds : x \in Ids /\ x \notin NormalIds /\ x # GLOBAL
  BY <1>2, <1>3, <1>4 DEF Ids, NormalIds, GLOBAL
<1> QED
  BY <1>1, <1>2, <1>3, <1>4, <1>5, <1>6 DEF Ids, Insts, NormalIds, GLOBAL, n

\* A request is from a connection, to a connection; an internal message is from nobody.
LEMMA MessageTypes ==
  ASSUME LifecycleAssumption
  PROVE  /\ \A r \in Requests : /\ r.conn \in Conns /\ r.target \in Conns /\ r.conn # Nobody
                                /\ r.id \in Ids /\ r.to \in Ids
                                /\ r.kind = "createEntity" => r.id \in EntityIds
         /\ \A m \in Messages : /\ m.id \in Ids /\ m.conn \in Conns \cup {Nobody}
                                /\ m.conn # Nobody => m \in Requests
                                /\ m.kind # "remove" => m \in Requests
         /\ \A x \in Ids : [NoMessage EXCEPT !.kind = "remove", !.id = x] \in Messages
<1>1. \A r \in Requests : r \in Request /\ (r.kind = "createEntity" => r.id \in EntityIds)
  BY DEF LifecycleAssumption
<1>2. \A r \in Requests : /\ r.conn \in Conns /\ r.target \in Conns /\ r.id \in Ids /\ r.to \in Ids
                          /\ r.conn # Nobody
  BY <1>1, Constants DEF Request
<1>3. \A x \in Ids : LET m == [NoMessage EXCEPT !.kind = "remove", !.id = x] IN
                     m.id = x /\ m.conn = Nobody /\ m.kind = "remove"
  BY DEF NoMessage
<1>4. \A m \in Messages :
        m \in Requests \/ (m.id \in Ids /\ m.conn = Nobody /\ m.kind = "remove")
  <2> SUFFICES ASSUME NEW m \in Messages, m \notin Requests
               PROVE  m.id \in Ids /\ m.conn = Nobody /\ m.kind = "remove"
    OBVIOUS
  <2>1. PICK x \in Ids : m = [NoMessage EXCEPT !.kind = "remove", !.id = x]
    BY DEF Messages
  <2> QED
    BY <1>3, <2>1
<1>5. \A x \in Ids : [NoMessage EXCEPT !.kind = "remove", !.id = x] \in Messages
  BY DEF Messages
<1> QED
  BY <1>1, <1>2, <1>4, <1>5, Constants

-----------------------------------------------------------------------------
(* Steps of one goroutine.                                                 *)

\* A step of the goroutine of i that closes no channel and makes none: the others are
\* where they were, and work on what they did.
ChannelsStay ==
  \A j \in Insts :
    /\ ch'[j].kind = ch[j].kind /\ ch'[j].id = ch[j].id /\ ch'[j].closed = ch[j].closed
    /\ ch'[j].removing >= ch[j].removing
Local(i) ==
  /\ ChannelsStay /\ UNCHANGED <<made, removedBy>>
  /\ \A j \in Insts \ {i} :
       /\ pc'[j] = pc[j] /\ job'[j] = job[j] /\ reading'[j] = reading[j]
       /\ ch'[j].removing = ch[j].removing /\ Len(ch'[j].queue) <= QueueSize

\* The goroutines of the others are not concerned by such a step.
LEMMA LocalStep ==
  ASSUME LifecycleAssumption, CoreInv, Types', NEW i \in Insts, Local(i),
         TickAt(i)', JobAt(i)'
  PROVE  \A j \in Insts : TickAt(j)' /\ JobAt(j)'
<1> SUFFICES ASSUME NEW j \in Insts, j # i PROVE TickAt(j)' /\ JobAt(j)'
  OBVIOUS
<1>1. TickAt(j) /\ JobAt(j)
  BY DEF CoreInv
<1>2. /\ pc'[j] = pc[j] /\ job'[j] = job[j] /\ reading'[j] = reading[j]
      /\ ch'[j].removing = ch[j].removing /\ Len(ch'[j].queue) <= QueueSize
      /\ ch'[j].closed = ch[j].closed /\ made' = made /\ removedBy' = removedBy
  BY DEF Local, ChannelsStay
<1>3. TickAt(j)'
  BY <1>1, <1>2 DEF TickAt, Marked, Marks, Exists
<1>4. \A k \in Insts : /\ ch'[k].closed = ch[k].closed
                       /\ IsRemoving(k) => IsRemoving(k)'
                       /\ k \in Made <=> k \in Made'
  <2>1. \A k \in Insts : ch[k].removing \in Nat /\ ch'[k].removing \in Nat
    BY DEF CoreInv, Types, Channel
  <2> QED
    BY <1>2, <2>1 DEF Local, ChannelsStay, Made, Exists, IsRemoving
<1>5. JobAt(j)'
  <2>1. Made \subseteq Insts
    BY DEF Made
  <2> QED
    BY <1>1, <1>2, <1>4, <2>1 DEF JobAt
<1> QED
  BY <1>3, <1>5

\* The ids stay as they are as long as no channel is made or removed.
LEMMA TableKept ==
  ASSUME TableInv, ChannelsStay, UNCHANGED <<allChannels, nextChannelId, made>>, GLOBAL \in Insts
  PROVE  TableInv'
<1>1. Made' = Made /\ Made \subseteq Insts
  BY DEF Made, Exists
<1>2. \A i \in Made : IdAt(i)'
  BY <1>1 DEF TableInv, IdAt, ChannelsStay
<1> QED
  BY <1>1, <1>2 DEF TableInv, ChannelsStay

\* Taking a message.
LEMMA TakesMessage ==
  ASSUME LifecycleAssumption, CoreInv, NEW i \in Insts, NEW k, Takes(i, k)
  PROVE  /\ Exists(i) /\ Marked(i) = 0 /\ ~reading[i]
         /\ pc[i] \in {"messages", "top"}
         /\ Head(ch[i].queue) \in Messages /\ Head(ch[i].queue).kind = k
         /\ Taken(i) \in [Insts -> Channel]
         /\ \A j \in Insts \ {i} : Taken(i)[j] = ch[j]
         /\ Taken(i)[i] = [ch[i] EXCEPT !.queue = Tail(@)]
         /\ Len(Taken(i)[i].queue) <= QueueSize
<1> DEFINE q == ch[i].queue
<1>0. ch \in [Insts -> Channel] /\ pc \in [Insts -> PCs] /\ TickAt(i) /\ QueueSize \in Nat
  BY Constants DEF CoreInv, Types
<1>1. q \in Seq(Messages) /\ q # <<>> /\ Len(q) <= QueueSize /\ Head(q).kind = k
  BY <1>0 DEF Takes, TickAt, Channel
<1>2. Head(q) \in Messages /\ Tail(q) \in Seq(Messages) /\ Len(Tail(q)) <= QueueSize
  BY <1>0, <1>1
<1>3. Taken(i) = [ch EXCEPT ![i] = [ch[i] EXCEPT !.queue = Tail(q)]]
  BY <1>0 DEF Taken
<1>4. [ch[i] EXCEPT !.queue = Tail(q)] \in Channel
  <2>1. \A c \in Channel : \A t \in Seq(Messages) : [c EXCEPT !.queue = t] \in Channel
    BY DEF Channel
  <2>2. ch[i] \in Channel /\ Tail(q) \in Seq(Messages)
    BY <1>0, <1>2
  <2> QED
    BY <2>1, <2>2
<1>5. Exists(i) /\ Marked(i) = 0 /\ ~reading[i] /\ pc[i] \in {"messages", "top"}
  <2>1. CASE pc[i] = "messages"
    BY <1>0, <2>1 DEF TickAt, MidTick
  <2>2. CASE pc[i] = "top" /\ ~IsRemoving(i)
    <3>1. ch[i].removing = 0 /\ ch[i].closed \in BOOLEAN
      BY <1>0, <2>2 DEF IsRemoving, Channel
    <3> QED
      BY <1>0, <2>2, <3>1 DEF TickAt, Marked, Marks
  <2> QED
    BY <2>1, <2>2 DEF Takes
<1>6. \A j \in Insts \ {i} : Taken(i)[j] = ch[j]
  BY <1>0, <1>3
<1>7. Taken(i)[i] = [ch[i] EXCEPT !.queue = Tail(q)]
  BY <1>0, <1>3
<1>8. Len(Taken(i)[i].queue) <= QueueSize
  <2>1. Taken(i)[i].queue = Tail(q)
    BY <1>0, <1>7 DEF Channel
  <2> QED
    BY <2>1, <1>2
<1>9. Taken(i) \in [Insts -> Channel]
  BY <1>0, <1>3, <1>4
<1> QED
  BY <1>1, <1>2, <1>5, <1>6, <1>7, <1>8, <1>9

\* A step of the goroutine of i that creates, closes or marks no other channel.
LEMMA GoStep ==
  ASSUME LifecycleAssumption, CoreInv, NEW i \in Insts, Exists(i),
         NEW p \in PCs \ {"none"}, NEW b \in Job, NEW rd \in BOOLEAN,
         ch' \in [Insts -> Channel],
         \A j \in Insts : /\ ch'[j].kind = ch[j].kind /\ ch'[j].id = ch[j].id
                         /\ ch'[j].closed = ch[j].closed /\ Len(ch'[j].queue) <= QueueSize,
         \A j \in Insts \ {i} : ch'[j].removing = ch[j].removing,
         ch'[i].removing >= ch[i].removing, pc' = [pc EXCEPT ![i] = p],
         job' = [job EXCEPT ![i] = b],
         reading' = [reading EXCEPT ![i] = rd], writer' \in [Insts -> Insts \cup {Nobody}],
         kept' \in [Insts -> BOOLEAN], full' \in BOOLEAN,
         panicked' \in {"no", "send", "close", "nil"},
         UNCHANGED <<allChannels, nextChannelId, made, connVars, history>>,
         Marks(ch'[i]) \in 0 .. 2,
         rd => p \in {"connections", "broadcast", "ask", "send"}, p \in MidTick
         => Marks(ch'[i]) = 0,
         p \in {"ask", "send"} => Marks(ch'[i]) >= 1 /\ (rd => Marks(ch'[i]) = 1), p = "recover"
         => Marks(ch'[i]) <= 1,
         p \in Subscribing => b.msg \in Requests,
         p \in Subscribing \cup {"remove", "delete"} => b.at \in Made,
         p = "store" => /\ b.msg \in Requests /\ b.msg.kind = "createEntity"
                        /\ b.at # Nobody => b.at \in Made /\ IsRemoving(b.at),
         p # "delete", p = "setFull" => i = GLOBAL
  PROVE  CoreInv'
<1> USE DEF CoreInv
<1>2. Types'
  BY DEF Types, connVars, history
<1>4. /\ pc'[i] = p /\ job'[i] = b /\ reading'[i] = rd
      /\ made' = made /\ removedBy' = removedBy
  BY DEF Types, history
<1>5. ChannelsStay /\ Local(i)
  <2>1. \A j \in Insts : ch[j].removing \in Nat
    BY DEF Types, Channel
  <2>2. \A j \in Insts \ {i} : pc'[j] = pc[j] /\ job'[j] = job[j] /\ reading'[j] = reading[j]
    BY DEF Types
  <2> QED
    BY <1>4, <2>1, <2>2 DEF ChannelsStay, Local, history
<1>6. TickAt(i)'
  BY <1>4 DEF TickAt, Marked, Marks, Exists
<1>7. JobAt(i)'
  <2>1. \A j \in Insts : IsRemoving(j) => IsRemoving(j)'
    <3>1. \A j \in Insts : ch[j].removing \in Nat /\ ch'[j].removing \in Nat
      BY <1>2 DEF Types, Channel
    <3> QED
      BY <1>5, <3>1 DEF IsRemoving, ChannelsStay
  <2>2. Made' = Made /\ Made \subseteq Insts
    BY <1>4 DEF Made, Exists
  <2> QED
    BY <1>4, <2>1, <2>2 DEF JobAt, Subscribing
<1>8. TableInv'
  BY <1>5, Constants, TableKept
<1> QED
  BY <1>2, <1>5, <1>6, <1>7, <1>8, LocalStep

\* A step of the goroutine of i that changes nothing of the others, nor the table.
LEMMA OwnStep ==
  ASSUME LifecycleAssumption, CoreInv, NEW i \in Insts, Exists(i),
         NEW c \in Channel, NEW p \in PCs \ {"none"}, NEW b \in Job, NEW rd \in BOOLEAN,
         ch' = [ch EXCEPT ![i] = c], pc' = [pc EXCEPT ![i] = p], job' = [job EXCEPT ![i] = b],
         reading' = [reading EXCEPT ![i] = rd], writer' \in [Insts -> Insts \cup {Nobody}],
         kept' \in [Insts -> BOOLEAN], full' \in BOOLEAN,
         panicked' \in {"no", "send", "close", "nil"},
         UNCHANGED <<allChannels, nextChannelId, made, connVars, history>>,
         c.kind = ch[i].kind, c.id = ch[i].id, c.closed = ch[i].closed,
         c.removing >= ch[i].removing, Len(c.queue) <= QueueSize,
         Marks(c) \in 0 .. 2,
         rd => p \in {"connections", "broadcast", "ask", "send"}, p \in MidTick => Marks(c) = 0,
         p \in {"ask", "send"} => Marks(c) >= 1 /\ (rd => Marks(c) = 1), p = "recover"
         => Marks(c) <= 1,
         p \in Subscribing => b.msg \in Requests,
         p \in Subscribing \cup {"remove", "delete"} => b.at \in Made,
         p = "store" => /\ b.msg \in Requests /\ b.msg.kind = "createEntity"
                        /\ b.at # Nobody => b.at \in Made /\ IsRemoving(b.at),
         p # "delete", p = "setFull" => i = GLOBAL
  PROVE  CoreInv'
<1>0. ch \in [Insts -> Channel] /\ \A j \in Insts : Len(ch[j].queue) <= QueueSize
  BY DEF CoreInv, Types, TickAt
<1>1. ch' \in [Insts -> Channel] /\ ch'[i] = c /\ \A j \in Insts \ {i} : ch'[j] = ch[j]
  BY <1>0
<1>2. /\ \A j \in Insts : /\ ch'[j].kind = ch[j].kind /\ ch'[j].id = ch[j].id
                          /\ ch'[j].closed = ch[j].closed /\ Len(ch'[j].queue) <= QueueSize
      /\ \A j \in Insts \ {i} : ch'[j].removing = ch[j].removing
      /\ ch'[i].removing >= ch[i].removing
  BY <1>0, <1>1
<1>3. /\ Marks(ch'[i]) \in 0 .. 2
      /\ p \in MidTick => Marks(ch'[i]) = 0
      /\ p \in {"ask", "send"} => Marks(ch'[i]) >= 1 /\ (rd => Marks(ch'[i]) = 1)
      /\ p = "recover" => Marks(ch'[i]) <= 1
  BY <1>1
<1> QED
  BY <1>1, <1>2, <1>3, GoStep, ZenonT(30)

\* A handler that takes a message, perhaps changes the owner or the subscriptions, and
\* perhaps goes on with the message.
LEMMA TakeStep ==
  ASSUME LifecycleAssumption, CoreInv, NEW i \in Insts, NEW k, Takes(i, k),
         NEW o \in Conns \cup {Nobody}, NEW s \in SUBSET Conns,
         NEW p \in PCs \ {"none", "ask", "send", "recover", "delete"}, NEW b \in Job,
         ch' = [Taken(i) EXCEPT ![i].owner = o, ![i].subs = s],
         pc' = [pc EXCEPT ![i] = p], job' = [job EXCEPT ![i] = b],
         panicked' \in {"no", "send", "close", "nil"},
         UNCHANGED <<tableVars, kept, lockVars, connVars, history>>,
         p \in Subscribing => b.msg \in Requests,
         p \in Subscribing \cup {"remove"} => b.at \in Made,
         p = "store" => /\ b.msg \in Requests /\ b.msg.kind = "createEntity"
                        /\ b.at # Nobody => b.at \in Made /\ IsRemoving(b.at),
         p = "setFull" => i = GLOBAL
  PROVE  CoreInv'
<1> DEFINE c == [ch[i] EXCEPT !.queue = Tail(@), !.owner = o, !.subs = s]
<1>0. /\ ch \in [Insts -> Channel] /\ reading \in [Insts -> BOOLEAN] /\ ch[i].closed \in BOOLEAN
      /\ ch[i].removing \in Nat
  BY DEF CoreInv, Types, Channel
<1>1. /\ Exists(i) /\ Marked(i) = 0 /\ ~reading[i]
      /\ Taken(i) \in [Insts -> Channel]
      /\ \A j \in Insts \ {i} : Taken(i)[j] = ch[j]
      /\ Taken(i)[i] = [ch[i] EXCEPT !.queue = Tail(@)]
      /\ Len(Taken(i)[i].queue) <= QueueSize
  BY TakesMessage
<1>2. c \in Channel /\ Len(c.queue) <= QueueSize
  <2>0. ch[i] \in Channel /\ Taken(i)[i] \in Channel
    BY <1>0, <1>1
  <2>1. Taken(i)[i].queue = Tail(ch[i].queue) /\ c.queue = Tail(ch[i].queue)
    BY <1>1, <2>0 DEF Channel
  <2>2. Tail(ch[i].queue) \in Seq(Messages)
    BY <2>0, <2>1 DEF Channel
  <2> QED
    BY <1>1, <2>0, <2>1, <2>2 DEF Channel
<1>3. ch' = [ch EXCEPT ![i] = c]
  BY <1>0, <1>1 DEF Channel
<1>4. /\ c.kind = ch[i].kind /\ c.id = ch[i].id /\ c.closed = ch[i].closed
      /\ c.removing = ch[i].removing
  BY <1>0 DEF Channel
<1>5. Marks(c) = 0
  BY <1>1, <1>4 DEF Marked, Marks
<1>6. reading' = [reading EXCEPT ![i] = FALSE] /\ writer' \in [Insts -> Insts \cup {Nobody}]
      /\ kept' \in [Insts -> BOOLEAN] /\ full' \in BOOLEAN
      /\ UNCHANGED <<allChannels, nextChannelId, made, connVars, history>>
  BY <1>1 DEF CoreInv, Types, lockVars, tableVars
<1>7. /\ p \in PCs \ {"none"} /\ p # "delete" /\ p \notin {"ask", "send"} /\ p # "recover"
         /\ FALSE \in BOOLEAN
      /\ p \in Subscribing \cup {"remove", "delete"} => b.at \in Made
      /\ c.removing >= ch[i].removing /\ Marks(c) \in 0 .. 2 /\ (p \in MidTick => Marks(c) = 0)
  BY <1>0, <1>4, <1>5
<1> HIDE DEF c
<1> QED
  BY <1>1, <1>2, <1>3, <1>4, <1>6, <1>7, OwnStep, ZenonT(30)

\* ... or changes neither of them.
LEMMA TakeOnlyStep ==
  ASSUME LifecycleAssumption, CoreInv, NEW i \in Insts, NEW k, Takes(i, k),
         NEW p \in PCs \ {"none", "ask", "send", "recover", "delete"}, NEW b \in Job,
         ch' = Taken(i), pc' = [pc EXCEPT ![i] = p], job' = [job EXCEPT ![i] = b],
         panicked' \in {"no", "send", "close", "nil"},
         UNCHANGED <<tableVars, kept, lockVars, connVars, history>>,
         p \in Subscribing => b.msg \in Requests,
         p \in Subscribing \cup {"remove"} => b.at \in Made,
         p = "store" => /\ b.msg \in Requests /\ b.msg.kind = "createEntity"
                        /\ b.at # Nobody => b.at \in Made /\ IsRemoving(b.at),
         p = "setFull" => i = GLOBAL
  PROVE  CoreInv'
<1>1. ch[i] \in Channel
  BY DEF CoreInv, Types
<1>2. Taken(i) \in [Insts -> Channel] /\ Taken(i)[i] = [ch[i] EXCEPT !.queue = Tail(@)]
  BY TakesMessage
<1>3. /\ ch[i].owner \in Conns \cup {Nobody} /\ ch[i].subs \in SUBSET Conns
      /\ Taken(i)[i] \in Channel
      /\ Taken(i)[i].owner = ch[i].owner /\ Taken(i)[i].subs = ch[i].subs
  BY <1>1, <1>2 DEF Channel
<1>4. Taken(i)[i] = [Taken(i)[i] EXCEPT !.owner = ch[i].owner, !.subs = ch[i].subs]
  BY <1>3 DEF Channel
<1>5. Taken(i) = [Taken(i) EXCEPT ![i].owner = ch[i].owner, ![i].subs = ch[i].subs]
  BY <1>2, <1>4
<1>6. ch' = [Taken(i) EXCEPT ![i].owner = ch[i].owner, ![i].subs = ch[i].subs]
  BY <1>5
<1> QED
  BY <1>3, <1>6, TakeStep, ZenonT(30)

-----------------------------------------------------------------------------
(* Every step keeps CoreInv.                                               *)

\* The parts of a job.
LEMMA NoJobType ==
  ASSUME LifecycleAssumption
  PROVE  NoJob \in Job /\ \A m \in Messages,
         t \in Insts \cup {Nobody} : [msg |-> m, at |-> t] \in Job
BY Constants DEF NoJob, Job

\* The handlers that take a message and go on, or are done.
LEMMA TakingKeepsCore ==
  ASSUME LifecycleAssumption, CoreInv, NEW i \in Insts,
         \/ Possess(i) \/ FindFull(i) \/ RefuseCreate(i) \/ TestEntity(i) \/ HandleSub(i)
         \/ RemoveUnknown(i) \/ HandleRemove(i)
  PROVE  CoreInv'
<1> DEFINE m == Head(ch[i].queue)
<1>0. /\ job \in [Insts -> Job] /\ pc \in [Insts -> PCs]
         /\ allChannels \in [Ids -> Insts \cup {Nobody}]
      /\ panicked \in {"no", "send", "close", "nil"} /\ NoJob \in Job
  BY NoJobType DEF CoreInv, Types
<1>a. ASSUME NEW k, Takes(i, k)
      PROVE  m \in Messages /\ m.kind = k /\ Exists(i) /\ i \in Made
             /\ (k # "remove" => m \in Requests)
  <2>1. m \in Messages /\ m.kind = k /\ Exists(i)
    BY <1>a, TakesMessage, ZenonT(30)
  <2> QED
    BY <2>1, MessageTypes DEF Made
<1>b. \A x \in Ids : allChannels[x] # Nobody => allChannels[x] \in Made
  BY DEF CoreInv, TableInv
<1>c. ASSUME NEW k, Takes(i, k), ch' = Taken(i), Handled(i),
             panicked' \in {"no", "send", "close", "nil"},
             UNCHANGED <<tableVars, kept, lockVars, connVars, history>>
      PROVE  CoreInv'
  <2>1. pc' = [pc EXCEPT ![i] = "messages"] /\ job' = [job EXCEPT ![i] = NoJob]
    BY <1>c DEF Handled, Goto
  <2>2. /\ "messages" \in PCs \ {"none", "ask", "send", "recover", "delete"}
        /\ "messages" \notin Subscribing \cup {"remove"} /\ "messages" \notin Subscribing
        /\ "messages" # "store" /\ "messages" # "setFull"
    BY DEF PCs, Subscribing
  <2> HIDE DEF m
  <2> QED
    BY <1>0, <1>c, <2>1, <2>2, TakeOnlyStep, ZenonT(30)
<1> DEFINE now(t) == [msg |-> m, at |-> t]
<1>d. \A t \in Insts \cup {Nobody} : m \in Messages => now(t) \in Job /\ now(t).msg = m
      /\ now(t).at = t
  BY NoJobType
<1>e. /\ "subTest" \in PCs \ {"none", "ask", "send", "recover", "delete"}
      /\ "store" \in PCs \ {"none", "ask", "send", "recover", "delete"}
      /\ "remove" \in PCs \ {"none", "ask", "send", "recover", "delete"}
      /\ "setFull" \in PCs \ {"none", "ask", "send", "recover", "delete"}
      /\ "store" \notin Subscribing \cup {"remove"} /\ "remove" \notin Subscribing
      /\ "setFull" \notin Subscribing \cup {"remove"} /\ "store" \notin Subscribing
      /\ "setFull" \notin Subscribing
  BY DEF PCs, Subscribing
<1>1. CASE Possess(i)
  <2>1. Takes(i, "possess")
    BY <1>1 DEF Possess
  <2>2. CASE i = GLOBAL /\ ~HasOwner(GLOBAL)
    <3>1. /\ ch' = [Taken(i) EXCEPT ![i].owner = m.conn]
          /\ job' = [job EXCEPT ![i] = now(i)]
          /\ pc' = [pc EXCEPT ![i] = "subTest"]
          /\ UNCHANGED <<tableVars, kept, lockVars, connVars, panicked, history>>
      BY <1>1, <2>2 DEF Possess, Goto
    <3>2. /\ now(i) \in Job /\ now(i).msg = m /\ now(i).at = i /\ m \in Requests /\ i \in Made
          /\ m.conn \in Conns \cup {Nobody}
      <4>1. m \in Messages /\ m.kind = "possess" /\ i \in Made
        BY <1>a, <2>1, ZenonT(30)
      <4> HIDE DEF m
      <4>2. m \in Requests /\ m.conn \in Conns \cup {Nobody}
        BY <4>1, MessageTypes
      <4> QED
        BY <1>d, <4>1, <4>2
    <3>3. ch' = [Taken(i) EXCEPT ![i].owner = m.conn, ![i].subs = ch[i].subs]
      <4>1. ch[i] \in Channel
        BY DEF CoreInv, Types
      <4>2. Taken(i) \in [Insts -> Channel] /\ Taken(i)[i] = [ch[i] EXCEPT !.queue = Tail(@)]
        BY <2>1, TakesMessage
      <4>3. Taken(i)[i].subs = ch[i].subs
        BY <4>1, <4>2 DEF Channel
      <4> QED
        BY <3>1, <4>2, <4>3 DEF Channel
    <3>4. ch[i].subs \in SUBSET Conns
      BY DEF CoreInv, Types, Channel
    <3> DEFINE o == m.conn
               s == ch[i].subs
               b == now(i)
    <3>5. /\ ch' = [Taken(i) EXCEPT ![i].owner = o, ![i].subs = s]
          /\ o \in Conns \cup {Nobody} /\ s \in SUBSET Conns
          /\ job' = [job EXCEPT ![i] = b] /\ pc' = [pc EXCEPT ![i] = "subTest"]
          /\ b \in Job /\ b.msg \in Requests /\ b.at \in Made
          /\ UNCHANGED <<tableVars, kept, lockVars, connVars, history>>
          /\ panicked' \in {"no", "send", "close", "nil"}
      BY <1>0, <3>1, <3>2, <3>3, <3>4
    <3>6. "subTest" # "store" /\ "subTest" # "setFull"
      OBVIOUS
    <3> HIDE DEF o, s, b, now, m
    <3> QED
      BY <1>e, <2>1, <3>5, <3>6, TakeStep, ZenonT(30)
  <2>3. CASE ~(i = GLOBAL /\ ~HasOwner(GLOBAL))
    BY <1>0, <1>1, <1>c, <2>1, <2>3 DEF Possess
  <2> QED
    BY <2>2, <2>3
<1>2. CASE FindFull(i)
  <2>1. Takes(i, "create") /\ i = GLOBAL /\ ch' = Taken(i) /\ pc' = [pc EXCEPT ![i] = "setFull"]
        /\ UNCHANGED <<tableVars, kept, lockVars, connVars, panicked, history>>
    BY <1>2 DEF FindFull, Goto
  <2>2. job' = [job EXCEPT ![i] = job[i]] /\ job[i] \in Job
    BY <1>0, <1>2 DEF FindFull
  <2> HIDE DEF m
  <2> QED
    BY <1>0, <1>e, <2>1, <2>2, TakeOnlyStep, ZenonT(30)
<1>3. CASE RefuseCreate(i)
  BY <1>0, <1>3, <1>c DEF RefuseCreate
<1>4. CASE TestEntity(i)
  <2>1. Takes(i, "createEntity")
    BY <1>4 DEF TestEntity
  <2>2. m \in Requests /\ m.kind = "createEntity" /\ m.id \in Ids
    <3>1. m \in Messages /\ m.kind = "createEntity"
      BY <1>a, <2>1, ZenonT(30)
    <3> HIDE DEF m
    <3> QED
      BY <3>1, MessageTypes
  <2> DEFINE old == allChannels[m.id]
  <2>3. CASE ch[i].kind \in {"GLOBAL", "SPATIAL"} /\ (old = Nobody \/ IsRemoving(old))
    <3>1. /\ ch' = Taken(i) /\ job' = [job EXCEPT ![i] = now(old)]
          /\ pc' = [pc EXCEPT ![i] = "store"]
          /\ UNCHANGED <<tableVars, kept, lockVars, connVars, panicked, history>>
      BY <1>4, <2>3 DEF TestEntity, Goto
    <3>2. old \in Insts \cup {Nobody} /\ (old # Nobody => old \in Made /\ IsRemoving(old))
      BY <1>0, <1>b, <2>2, <2>3
    <3>3. now(old) \in Job /\ now(old).msg = m /\ now(old).at = old
      BY <1>d, <2>1, <1>a, <3>2
    <3> HIDE DEF now, old, m
    <3> QED
      BY <1>0, <2>1, <2>2, <3>1, <3>2, <3>3, <1>e, TakeOnlyStep, ZenonT(30)
  <2>4. CASE ~(ch[i].kind \in {"GLOBAL", "SPATIAL"} /\ (old = Nobody \/ IsRemoving(old)))
    BY <1>0, <1>4, <1>c, <2>1, <2>4 DEF TestEntity
  <2> QED
    BY <2>3, <2>4
<1>5. CASE HandleSub(i)
  <2>1. Takes(i, "sub")
    BY <1>5 DEF HandleSub
  <2>2. CASE MaySubscribe(i, "Sub")
    <3>1. /\ ch' = Taken(i) /\ job' = [job EXCEPT ![i] = now(i)]
          /\ pc' = [pc EXCEPT ![i] = "subTest"]
          /\ UNCHANGED <<tableVars, kept, lockVars, connVars, panicked, history>>
      BY <1>5, <2>2 DEF HandleSub, Goto
    <3>2. now(i) \in Job /\ now(i).msg = m /\ now(i).at = i /\ m \in Requests /\ i \in Made
      BY <1>a, <1>d, <2>1
    <3> HIDE DEF now, m
    <3> QED
      BY <1>0, <2>1, <3>1, <3>2, <1>e, TakeOnlyStep, ZenonT(30)
  <2>3. CASE ~MaySubscribe(i, "Sub")
    BY <1>0, <1>5, <1>c, <2>1, <2>3 DEF HandleSub
  <2> QED
    BY <2>2, <2>3
<1>6. CASE RemoveUnknown(i)
  BY <1>0, <1>6, <1>c DEF RemoveUnknown
<1>7. CASE HandleRemove(i)
  <2>1. Takes(i, "remove")
    BY <1>7 DEF HandleRemove
  <2>2. m \in Messages /\ m.id \in Ids
    BY <1>a, <2>1, MessageTypes
  <2> DEFINE t == allChannels[m.id]
             refused == HasConnection(m) /\ ~CheckACL(m.conn, t, "Remove")
  <2>3. CASE ~refused
    <3>1. /\ ch' = Taken(i) /\ job' = [job EXCEPT ![i] = now(t)]
          /\ pc' = [pc EXCEPT ![i] = "remove"] /\ t # Nobody
          /\ UNCHANGED <<tableVars, kept, lockVars, connVars, panicked, history>>
      BY <1>7, <2>3 DEF HandleRemove, Goto
    <3>2. t \in Insts /\ t \in Made
      BY <1>0, <1>b, <2>2, <3>1
    <3>3. now(t) \in Job /\ now(t).msg = m /\ now(t).at = t
      BY <1>d, <2>2, <3>2
    <3> HIDE DEF now, t, refused, m
    <3> QED
      BY <1>0, <2>1, <3>1, <3>2, <3>3, <1>e, TakeOnlyStep, ZenonT(30)
  <2>4. CASE refused
    BY <1>0, <1>7, <1>c, <2>1, <2>4 DEF HandleRemove
  <2> QED
    BY <2>3, <2>4
<1> QED
  BY <1>1, <1>2, <1>3, <1>4, <1>5, <1>6, <1>7

\* The goroutine of i is at one of its labels, and has the types that go with it.
LEMMA GoroutineFacts ==
  ASSUME LifecycleAssumption, CoreInv, NEW i \in Insts
  PROVE  /\ ch \in [Insts -> Channel] /\ ch[i] \in Channel /\ ch[i].closed \in BOOLEAN
         /\ ch[i].removing \in Nat /\ ch[i].owner \in Conns \cup {Nobody}
            /\ ch[i].subs \in SUBSET Conns
         /\ ch[i].queue \in Seq(Messages)
         /\ job \in [Insts -> Job] /\ job[i] \in Job /\ pc \in [Insts -> PCs] /\ NoJob \in Job
         /\ reading \in [Insts -> BOOLEAN] /\ reading[i] \in BOOLEAN
         /\ writer \in [Insts -> Insts \cup {Nobody}] /\ kept \in [Insts -> BOOLEAN]
            /\ full \in BOOLEAN
         /\ panicked \in {"no", "send", "close", "nil"}
         /\ TickAt(i) /\ JobAt(i) /\ (pc[i] # "none" => Exists(i) /\ i \in Made)
         /\ ch[i] = [ch[i] EXCEPT !.queue = ch[i].queue]
         /\ ch = [ch EXCEPT ![i] = ch[i]] /\ job = [job EXCEPT ![i] = job[i]]
         /\ reading = [reading EXCEPT ![i] = reading[i]]
         /\ Len(ch[i].queue) <= QueueSize
<1>1. ch \in [Insts -> Channel] /\ TickAt(i) /\ JobAt(i)
  BY DEF CoreInv, Types
<1>2. ch[i] \in Channel
  BY <1>1
<1>3. ch[i] = [ch[i] EXCEPT !.queue = ch[i].queue]
  BY <1>2 DEF Channel
<1>4. ch = [ch EXCEPT ![i] = ch[i]] /\ job = [job EXCEPT ![i] = job[i]]
      /\ reading = [reading EXCEPT ![i] = reading[i]]
  BY DEF CoreInv, Types
<1>5. pc[i] # "none" => Exists(i) /\ i \in Made
  BY <1>1 DEF TickAt, Made
<1> QED
  BY <1>1, <1>2, <1>3, <1>4, <1>5, NoJobType DEF CoreInv, Types, Channel, TickAt

\* A step that only moves the goroutine of i, and may take or give up a lock.
LEMMA MoveStep ==
  ASSUME LifecycleAssumption, CoreInv, NEW i \in Insts, pc[i] # "none",
         NEW p \in PCs \ {"none"}, NEW b \in Job, NEW rd \in BOOLEAN,
         UNCHANGED ch, pc' = [pc EXCEPT ![i] = p], job' = [job EXCEPT ![i] = b],
         reading' = [reading EXCEPT ![i] = rd], writer' \in [Insts -> Insts \cup {Nobody}],
         kept' \in [Insts -> BOOLEAN], full' \in BOOLEAN,
         panicked' \in {"no", "send", "close", "nil"},
         UNCHANGED <<allChannels, nextChannelId, made, connVars, history>>,
         rd => p \in {"connections", "broadcast", "ask", "send"}, p \in MidTick => Marked(i) = 0,
         p # "ask", p # "send", p = "recover" => Marked(i) <= 1,
         p \in Subscribing => b.msg \in Requests,
         p \in Subscribing \cup {"remove"} => b.at \in Made,
         p # "store", p # "delete", p # "setFull"
  PROVE  CoreInv'
<1>1. /\ ch[i] \in Channel /\ Exists(i) /\ Len(ch[i].queue) <= QueueSize
      /\ Marks(ch[i]) \in 0 .. 2 /\ ch[i].removing >= ch[i].removing
      /\ ch' = [ch EXCEPT ![i] = ch[i]]
  <2>1. /\ ch[i] \in Channel /\ TickAt(i) /\ Len(ch[i].queue) <= QueueSize /\ Exists(i)
        /\ ch[i].removing \in Nat /\ ch = [ch EXCEPT ![i] = ch[i]]
    BY GoroutineFacts
  <2>2. Marks(ch[i]) \in 0 .. 2
    BY <2>1 DEF TickAt, Marked
  <2> QED
    BY <2>1, <2>2
<1>2. /\ p \in MidTick => Marks(ch[i]) = 0
      /\ p = "recover" => Marks(ch[i]) <= 1
      /\ p \in Subscribing \cup {"remove", "delete"} => b.at \in Made
  BY DEF Marked
<1> QED
  BY <1>1, <1>2, OwnStep, ZenonT(30)

\* The rest of the steps that leave the channels alone.
LEMMA MovingKeepsCore ==
  ASSUME LifecycleAssumption, CoreInv, NEW i \in Insts,
         \/ SetFull(i) \/ SubTest(i) \/ SubLock(i) \/ EndTick(i) \/ TickConnections(i)
         \/ (\E c \in Conns : OwnerLost(i, c)) \/ Unlock(i) \/ Wait(i) \/ Stop(i)
  PROVE  CoreInv'
<1>0. /\ job[i] \in Job /\ NoJob \in Job /\ reading \in [Insts -> BOOLEAN] /\ reading[i] \in BOOLEAN
      /\ writer \in [Insts -> Insts \cup {Nobody}] /\ kept \in [Insts -> BOOLEAN]
         /\ full \in BOOLEAN
      /\ panicked \in {"no", "send", "close", "nil"}
      /\ job = [job EXCEPT ![i] = job[i]] /\ reading = [reading EXCEPT ![i] = reading[i]]
      /\ TRUE \in BOOLEAN /\ FALSE \in BOOLEAN
  BY GoroutineFacts
<1>a. /\ pc[i] \in MidTick => Marked(i) = 0
      /\ reading[i] => pc[i] \in {"connections", "broadcast", "ask", "send"}
      /\ pc[i] \in Subscribing => job[i].msg \in Requests /\ job[i].at \in Made
         /\ job[i].at \in Insts
      /\ pc[i] = "top" /\ ~IsRemoving(i) => Marked(i) = 0
  <2>1. TickAt(i) /\ JobAt(i) /\ Made \subseteq Insts /\ ch[i].removing \in Nat
        /\ ch[i].closed \in BOOLEAN
    BY GoroutineFacts DEF Made
  <2> QED
    BY <2>1 DEF TickAt, JobAt, Marked, Marks, IsRemoving
<1>b. {"messages", "top", "subLock", "subWait", "connections", "broadcast", "recover", "stopped"}
         \subseteq PCs \ {"none"}
  BY DEF PCs
<1>1. CASE SetFull(i)
  <2>1. /\ pc[i] = "setFull" /\ pc' = [pc EXCEPT ![i] = "messages"]
           /\ job' = [job EXCEPT ![i] = NoJob]
        /\ full' \in BOOLEAN /\ UNCHANGED <<allChannels, nextChannelId, made, ch, kept, lockVars,
           connVars,
                                            panicked, history>>
    BY <1>1 DEF SetFull, Handled, Goto
  <2>2. reading' = [reading EXCEPT ![i] = FALSE] /\ writer' = writer
    BY <1>0, <1>a, <2>1 DEF lockVars
  <2> QED
    BY <1>0, <1>a, <1>b, <2>1, <2>2, MoveStep DEF Subscribing, MidTick
<1>2. CASE SubTest(i)
  <2>1. pc[i] = "subTest" /\ UNCHANGED <<tableVars, ch, kept, lockVars, connVars, panicked,
        history>>
    BY <1>2 DEF SubTest
  <2>2. reading' = [reading EXCEPT ![i] = FALSE] /\ writer' = writer
    BY <1>0, <1>a, <2>1 DEF lockVars
  <2>3. CASE pc' = [pc EXCEPT ![i] = "messages"] /\ job' = [job EXCEPT ![i] = NoJob]
    BY <1>0, <1>a, <1>b, <2>1, <2>2, <2>3, MoveStep DEF Subscribing, MidTick, tableVars
  <2>4. CASE pc' = [pc EXCEPT ![i] = "subLock"] /\ job' = job
    BY <1>0, <1>a, <1>b, <2>1, <2>2, <2>4, MoveStep DEF Subscribing, MidTick, tableVars
  <2> QED
    BY <1>2, <2>3, <2>4 DEF SubTest, Handled, Goto
<1>3. CASE SubLock(i)
  <2>1. /\ pc[i] = "subLock" /\ writer' = [writer EXCEPT ![job[i].at] = i] /\ job' = job
        /\ pc' = [pc EXCEPT ![i] = "subWait"] /\ reading' = reading
        /\ UNCHANGED <<tableVars, ch, kept, connVars, panicked, history>>
    BY <1>3 DEF SubLock, Goto
  <2>2. writer' \in [Insts -> Insts \cup {Nobody}]
    BY <1>0, <2>1
  <2> QED
    BY <1>0, <1>a, <1>b, <2>1, <2>2, MoveStep DEF Subscribing, MidTick, tableVars
<1>4. CASE EndTick(i)
  BY <1>0, <1>4, <1>a, <1>b, MoveStep DEF EndTick, Goto, Subscribing, MidTick, tableVars, lockVars
<1>5. CASE TickConnections(i)
  <2>1. pc[i] = "messages" \/ (pc[i] = "top" /\ ~IsRemoving(i))
    BY <1>5 DEF TickConnections
  <2>2. /\ reading' = [reading EXCEPT ![i] = TRUE] /\ pc' = [pc EXCEPT ![i] = "connections"]
        /\ UNCHANGED <<tableVars, ch, job, kept, writer, connVars, panicked, history>>
    BY <1>5 DEF TickConnections, Goto
  <2>3. Marked(i) = 0
    BY <1>a, <2>1 DEF MidTick
  <2> QED
    BY <1>0, <1>b, <2>1, <2>2, <2>3, MoveStep DEF Subscribing, tableVars
<1>6. CASE \E c \in Conns : OwnerLost(i, c)
  <2>1. /\ pc[i] = "connections" /\ pc' = [pc EXCEPT ![i] = "broadcast"]
        /\ UNCHANGED <<tableVars, ch, job, kept, lockVars, connVars, panicked, history>>
    BY <1>6 DEF OwnerLost, Goto
  <2>2. Marked(i) = 0
    BY <1>a, <2>1 DEF MidTick
  <2> QED
    BY <1>0, <1>b, <2>1, <2>2, MoveStep DEF Subscribing, tableVars, lockVars
<1>7. CASE Unlock(i)
  <2>1. /\ pc[i] = "connections" /\ reading' = [reading EXCEPT ![i] = FALSE]
        /\ pc' = [pc EXCEPT ![i] = AfterUnlock(i)] /\ AfterUnlock(i) \in {"recover", "top"}
        /\ UNCHANGED <<tableVars, ch, job, kept, writer, connVars, panicked, history>>
    BY <1>7 DEF Unlock, Goto, AfterUnlock
  <2>2. Marked(i) = 0
    BY <1>a, <2>1 DEF MidTick
  <2> DEFINE p == AfterUnlock(i)
  <2> HIDE DEF p
  <2>3. p \in {"recover", "top"} /\ pc' = [pc EXCEPT ![i] = p]
    BY <2>1 DEF p
  <2>4. p \in PCs \ {"none"} /\ p \notin Subscribing \cup {"remove"} /\ p \notin MidTick
        /\ p \notin {"ask", "send", "store", "delete", "setFull"} /\ pc[i] # "none"
           /\ p \notin Subscribing
    BY <1>b, <2>1, <2>3 DEF Subscribing, MidTick
  <2>5. /\ p = "recover" => Marked(i) <= 1
        /\ writer' \in [Insts -> Insts \cup {Nobody}] /\ kept' \in [Insts -> BOOLEAN]
        /\ full' \in BOOLEAN /\ panicked' \in {"no", "send", "close", "nil"}
        /\ UNCHANGED <<allChannels, nextChannelId, made, connVars, history>>
        /\ UNCHANGED ch /\ job' = [job EXCEPT ![i] = job[i]]
        /\ reading' = [reading EXCEPT ![i] = FALSE]
    BY <1>0, <2>1, <2>2 DEF tableVars
  <2> QED
    BY <1>0, <2>3, <2>4, <2>5, MoveStep, ZenonT(30)
<1>8. CASE Wait(i)
  BY <1>0, <1>8, <1>a, <1>b, MoveStep DEF Wait, Goto, Subscribing, MidTick, tableVars, lockVars
<1>9. CASE Stop(i)
  BY <1>0, <1>9, <1>a, <1>b, MoveStep DEF Stop, Goto, Subscribing, MidTick, tableVars, lockVars
<1> QED
  BY <1>1, <1>2, <1>3, <1>4, <1>5, <1>6, <1>7, <1>8, <1>9

\* Marking a channel once more.
LEMMA MarksStep ==
  ASSUME NEW c \in Channel, NEW d, d.closed = c.closed
  PROVE  /\ Marks(c) \in Int /\ (d.removing = c.removing => Marks(d) = Marks(c))
         /\ d.removing = c.removing + 1 => Marks(d) = Marks(c) + 1 /\ d.removing >= c.removing
<1>1. c.removing \in Nat /\ c.closed \in BOOLEAN
  BY DEF Channel
<1> QED
  BY <1>1 DEF Marks

\* ... and what the mark changes.
LEMMA MarkedType ==
  ASSUME NEW c \in Channel
  PROVE  /\ [c EXCEPT !.removing = @ + 1] \in Channel
         /\ [c EXCEPT !.removing = @ + 1].kind = c.kind /\ [c EXCEPT !.removing = @ + 1].id = c.id
         /\ [c EXCEPT !.removing = @ + 1].closed = c.closed
         /\ [c EXCEPT !.removing = @ + 1].queue = c.queue
         /\ [c EXCEPT !.removing = @ + 1].removing = c.removing + 1
<1>1. c.removing + 1 \in Nat
  BY DEF Channel
<1> QED
  BY <1>1 DEF Channel

\* A channel that loses a subscriber.
Lost(i, c) ==
  [ch[i] EXCEPT !.subs = @ \ {c}, !.owner = IF @ = c THEN Nobody ELSE @]
\* What is left as it was.
LEMMA DroppedFacts ==
  ASSUME LifecycleAssumption, CoreInv, NEW i \in Insts, NEW c
  PROVE  /\ Dropped(i, c) = [ch EXCEPT ![i] = Lost(i, c)] /\ Lost(i, c) \in Channel
         /\ Lost(i, c).kind = ch[i].kind /\ Lost(i, c).id = ch[i].id
         /\ Lost(i, c).closed = ch[i].closed /\ Lost(i, c).removing = ch[i].removing
         /\ Lost(i, c).queue = ch[i].queue
<1>1. ch \in [Insts -> Channel] /\ ch[i] \in Channel
  BY GoroutineFacts
<1>2. Lost(i, c) \in Channel
  BY <1>1 DEF Lost, Channel
<1>3. Dropped(i, c) = [ch EXCEPT ![i] = Lost(i, c)]
  BY <1>1 DEF Lost, Dropped, Channel
<1>4. /\ Lost(i, c).kind = ch[i].kind /\ Lost(i, c).id = ch[i].id
      /\ Lost(i, c).closed = ch[i].closed /\ Lost(i, c).removing = ch[i].removing
      /\ Lost(i, c).queue = ch[i].queue
  BY <1>1 DEF Lost, Channel
<1> QED
  BY <1>2, <1>3, <1>4

\* tickConnections, and the marks it and tickRecoverableSubscriptions leave.
LEMMA MarkingKeepsCore ==
  ASSUME LifecycleAssumption, CoreInv, NEW i \in Insts,
         \/ \E c \in Conns : DropSubscriber(i, c) \/ OwnerRemoved(i, c)
         \/ Broadcast(i) \/ GiveUp(i)
  PROVE  CoreInv'
<1>0. /\ ch \in [Insts -> Channel] /\ ch[i] \in Channel /\ ch[i].closed \in BOOLEAN
         /\ ch[i].removing \in Nat
      /\ job[i] \in Job /\ pc \in [Insts -> PCs]
      /\ reading \in [Insts -> BOOLEAN] /\ reading[i] \in BOOLEAN
      /\ writer \in [Insts -> Insts \cup {Nobody}] /\ kept \in [Insts -> BOOLEAN]
         /\ full \in BOOLEAN
      /\ panicked \in {"no", "send", "close", "nil"}
      /\ job = [job EXCEPT ![i] = job[i]] /\ reading = [reading EXCEPT ![i] = reading[i]]
      /\ Len(ch[i].queue) <= QueueSize /\ (pc[i] # "none" => Exists(i))
  BY GoroutineFacts
<1>a. /\ pc[i] \in {"connections", "broadcast"} => Marks(ch[i]) = 0
      /\ pc[i] = "recover" => Marks(ch[i]) \in 0 .. 1
      /\ reading[i] => pc[i] \in {"connections", "broadcast", "ask", "send"}
      /\ pc[i] = "top" /\ ~IsRemoving(i) => Marks(ch[i]) = 0
  <2>1. TickAt(i)
    BY GoroutineFacts
  <2> QED
    BY <1>0, <2>1 DEF TickAt, Marked, Marks, IsRemoving, MidTick
<1>b. /\ {"connections", "top", "ask"} \subseteq PCs \ {"none"}
      /\ {"connections", "top",
         "ask"} \cap (Subscribing \cup {"remove", "delete", "store", "setFull"}) = {}
      /\ "top" \notin MidTick /\ "ask" \notin MidTick
  BY DEF PCs, Subscribing, MidTick
<1>f. /\ ch[i].removing \in Nat /\ Len(ch[i].queue) <= QueueSize /\ ch[i] \in Channel
      /\ reading[i] \in BOOLEAN /\ (pc[i] # "none" => Exists(i))
  BY GoroutineFacts
<1>e. /\ "connections" \in PCs \ {"none"} /\ "ask" \in PCs \ {"none"}
      /\ "connections" \notin Subscribing /\ "ask" \notin Subscribing
      /\ "connections" \notin Subscribing \cup {"remove", "delete"}
      /\ "ask" \notin Subscribing \cup {"remove", "delete"}
      /\ "ask" \in {"connections", "broadcast", "ask", "send"}
      /\ "connections" \in {"connections", "broadcast", "ask", "send"}
  BY DEF PCs, Subscribing
<1>c. ASSUME NEW c, pc[i] # "none", Marks(ch[i]) = 0, kept' \in [Insts -> BOOLEAN],
             ch' = Dropped(i, c), pc' = [pc EXCEPT ![i] = "connections"],
             UNCHANGED <<tableVars, job, lockVars, connVars, panicked, history>>
      PROVE  CoreInv'
  <2> DEFINE d == Lost(i, c)
  <2>1. /\ ch' = [ch EXCEPT ![i] = d] /\ d \in Channel /\ d.kind = ch[i].kind /\ d.id = ch[i].id
        /\ d.closed = ch[i].closed /\ d.removing = ch[i].removing /\ d.queue = ch[i].queue
    BY <1>c, DroppedFacts
  <2> HIDE DEF d
  <2>2. Marks(d) = 0 /\ d.removing >= ch[i].removing /\ Len(d.queue) <= QueueSize
    <3>1. d.removing = ch[i].removing => Marks(d) = Marks(ch[i])
      BY <1>f, <2>1, MarksStep
    <3>2. Marks(ch[i]) = 0
      BY <1>c
    <3> QED
      BY <1>f, <2>1, <3>1, <3>2
  <2>4. Marks(d) \in 0 .. 2 /\ Exists(i)
    <3>1. Exists(i)
      BY <1>f, <1>c
    <3> QED
      BY <2>2, <3>1
  <2>3. /\ writer' \in [Insts -> Insts \cup {Nobody}]
        /\ full' \in BOOLEAN /\ panicked' \in {"no", "send", "close", "nil"}
        /\ job' = [job EXCEPT ![i] = job[i]] /\ reading' = [reading EXCEPT ![i] = reading[i]]
        /\ UNCHANGED <<allChannels, nextChannelId, made, connVars, history>>
    BY <1>0, <1>c DEF tableVars, lockVars
  <2> QED
    BY <1>0, <1>b, <1>c, <1>e, <2>1, <2>2, <2>3, <2>4, OwnStep, ZenonT(30)
<1>d. ASSUME NEW d \in Channel, pc[i] # "none", kept' \in [Insts -> BOOLEAN],
             ch' = [ch EXCEPT ![i] = d], pc' = [pc EXCEPT ![i] = "ask"],
             d.kind = ch[i].kind, d.id = ch[i].id, d.closed = ch[i].closed,
             d.removing = ch[i].removing + 1, d.queue = ch[i].queue,
             Marks(ch[i]) \in 0 .. 1, reading[i] => Marks(ch[i]) = 0,
             UNCHANGED <<tableVars, job, lockVars, connVars, panicked, history>>
      PROVE  CoreInv'
  <2>2. /\ Marks(d) \in 1 .. 2 /\ (reading[i] => Marks(d) = 1)
        /\ d.removing >= ch[i].removing /\ Len(d.queue) <= QueueSize
    <3>1. Marks(d) = Marks(ch[i]) + 1 /\ d.removing >= ch[i].removing
      BY <1>f, <1>d, MarksStep
    <3>2. Marks(ch[i]) \in 0 .. 1 /\ (reading[i] => Marks(ch[i]) = 0) /\ d.queue = ch[i].queue
      BY <1>d
    <3> QED
      BY <1>f, <3>1, <3>2
  <2>3. /\ Exists(i) /\ Marks(d) \in 0 .. 2 /\ writer' \in [Insts -> Insts \cup {Nobody}]
        /\ full' \in BOOLEAN /\ panicked' \in {"no", "send", "close", "nil"} /\ Marks(d) >= 1
        /\ job' = [job EXCEPT ![i] = job[i]] /\ reading' = [reading EXCEPT ![i] = reading[i]]
        /\ UNCHANGED <<allChannels, nextChannelId, made, connVars, history>>
    BY <1>0, <1>d, <2>2 DEF tableVars, lockVars
  <2> QED
    BY <1>0, <1>b, <1>d, <1>e, <2>2, <2>3, OwnStep, ZenonT(30)
<1>1. ASSUME NEW c \in Conns, DropSubscriber(i, c) PROVE CoreInv'
  <2>1. /\ pc[i] = "connections" /\ ch' = Dropped(i, c) /\ Keep(i, c)
        /\ UNCHANGED <<tableVars, pc, job, lockVars, connVars, panicked, history>>
    BY <1>1 DEF DropSubscriber
  <2>2. pc' = [pc EXCEPT ![i] = "connections"] /\ kept' \in [Insts -> BOOLEAN]
    BY <1>0, <2>1 DEF Keep
  <2> QED
    BY <1>a, <1>c, <2>1, <2>2
<1>2. ASSUME NEW c \in Conns, OwnerRemoved(i, c) PROVE CoreInv'
  <2>1. /\ pc[i] = "connections" /\ Keep(i, c)
        /\ UNCHANGED <<tableVars, job, lockVars, connVars, panicked, history>>
    BY <1>2 DEF OwnerRemoved
  <2>2. kept' \in [Insts -> BOOLEAN]
    BY <1>0, <2>1 DEF Keep
  <2>3. CASE ch' = Dropped(i, c) /\ UNCHANGED pc
    <3>1. pc' = [pc EXCEPT ![i] = "connections"]
      BY <1>0, <2>1, <2>3
    <3> QED
      BY <1>a, <1>c, <2>1, <2>2, <2>3, <3>1
  <2>4. CASE ch' = [Dropped(i, c) EXCEPT ![i].removing = @ + 1] /\ Goto(i, "ask")
    <3> DEFINE d == [Lost(i, c) EXCEPT !.removing = @ + 1]
    <3>1. /\ Dropped(i, c) = [ch EXCEPT ![i] = Lost(i, c)] /\ Lost(i, c) \in Channel
          /\ Lost(i, c).kind = ch[i].kind /\ Lost(i, c).id = ch[i].id
             /\ Lost(i, c).queue = ch[i].queue
          /\ Lost(i, c).closed = ch[i].closed /\ Lost(i, c).removing = ch[i].removing
      BY DroppedFacts
    <3>2. ch' = [ch EXCEPT ![i] = d]
      BY <1>0, <2>4, <3>1
    <3>3. /\ d.kind = ch[i].kind /\ d.id = ch[i].id /\ d.closed = ch[i].closed
          /\ d.removing = ch[i].removing + 1 /\ d.queue = ch[i].queue
      BY <3>1, MarkedType
    <3>6. d \in Channel
      BY <3>1, MarkedType
    <3> HIDE DEF d
    <3>4. pc' = [pc EXCEPT ![i] = "ask"]
      BY <2>4 DEF Goto
    <3>5. Marks(ch[i]) = 0 /\ Marks(ch[i]) \in 0 .. 1 /\ pc[i] # "none"
      BY <1>a, <2>1
    <3> QED
      BY <1>d, <2>1, <2>2, <3>2, <3>3, <3>4, <3>5, <3>6
  <2> QED
    BY <1>2, <2>3, <2>4 DEF OwnerRemoved
<1>3. CASE Broadcast(i)
  <2>1. /\ pc[i] = "broadcast" /\ ch' = Dropped(i, ch[i].owner) /\ Keep(i, ch[i].owner)
        /\ pc' = [pc EXCEPT ![i] = "connections"]
        /\ UNCHANGED <<tableVars, job, lockVars, connVars, panicked, history>>
    BY <1>3 DEF Broadcast, Goto
  <2>2. kept' \in [Insts -> BOOLEAN]
    BY <1>0, <2>1 DEF Keep
  <2> QED
    BY <1>a, <1>c, <2>1, <2>2
<1>4. CASE GiveUp(i)
  <2>1. /\ pc[i] = "recover" \/ (pc[i] = "top" /\ ~IsRemoving(i))
        /\ kept' = [kept EXCEPT ![i] = FALSE]
        /\ UNCHANGED <<tableVars, job, lockVars, connVars, panicked, history>>
    BY <1>4 DEF GiveUp
  <2>2. kept' \in [Insts -> BOOLEAN] /\ Marks(ch[i]) \in 0 .. 1 /\ ~reading[i] /\ pc[i] # "none"
    BY <1>0, <1>a, <2>1
  <2>3. CASE ch' = [ch EXCEPT ![i].removing = @ + 1] /\ Goto(i, "ask")
    <3> DEFINE d == [ch[i] EXCEPT !.removing = @ + 1]
    <3>1. d \in Channel /\ ch' = [ch EXCEPT ![i] = d]
      BY <1>0, <2>3, MarkedType
    <3>2. /\ d.kind = ch[i].kind /\ d.id = ch[i].id /\ d.closed = ch[i].closed
          /\ d.removing = ch[i].removing + 1 /\ d.queue = ch[i].queue
      BY <1>0, MarkedType
    <3> HIDE DEF d
    <3>3. pc' = [pc EXCEPT ![i] = "ask"]
      BY <2>3 DEF Goto
    <3> QED
      BY <1>d, <2>1, <2>2, <3>1, <3>2, <3>3
  <2>4. CASE Goto(i, "top") /\ UNCHANGED ch
    <3>1. /\ pc' = [pc EXCEPT ![i] = "top"] /\ ch' = ch
             /\ reading' = [reading EXCEPT ![i] = reading[i]]
          /\ writer' = writer /\ job' = [job EXCEPT ![i] = job[i]]
          /\ UNCHANGED <<allChannels, nextChannelId, made, full, connVars, panicked, history>>
      BY <1>0, <2>1, <2>4 DEF Goto, tableVars, lockVars
    <3> QED
      BY <1>0, <1>b, <2>2, <3>1, MoveStep
  <2> QED
    BY <1>4, <2>3, <2>4 DEF GiveUp
<1> QED
  BY <1>1, <1>2, <1>3, <1>4

\* Handling an unsubscription, the owner's or another one's.
LEMMA HandleUnsubKeepsCore ==
  ASSUME LifecycleAssumption, CoreInv, NEW i \in Insts, HandleUnsub(i)
  PROVE  CoreInv'
<1> DEFINE c == Head(ch[i].queue).target
           refused == ~(MaySubscribe(i, "Unsub") /\ c \in ch[i].subs)
           s == ch[i].subs \ {c}
           o == IF ch[i].owner = c THEN Nobody ELSE ch[i].owner
<1>0. /\ ch[i] \in Channel /\ ch[i].owner \in Conns \cup {Nobody} /\ ch[i].subs \in SUBSET Conns
      /\ NoJob \in Job /\ panicked \in {"no", "send", "close", "nil"}
  BY GoroutineFacts
<1>1. /\ Takes(i, "unsub") /\ pc' = [pc EXCEPT ![i] = "messages"]
         /\ job' = [job EXCEPT ![i] = NoJob]
      /\ UNCHANGED <<tableVars, kept, lockVars, connVars, history>>
      /\ panicked' \in {"no", "send", "close", "nil"}
  BY <1>0 DEF HandleUnsub, Handled, Goto
<1>2. /\ "messages" \in PCs \ {"none", "ask", "send", "recover", "delete"}
      /\ "messages" \notin Subscribing \cup {"remove"} /\ "messages" \notin Subscribing
      /\ "messages" # "store" /\ "messages" # "setFull"
  BY DEF PCs, Subscribing
<1>3. CASE refused
  <2>1. ch' = Taken(i)
    BY <1>3 DEF HandleUnsub
  <2> QED
    BY <1>0, <1>1, <1>2, <2>1, TakeOnlyStep, ZenonT(30)
<1>4. CASE ~refused
  <2>0. Taken(i) \in [Insts -> Channel] /\ Taken(i)[i] = [ch[i] EXCEPT !.queue = Tail(@)]
    BY <1>1, TakesMessage
  <2>1. Taken(i)[i].subs = ch[i].subs /\ Taken(i)[i].owner = ch[i].owner
    BY <1>0, <2>0 DEF Channel
  <2>2. ch' = [Taken(i) EXCEPT ![i].subs = @ \ {c}, ![i].owner = IF @ = c THEN Nobody ELSE @]
    BY <1>4 DEF HandleUnsub
  <2>3. ch' = [Taken(i) EXCEPT ![i].owner = o, ![i].subs = s]
    BY <2>0, <2>1, <2>2 DEF Channel
  <2>4. o \in Conns \cup {Nobody} /\ s \in SUBSET Conns
    BY <1>0
  <2> HIDE DEF o, s, c, refused
  <2> QED
    BY <1>0, <1>1, <1>2, <2>3, <2>4, TakeStep, ZenonT(30)
<1> QED
  BY <1>3, <1>4

\* Subscribing, to whatever channel.
LEMMA SubscribeKeepsCore ==
  ASSUME LifecycleAssumption, CoreInv, NEW i \in Insts, Subscribe(i)
  PROVE  CoreInv'
<1> DEFINE t == job[i].at
           c == job[i].msg.target
           d == [ch[t] EXCEPT !.subs = @ \cup {c}]
<1>1. /\ pc[i] = "subWait" /\ ch' = [ch EXCEPT ![t].subs = @ \cup {c}]
      /\ writer' = [writer EXCEPT ![t] = Nobody]
      /\ pc' = [pc EXCEPT ![i] = "messages"] /\ job' = [job EXCEPT ![i] = NoJob]
      /\ UNCHANGED <<tableVars, kept, reading, connVars, panicked, history>>
  BY DEF Subscribe, Handled, Goto
<1>2. /\ TickAt(i) /\ JobAt(i) /\ Exists(i) /\ NoJob \in Job /\ ch \in [Insts -> Channel]
      /\ reading \in [Insts -> BOOLEAN] /\ reading[i] \in BOOLEAN
      /\ panicked \in {"no", "send", "close", "nil"} /\ full \in BOOLEAN
         /\ kept \in [Insts -> BOOLEAN]
      /\ writer \in [Insts -> Insts \cup {Nobody}]
  BY <1>1, GoroutineFacts
<1>3. t \in Insts /\ c \in Conns
  BY <1>1, <1>2, MessageTypes DEF JobAt, Subscribing, Made
<1>4. ~reading[i] /\ Marks(ch[i]) = 0
  BY <1>1, <1>2 DEF TickAt, Marked, MidTick
<1> HIDE DEF t, c
<1>5. ch[t] \in Channel
  BY <1>2, <1>3
<1>6. d \in Channel /\ d.kind = ch[t].kind /\ d.id = ch[t].id /\ d.closed = ch[t].closed
      /\ d.removing = ch[t].removing /\ d.queue = ch[t].queue
  BY <1>3, <1>5 DEF Channel
<1>7. ch' = [ch EXCEPT ![t] = d]
  BY <1>1, <1>2
<1> HIDE DEF d
<1>8. /\ ch' \in [Insts -> Channel]
      /\ \A j \in Insts : /\ ch'[j].kind = ch[j].kind /\ ch'[j].id = ch[j].id
                          /\ ch'[j].closed = ch[j].closed /\ ch'[j].queue = ch[j].queue
                          /\ ch'[j].removing = ch[j].removing
  BY <1>2, <1>3, <1>6, <1>7
<1>9. \A j \in Insts : Len(ch'[j].queue) <= QueueSize
  BY <1>8 DEF CoreInv, TickAt
<1>10. ch[i] \in Channel /\ Marks(ch'[i]) = 0 /\ ch'[i].removing >= ch[i].removing
  <2>1. ch[i] \in Channel /\ ch[i].removing \in Nat
    BY GoroutineFacts
  <2> QED
    BY <1>4, <1>8, <2>1, MarksStep
<1>11. /\ "messages" \in PCs \ {"none"} /\ "messages" \notin Subscribing
       /\ "messages" \notin Subscribing \cup {"remove", "delete"} /\ FALSE \in BOOLEAN
       /\ Marks(ch'[i]) \in 0 .. 2
       /\ \A j \in Insts : /\ ch'[j].kind = ch[j].kind /\ ch'[j].id = ch[j].id
                           /\ ch'[j].closed = ch[j].closed /\ Len(ch'[j].queue) <= QueueSize
       /\ \A j \in Insts \ {i} : ch'[j].removing = ch[j].removing
  BY <1>8, <1>9, <1>10 DEF PCs, Subscribing
<1>12. /\ reading' = [reading EXCEPT ![i] = FALSE] /\ writer' \in [Insts -> Insts \cup {Nobody}]
       /\ full' \in BOOLEAN /\ panicked' \in {"no", "send", "close", "nil"}
          /\ kept' \in [Insts -> BOOLEAN]
       /\ UNCHANGED <<allChannels, nextChannelId, made, connVars, history>>
  BY <1>1, <1>2, <1>3, <1>4 DEF tableVars
<1> QED
  BY <1>1, <1>2, <1>8, <1>10, <1>11, <1>12, GoStep, ZenonT(30)

\* What is queued for GLOBAL fits.
LEMMA Queueing ==
  ASSUME LifecycleAssumption, CoreInv, NEW t \in Insts, NEW m \in Messages,
         Len(ch[t].queue) < QueueSize,
         ch' = [ch EXCEPT ![t].queue = Append(@, m)]
  PROVE  /\ ch' \in [Insts -> Channel] /\ ChannelsStay
         /\ \A j \in Insts : /\ ch'[j].kind = ch[j].kind /\ ch'[j].id = ch[j].id
                             /\ ch'[j].closed = ch[j].closed /\ ch'[j].removing = ch[j].removing
                             /\ Len(ch'[j].queue) <= QueueSize
         /\ ch'[t].queue = Append(ch[t].queue, m)
         /\ \A j \in Insts \ {t} : ch'[j] = ch[j]
<1> DEFINE q == Append(ch[t].queue, m)
           d == [ch[t] EXCEPT !.queue = q]
<1>1. ch \in [Insts -> Channel] /\ ch[t] \in Channel /\ ch[t].queue \in Seq(Messages)
  BY GoroutineFacts
<1>2. q \in Seq(Messages) /\ Len(q) = Len(ch[t].queue) + 1 /\ Len(ch[t].queue) \in Nat
      /\ QueueSize \in Nat
  BY <1>1, Constants
<1>3. ch' = [ch EXCEPT ![t] = d]
  BY <1>1
<1> HIDE DEF q
<1>4. d \in Channel /\ d.kind = ch[t].kind /\ d.id = ch[t].id /\ d.closed = ch[t].closed
      /\ d.removing = ch[t].removing /\ d.queue = q
  BY <1>1, <1>2 DEF Channel
<1> HIDE DEF d
<1>5. ch' \in [Insts -> Channel] /\ ch'[t] = d /\ \A j \in Insts \ {t} : ch'[j] = ch[j]
  BY <1>1, <1>3, <1>4
<1>6. \A j \in Insts : Len(ch[j].queue) <= QueueSize
  BY DEF CoreInv, TickAt
<1>7. \A j \in Insts : /\ ch'[j].kind = ch[j].kind /\ ch'[j].id = ch[j].id
                       /\ ch'[j].closed = ch[j].closed /\ ch'[j].removing = ch[j].removing
                       /\ Len(ch'[j].queue) <= QueueSize
  <2> SUFFICES ASSUME NEW j \in Insts
               PROVE  /\ ch'[j].kind = ch[j].kind /\ ch'[j].id = ch[j].id
                      /\ ch'[j].closed = ch[j].closed /\ ch'[j].removing = ch[j].removing
                      /\ Len(ch'[j].queue) <= QueueSize
    OBVIOUS
  <2>1. CASE j = t
    <3>1. Len(q) <= QueueSize
      BY <1>2
    <3> QED
      BY <1>4, <1>5, <2>1, <3>1
  <2>2. CASE j # t
    BY <1>5, <1>6, <2>2
  <2> QED
    BY <2>1, <2>2
<1>8. ChannelsStay
  <2>1. \A j \in Insts : ch[j].removing \in Nat
    BY <1>1 DEF Channel
  <2> QED
    BY <1>7, <2>1 DEF ChannelsStay
<1> QED
  BY <1>4, <1>5, <1>7, <1>8 DEF q

\* The tick goes on when a removal has been asked for, ...
LEMMA LeaveKeepsCore ==
  ASSUME LifecycleAssumption, CoreInv, NEW i \in Insts, pc[i] \in {"ask", "send"}, Leave(i),
         UNCHANGED <<tableVars, job, kept, writer, connVars, panicked, history>>,
         \/ UNCHANGED ch
         \/ /\ Len(ch[GLOBAL].queue) < QueueSize
            /\ ch' = [ch EXCEPT ![GLOBAL].queue = Append(@, RemovalOf(i))]
  PROVE  CoreInv'
<1> DEFINE p == IF reading[i] THEN AfterUnlock(i) ELSE "top"
<1>1. /\ pc[i] \in {"ask", "send"} /\ reading' = [reading EXCEPT ![i] = FALSE]
         /\ pc' = [pc EXCEPT ![i] = p]
      /\ UNCHANGED <<tableVars, job, kept, writer, connVars, panicked, history>>
  BY DEF Leave, Goto
<1>2. p \in {"recover", "top"} /\ (p = "recover" => reading[i])
  BY DEF AfterUnlock
<1> HIDE DEF p
<1>3. /\ TickAt(i) /\ Exists(i) /\ ch \in [Insts -> Channel] /\ ch[i] \in Channel
         /\ ch[i].removing \in Nat
      /\ job = [job EXCEPT ![i] = job[i]] /\ job[i] \in Job
      /\ writer \in [Insts -> Insts \cup {Nobody}] /\ kept \in [Insts -> BOOLEAN]
         /\ full \in BOOLEAN
      /\ panicked \in {"no", "send", "close", "nil"}
  BY <1>1, GoroutineFacts
<1>4. Marks(ch[i]) \in 0 .. 2 /\ (p = "recover" => Marks(ch[i]) <= 1)
  BY <1>1, <1>2, <1>3 DEF TickAt, Marked
<1>5. /\ p \in PCs \ {"none"} /\ p \notin Subscribing
         /\ p \notin Subscribing \cup {"remove", "delete"}
      /\ p \notin MidTick /\ p \notin {"ask", "send"} /\ p # "store" /\ p # "delete"
         /\ p # "setFull" /\ FALSE \in BOOLEAN
  BY <1>2 DEF PCs, Subscribing, MidTick
<1>6. /\ writer' \in [Insts -> Insts \cup {Nobody}] /\ kept' \in [Insts -> BOOLEAN]
         /\ full' \in BOOLEAN
      /\ panicked' \in {"no", "send", "close", "nil"} /\ job' = [job EXCEPT ![i] = job[i]]
      /\ UNCHANGED <<allChannels, nextChannelId, made, connVars, history>>
  BY <1>1, <1>3 DEF tableVars
<1>7. CASE UNCHANGED ch
  <2>1. p = "recover" => Marked(i) <= 1
    BY <1>4 DEF Marked
  <2> QED
    BY <1>1, <1>3, <1>5, <1>6, <1>7, <2>1, MoveStep, ZenonT(30)
<1>8. CASE Len(ch[GLOBAL].queue) < QueueSize
           /\ ch' = [ch EXCEPT ![GLOBAL].queue = Append(@, RemovalOf(i))]
  <2>1. RemovalOf(i) \in Messages
    BY <1>3, MessageTypes DEF RemovalOf, Channel
  <2>2. /\ ch' \in [Insts -> Channel]
        /\ \A j \in Insts : /\ ch'[j].kind = ch[j].kind /\ ch'[j].id = ch[j].id
                            /\ ch'[j].closed = ch[j].closed /\ ch'[j].removing = ch[j].removing
                            /\ Len(ch'[j].queue) <= QueueSize
    BY <1>8, <2>1, Queueing, Constants
  <2>3. Marks(ch'[i]) = Marks(ch[i]) /\ ch'[i].removing >= ch[i].removing
    BY <1>3, <2>2, MarksStep
  <2>4. /\ \A j \in Insts : /\ ch'[j].kind = ch[j].kind /\ ch'[j].id = ch[j].id
                            /\ ch'[j].closed = ch[j].closed /\ Len(ch'[j].queue) <= QueueSize
        /\ \A j \in Insts \ {i} : ch'[j].removing = ch[j].removing
        /\ Marks(ch'[i]) \in 0 .. 2 /\ (p = "recover" => Marks(ch'[i]) <= 1)
    BY <1>4, <2>2, <2>3
  <2> QED
    BY <1>1, <1>3, <1>5, <1>6, <2>2, <2>3, <2>4, GoStep, ZenonT(30)
<1> QED
  BY <1>7, <1>8

\* ... which takes two steps: GLOBAL is tested, and the message is sent.
LEMMA AskForRemovalKeepsCore ==
  ASSUME LifecycleAssumption, CoreInv, NEW i \in Insts, TestGlobal(i) \/ AskForRemoval(i)
  PROVE  CoreInv'
<1>1. /\ TickAt(i) /\ Exists(i) /\ ch[i] \in Channel /\ reading = [reading EXCEPT ![i] = reading[i]]
      /\ pc = [pc EXCEPT ![i] = pc[i]] /\ job = [job EXCEPT ![i] = job[i]] /\ job[i] \in Job
      /\ ch = [ch EXCEPT ![i] = ch[i]] /\ pc[i] \in {"ask", "send"}
      /\ reading[i] \in BOOLEAN /\ pc \in [Insts -> PCs]
      /\ writer \in [Insts -> Insts \cup {Nobody}] /\ kept \in [Insts -> BOOLEAN]
         /\ full \in BOOLEAN
  <2>1. pc[i] \in {"ask", "send"}
    BY DEF TestGlobal, AskForRemoval
  <2> QED
    BY <2>1, GoroutineFacts
<1>2. CASE pc' = [pc EXCEPT ![i] = "send"] \/ UNCHANGED pc
  <2> DEFINE p == pc'[i]
             c == ch[i]
  <2>1. /\ pc' = [pc EXCEPT ![i] = p] /\ p \in {"ask", "send"}
    BY <1>1, <1>2
  <2> HIDE DEF p
  <2>2. /\ UNCHANGED <<ch, reading, writer, kept, job, tableVars, connVars, history>>
        /\ panicked' \in {"no", "send", "close", "nil"}
    <3>0. pc'[i] \in {"ask", "send"}
      BY <2>1, <1>1 DEF p
    <3>1. pc'[i] \in {"ask", "send"} /\ panicked \in {"no", "send", "close", "nil"}
      BY <3>0, GoroutineFacts
    <3>2. ~Leave(i)
      BY <1>1, <3>1 DEF Leave, Goto, AfterUnlock
    <3> QED
      BY <3>1, <3>2 DEF TestGlobal, AskForRemoval
  <2>3. /\ ch' = [ch EXCEPT ![i] = c] /\ reading' = [reading EXCEPT ![i] = reading[i]]
        /\ job' = [job EXCEPT ![i] = job[i]]
        /\ writer' \in [Insts -> Insts \cup {Nobody}] /\ kept' \in [Insts -> BOOLEAN]
        /\ full' \in BOOLEAN /\ panicked' \in {"no", "send", "close", "nil"}
        /\ UNCHANGED <<allChannels, nextChannelId, made, connVars, history>>
    BY <1>1, <2>2 DEF tableVars
  <2>4. /\ c \in Channel /\ c.kind = ch[i].kind /\ c.id = ch[i].id /\ c.closed = ch[i].closed
        /\ c.removing >= ch[i].removing /\ Len(c.queue) <= QueueSize
        /\ Marks(c) \in 0 .. 2 /\ Marks(c) >= 1 /\ (reading[i] => Marks(c) = 1)
    <3>1. ch[i].removing \in Nat
      BY <1>1 DEF Channel
    <3> QED
      BY <1>1, <3>1 DEF TickAt, Marked
  <2>5. /\ p \in PCs \ {"none"} /\ p \notin Subscribing
           /\ p \notin Subscribing \cup {"remove", "delete"}
        /\ p \notin MidTick /\ p \in {"connections", "broadcast", "ask", "send"} /\ p # "recover"
        /\ p # "store" /\ p # "delete" /\ p # "setFull"
    BY <2>1 DEF PCs, Subscribing, MidTick
  <2> HIDE DEF c
  <2>6. /\ p \in MidTick => Marks(c) = 0
        /\ p \in {"ask", "send"} => Marks(c) >= 1 /\ (reading[i] => Marks(c) = 1)
        /\ p = "recover" => Marks(c) <= 1
        /\ p \in Subscribing => job[i].msg \in Requests
        /\ p \in Subscribing \cup {"remove", "delete"} => job[i].at \in Made
        /\ p = "store" => /\ job[i].msg \in Requests /\ job[i].msg.kind = "createEntity"
                          /\ job[i].at # Nobody => job[i].at \in Made /\ IsRemoving(job[i].at)
        /\ p = "setFull" => i = GLOBAL
        /\ reading[i] => p \in {"connections", "broadcast", "ask", "send"}
    BY <2>4, <2>5
  <2>7. Exists(i) /\ job[i] \in Job /\ reading[i] \in BOOLEAN
    BY <1>1
  <2> QED
    BY <2>1, <2>3, <2>4, <2>5, <2>6, <2>7, OwnStep, ZenonT(30)
<1>3. CASE Leave(i)
  <2>1. pc'[i] \notin {"ask", "send"}
    BY <1>1, <1>3 DEF Leave, Goto, AfterUnlock
  <2>2. /\ UNCHANGED <<tableVars, job, kept, writer, connVars, panicked, history>>
        /\ \/ UNCHANGED ch
           \/ /\ Len(ch[GLOBAL].queue) < QueueSize
              /\ ch' = [ch EXCEPT ![GLOBAL].queue = Append(@, RemovalOf(i))]
    BY <1>1, <2>1 DEF TestGlobal, AskForRemoval
  <2> QED
    BY <1>1, <1>3, <2>2, LeaveKeepsCore
<1> QED
  BY <1>2, <1>3 DEF TestGlobal, AskForRemoval, Goto

\* The steps of the connections.
LEMMA ConnectionsKeepCore ==
  ASSUME LifecycleAssumption, CoreInv,
         \/ \E c \in Conns, r \in Requests : Receive(c, r)
         \/ \E c \in Conns : Put(c) \/ Close(c)
  PROVE  CoreInv'
<1>a. ASSUME Types', ChannelsStay,
             \A j \in Insts : ch'[j].removing = ch[j].removing /\ Len(ch'[j].queue) <= QueueSize,
             UNCHANGED <<tableVars, pc, job, reading, removedBy>>
      PROVE  CoreInv'
  <2>1. Made' = Made /\ Made \subseteq Insts
    BY <1>a DEF Made, Exists, tableVars
  <2>2. \A j \in Insts : TickAt(j)'
    BY <1>a DEF CoreInv, TickAt, Marked, Marks, ChannelsStay, Exists, tableVars
  <2>3. \A j \in Insts : JobAt(j)'
    BY <1>a, <2>1 DEF CoreInv, JobAt, ChannelsStay, IsRemoving
  <2>4. TableInv'
    BY <1>a, TableKept, Constants DEF CoreInv, tableVars
  <2> QED
    BY <1>a, <2>2, <2>3, <2>4 DEF CoreInv
<1>b. ASSUME Types', UNCHANGED <<tableVars, ch, pc, job, lockVars, history>>
      PROVE  CoreInv'
  <2>1. ch \in [Insts -> Channel] /\ \A j \in Insts : Len(ch[j].queue) <= QueueSize
    BY DEF CoreInv, Types, TickAt
  <2>2. ChannelsStay
    BY <1>b, <2>1 DEF ChannelsStay, Channel
  <2> QED
    BY <1>a, <1>b, <2>1, <2>2 DEF lockVars, history
<1>1. ASSUME NEW c \in Conns, NEW r \in Requests, Receive(c, r) PROVE CoreInv'
  <2>1. Types'
    <3> DEFINE i == allChannels[r.to]
    <3>1. i \in Insts \cup {Nobody} /\ put \in [Conns -> Sending \cup {Nobody}]
      <4>1. r.to \in Ids
        BY MessageTypes
      <4> QED
        BY <4>1 DEF CoreInv, Types
    <3>2. put' = IF i = Nobody \/ IsRemoving(i) THEN put
                 ELSE [put EXCEPT ![c] = [msg |-> r, at |-> i]]
      BY <1>1 DEF Receive
    <3> HIDE DEF i
    <3>3. i # Nobody => [msg |-> r, at |-> i] \in Sending
      BY <3>1 DEF Sending
    <3>4. put' \in [Conns -> Sending \cup {Nobody}]
      BY <3>1, <3>2, <3>3
    <3>5. /\ sent' \subseteq Requests
          /\ UNCHANGED <<tableVars, ch, pc, job, kept, lockVars, closing, panicked, history>>
      BY <1>1 DEF Receive, CoreInv, Types
    <3> QED
      BY <3>4, <3>5 DEF CoreInv, Types, tableVars, lockVars, history
  <2> QED
    BY <1>1, <1>b, <2>1 DEF Receive
<1>2. ASSUME NEW c \in Conns, Put(c) PROVE CoreInv'
  <2> DEFINE i == put[c].at
  <2>1. /\ put[c] # Nobody /\ put' = [put EXCEPT ![c] = Nobody]
        /\ UNCHANGED <<tableVars, pc, job, kept, lockVars, sent, closing, history>>
    BY <1>2 DEF Put
  <2>2. put[c] \in Sending /\ i \in Insts /\ put[c].msg \in Messages
    BY <2>1 DEF CoreInv, Types, Sending, Messages
  <2>3. put' \in [Conns -> Sending \cup {Nobody}]
    BY <2>1 DEF CoreInv, Types
  <2>4. CASE panicked' = "send" /\ UNCHANGED ch
    <3>1. Types'
      BY <2>1, <2>3, <2>4 DEF CoreInv, Types, tableVars, lockVars, history
    <3> QED
      BY <1>b, <2>1, <2>4, <3>1
  <2>5. CASE /\ Len(ch[i].queue) < QueueSize /\ UNCHANGED panicked
             /\ ch' = [ch EXCEPT ![i].queue = Append(@, put[c].msg)]
    <3>1. /\ ch' \in [Insts -> Channel] /\ ChannelsStay
          /\ \A j \in Insts : ch'[j].removing = ch[j].removing /\ Len(ch'[j].queue) <= QueueSize
      BY <2>2, <2>5, Queueing
    <3>2. Types'
      BY <2>1, <2>3, <2>5, <3>1 DEF CoreInv, Types, tableVars, lockVars, history
    <3> QED
      BY <1>a, <2>1, <3>1, <3>2 DEF lockVars, history
  <2> QED
    BY <1>2, <2>4, <2>5 DEF Put
<1>3. ASSUME NEW c \in Conns, Close(c) PROVE CoreInv'
  <2>1. Types'
    BY <1>3 DEF Close, CoreInv, Types, tableVars, lockVars, history
  <2> QED
    BY <1>3, <1>b, <2>1 DEF Close
<1> QED
  BY <1>1, <1>2, <1>3

\* Closing the queue of a channel.
LEMMA RemoveChannelKeepsCore ==
  ASSUME LifecycleAssumption, CoreInv, NEW i \in Insts, RemoveChannel(i)
  PROVE  CoreInv'
<1> DEFINE t == job[i].at
           d == [ch[t] EXCEPT !.removing = @ + 1, !.closed = TRUE]
<1>1. pc[i] = "remove" /\ UNCHANGED <<tableVars, job, kept, lockVars, connVars, removedElsewhere,
      raced>>
  BY DEF RemoveChannel
<1>2. JobAt(i) /\ ch \in [Insts -> Channel] /\ Exists(i) /\ pc \in [Insts -> PCs] /\ TickAt(i)
  BY <1>1, GoroutineFacts
<1>3. t \in Insts /\ t \in Made
  BY <1>1, <1>2 DEF JobAt, Made
<1>4. CASE ch[t].closed
  <2>1. panicked' = "close" /\ UNCHANGED <<ch, pc, removedBy>>
    BY <1>4 DEF RemoveChannel
  <2>2. Types'
    BY <1>1, <2>1 DEF CoreInv, Types, tableVars, lockVars, connVars
  <2>3. ChannelsStay
    BY <1>2, <2>1 DEF ChannelsStay, Channel
  <2>4. TableInv'
    BY <1>1, <2>1, <2>3, TableKept, Constants DEF CoreInv, tableVars
  <2>5. Made' = Made
    BY <1>1 DEF Made, Exists, tableVars
  <2>6. \A j \in Insts : TickAt(j)' /\ JobAt(j)'
    BY <1>1, <2>1, <2>5 DEF CoreInv, TickAt, JobAt, Marked, Marks, IsRemoving, Exists, tableVars,
                            lockVars
  <2> QED
    BY <2>2, <2>4, <2>6 DEF CoreInv
<1>5. CASE ~ch[t].closed
  <2> DEFINE why == IF job[i].msg.conn # Nobody THEN "request" ELSE "internal"
  <2>1. /\ ch' = [ch EXCEPT ![t].removing = @ + 1, ![t].closed = TRUE]
        /\ removedBy' = [removedBy EXCEPT ![t] = why]
        /\ pc' = [pc EXCEPT ![i] = "delete"] /\ UNCHANGED panicked
    BY <1>5 DEF RemoveChannel, Goto
  <2>2. why \in {"request", "internal"}
    OBVIOUS
  <2> HIDE DEF t, why
  <2>3. ch[t] \in Channel /\ ch[t].removing \in Nat /\ ch[t].closed = FALSE
    BY <1>2, <1>3, <1>5 DEF Channel
  <2>4. d \in Channel /\ d.kind = ch[t].kind /\ d.id = ch[t].id /\ d.closed
        /\ d.removing = ch[t].removing + 1 /\ d.queue = ch[t].queue
    <3>1. ch[t].removing + 1 \in Nat
      BY <2>3
    <3> QED
      BY <2>3, <3>1 DEF Channel
  <2>5. ch' = [ch EXCEPT ![t] = d]
    BY <1>2, <1>3, <2>1
  <2>6. Marks(d) = Marks(ch[t])
    BY <2>3, <2>4 DEF Marks
  <2> HIDE DEF d
  <2>7. ch' \in [Insts -> Channel] /\ ch'[t] = d /\ \A j \in Insts \ {t} : ch'[j] = ch[j]
    BY <1>2, <1>3, <2>4, <2>5
  <2>8. /\ removedBy' \in [Insts -> {"no", "request", "internal"}] /\ removedBy'[t] # "no"
        /\ \A j \in Insts : removedBy[j] # "no" => removedBy'[j] # "no"
    BY <1>3, <2>1, <2>2 DEF CoreInv, Types
  <2>9. pc' \in [Insts -> PCs]
    BY <1>2, <2>1 DEF PCs
  <2>10. Types'
    BY <1>1, <2>1, <2>7, <2>8, <2>9 DEF CoreInv, Types, tableVars, lockVars, connVars
  <2>11. \A j \in Insts : /\ ch'[j].kind = ch[j].kind /\ ch'[j].id = ch[j].id
                          /\ ch'[j].queue = ch[j].queue /\ Marks(ch'[j]) = Marks(ch[j])
                          /\ ch'[j].removing >= ch[j].removing
                          /\ ch[j].closed => ch'[j].closed
    <3> SUFFICES ASSUME NEW j \in Insts
                 PROVE  /\ ch'[j].kind = ch[j].kind /\ ch'[j].id = ch[j].id
                        /\ ch'[j].queue = ch[j].queue /\ Marks(ch'[j]) = Marks(ch[j])
                        /\ ch'[j].removing >= ch[j].removing
                        /\ ch[j].closed => ch'[j].closed
      OBVIOUS
    <3>1. CASE j = t
      BY <2>3, <2>4, <2>6, <2>7, <3>1
    <3>2. CASE j # t
      <4>1. ch'[j] = ch[j] /\ ch[j].removing \in Nat
        BY <1>2, <2>7, <3>2 DEF Channel
      <4> QED
        BY <4>1
    <3> QED
      BY <3>1, <3>2
  <2>12. Made' = Made /\ Made \subseteq Insts
    BY <1>1 DEF Made, Exists, tableVars
  <2>13. TableInv'
    <3>1. TableInv /\ UNCHANGED <<allChannels, nextChannelId>> /\ GLOBAL \in Insts
      BY <1>1, Constants DEF CoreInv, tableVars
    <3>2. \A j \in Insts : ch'[j].kind = ch[j].kind /\ ch'[j].id = ch[j].id
      BY <2>11
    <3>3. \A j \in Made' : IdAt(j)'
      BY <2>12, <3>1, <3>2 DEF TableInv, IdAt
    <3>4. \A x \in Ids : allChannels'[x] # Nobody =>
             allChannels'[x] \in Made' /\ ch'[allChannels'[x]].id = x
      BY <2>12, <3>1, <3>2 DEF TableInv
    <3> QED
      BY <2>12, <3>1, <3>2, <3>3, <3>4 DEF TableInv
  <2>14. \A j \in Insts \ {i} : pc'[j] = pc[j]
    BY <1>2, <2>1
  <2>15. pc'[i] = "delete"
    BY <1>2, <2>1
  <2>16. \A j \in Insts : TickAt(j)'
    <3> SUFFICES ASSUME NEW j \in Insts PROVE TickAt(j)'
      OBVIOUS
    <3>1. /\ TickAt(j) /\ Marks(ch'[j]) = Marks(ch[j]) /\ ch'[j].queue = ch[j].queue
          /\ made' = made /\ reading' = reading
      BY <1>1, <2>11 DEF CoreInv, tableVars, lockVars
    <3>4. removedBy'[j] # "no" => Exists(j) /\ ch'[j].closed
      <4>1. CASE j = t
        BY <1>3, <2>4, <2>7, <4>1 DEF Made
      <4>2. CASE j # t
        <5>1. removedBy'[j] = removedBy[j] /\ ch'[j] = ch[j]
          BY <2>1, <2>7, <4>2 DEF CoreInv, Types
        <5> QED
          BY <3>1, <5>1 DEF TickAt
      <4> QED
        BY <4>1, <4>2
    <3>2. CASE j = i
      BY <1>1, <2>15, <3>1, <3>2, <3>4 DEF TickAt, Marked, MidTick, Exists
    <3>3. CASE j # i
      BY <2>14, <3>1, <3>3, <3>4 DEF TickAt, Marked, Exists
    <3> QED
      BY <3>2, <3>3
  <2>17. \A j \in Insts : JobAt(j)'
    <3> SUFFICES ASSUME NEW j \in Insts PROVE JobAt(j)'
      OBVIOUS
    <3>0. JobAt(j) /\ job' = job
      BY <1>1 DEF CoreInv
    <3>1. \A k \in Insts : IsRemoving(k) => IsRemoving(k)'
      <4>1. \A k \in Insts : ch[k].removing \in Nat /\ ch'[k].removing \in Nat
        BY <1>2, <2>7 DEF Channel
      <4> QED
        BY <2>11, <4>1 DEF IsRemoving
    <3>2. CASE j = i
      <4>1. job'[j].at = t /\ ch'[t].closed /\ removedBy'[t] # "no" /\ t \in Made'
        BY <1>3, <2>4, <2>7, <2>8, <2>12, <3>0, <3>2 DEF t
      <4> QED
        BY <2>15, <3>2, <4>1 DEF JobAt, Subscribing
    <3>3. CASE j # i
      BY <2>8, <2>11, <2>12, <2>14, <3>0, <3>1, <3>3 DEF JobAt
    <3> QED
      BY <3>2, <3>3
  <2> QED
    BY <2>10, <2>13, <2>16, <2>17 DEF CoreInv
<1> QED
  BY <1>4, <1>5

\* Deleting the entry of a channel.
LEMMA DeleteChannelKeepsCore ==
  ASSUME LifecycleAssumption, CoreInv, NEW i \in Insts, DeleteChannel(i)
  PROVE  CoreInv'
<1> DEFINE t == job[i].at
           x == ch[t].id
<1>1. /\ pc[i] = "delete" /\ allChannels' = [allChannels EXCEPT ![x] = Nobody]
      /\ full' \in {full, FALSE} /\ nextChannelId' \in {nextChannelId, x}
      /\ nextChannelId' = x \/ nextChannelId' = nextChannelId
      /\ nextChannelId' # nextChannelId => ch[t].kind \in {"GLOBAL", "NORMAL"}
      /\ pc' = [pc EXCEPT ![i] = "messages"] /\ job' = [job EXCEPT ![i] = NoJob]
      /\ UNCHANGED <<made, ch, kept, lockVars, connVars, panicked, removedBy>>
  BY DEF DeleteChannel, Handled, Goto
<1>a. raced' \in BOOLEAN /\ removedElsewhere' \in BOOLEAN
  BY DEF DeleteChannel, CoreInv, Types
<1>2. /\ JobAt(i) /\ TickAt(i) /\ ch \in [Insts -> Channel] /\ pc \in [Insts -> PCs]
         /\ NoJob \in Job
      /\ Exists(i) /\ job \in [Insts -> Job] /\ reading[i] \in BOOLEAN
  BY <1>1, GoroutineFacts
<1>3. t \in Insts /\ t \in Made
  BY <1>1, <1>2 DEF JobAt, Made
<1> HIDE DEF t
<1>4. x \in Ids
  BY <1>2, <1>3 DEF Channel
<1>5. nextChannelId' \in NormalIds \cup {GLOBAL} /\ nextChannelId' \in Ids
  <2>1. /\ ch[t].kind = "GLOBAL" => t = GLOBAL
        /\ ch[t].kind = "NORMAL" => x \in NormalIds \cup {GLOBAL}
        /\ nextChannelId \in NormalIds \cup {GLOBAL} /\ ch[GLOBAL].id = GLOBAL
    BY <1>3 DEF CoreInv, TableInv, IdAt
  <2>2. NormalIds \cup {GLOBAL} \subseteq Ids
    BY Constants
  <2> QED
    BY <1>1, <2>1, <2>2
<1>6. allChannels' \in [Ids -> Insts \cup {Nobody}]
  BY <1>1 DEF CoreInv, Types
<1>7. Types'
  <2>1. pc' \in [Insts -> PCs] /\ job' \in [Insts -> Job]
    BY <1>1, <1>2 DEF PCs
  <2> QED
    BY <1>1, <1>a, <1>5, <1>6, <2>1 DEF CoreInv, Types, lockVars, connVars
<1>8. Made' = Made /\ Made \subseteq Insts
  BY <1>1 DEF Made, Exists
<1>9. TableInv'
  <2>1. \A y \in Ids : allChannels'[y] # Nobody => allChannels'[y] = allChannels[y]
    BY <1>1 DEF CoreInv, Types
  <2> QED
    BY <1>1, <1>5, <1>8, <2>1 DEF CoreInv, TableInv, IdAt
<1>10. /\ pc'[i] = "messages" /\ job'[i] = NoJob
       /\ \A j \in Insts \ {i} : pc'[j] = pc[j] /\ job'[j] = job[j]
  BY <1>1, <1>2
<1>11. \A j \in Insts : TickAt(j)'
  <2> SUFFICES ASSUME NEW j \in Insts PROVE TickAt(j)'
    OBVIOUS
  <2>0. TickAt(j) /\ made' = made /\ ch' = ch /\ reading' = reading /\ removedBy' = removedBy
    BY <1>1 DEF CoreInv, lockVars
  <2>1. CASE j = i
    BY <1>1, <1>2, <1>10, <2>0, <2>1 DEF TickAt, Marked, MidTick, Exists
  <2>2. CASE j # i
    BY <1>10, <2>0, <2>2 DEF TickAt, Marked, Exists
  <2> QED
    BY <2>1, <2>2
<1>12. \A j \in Insts : JobAt(j)'
  <2> SUFFICES ASSUME NEW j \in Insts PROVE JobAt(j)'
    OBVIOUS
  <2>0. JobAt(j) /\ removedBy' = removedBy /\ ch' = ch
    BY <1>1 DEF CoreInv
  <2>1. CASE j = i
    BY <1>10, <2>1 DEF JobAt, Subscribing
  <2>2. CASE j # i
    BY <1>8, <1>10, <2>0, <2>2 DEF JobAt, IsRemoving
  <2> QED
    BY <2>1, <2>2
<1> QED
  BY <1>7, <1>9, <1>11, <1>12 DEF CoreInv

\* A channel with another type, id and owner.
Renamed(c, k, x) == [c EXCEPT !.kind = k, !.id = x]
Given(c, k, x, o) == [c EXCEPT !.kind = k, !.id = x, !.owner = o]
\* It is a channel again.
LEMMA RenamedType ==
  ASSUME NEW c \in Channel, NEW k \in Kinds, NEW x \in Ids, NEW o \in Conns \cup {Nobody}
  PROVE  /\ Renamed(c, k, x) \in Channel /\ Renamed(c, k, x).kind = k /\ Renamed(c, k, x).id = x
         /\ Renamed(c, k, x).removing = c.removing /\ Renamed(c, k, x).closed = c.closed
         /\ Renamed(c, k, x).queue = c.queue
         /\ Given(c, k, x, o) \in Channel /\ Given(c, k, x, o).kind = k /\ Given(c, k, x, o).id = x
         /\ Given(c, k, x, o).removing = c.removing /\ Given(c, k, x, o).closed = c.closed
         /\ Given(c, k, x, o).queue = c.queue
BY DEF Channel, Renamed, Given

\* Nothing is known of a channel that has not been made.
LEMMA NoChannelType ==
  ASSUME LifecycleAssumption
  PROVE  /\ NoChannel \in Channel /\ NoChannel.removing = 0 /\ NoChannel.closed = FALSE
         /\ NoChannel.queue = <<>>
BY Constants DEF NoChannel, Channel, Kinds

\* A channel without marks has not been marked.
LEMMA Unmarked ==
  ASSUME NEW c, c.removing = 0, c.closed = FALSE
  PROVE  Marks(c) = 0
BY DEF Marks

\* A new channel.
LEMMA CreateStep ==
  ASSUME LifecycleAssumption, CoreInv, NEW i \in Insts, Exists(i), Marked(i) = 0, ~reading[i],
         NEW x \in Ids, NEW kind \in {"NORMAL", "ENTITY"}, NEW msg \in Requests,
         NEW m \in [Insts -> Channel],
         \A j \in Insts : /\ m[j].kind = ch[j].kind /\ m[j].id = ch[j].id
                          /\ m[j].closed = ch[j].closed /\ m[j].removing = ch[j].removing
                          /\ Len(m[j].queue) <= QueueSize,
         createChannelWithId(i, x, kind, msg, m),
         kind = "NORMAL" => x \in NormalIds \cup {GLOBAL}, kind = "ENTITY" => x \notin NormalIds,
         nextChannelId' \in NormalIds \cup {GLOBAL}, raced' \in BOOLEAN,
         UNCHANGED <<full, kept, lockVars, connVars, panicked, removedElsewhere, removedBy>>
  PROVE  CoreInv'
<1> DEFINE new == [NoChannel EXCEPT !.kind = kind, !.id = x, !.owner = msg.conn]
<1>1. /\ made \in Insts /\ allChannels' = [allChannels EXCEPT ![x] = made]
      /\ ch' = [m EXCEPT ![made] = new] /\ made' = made + 1
      /\ job' = [job EXCEPT ![i] = [msg |-> msg, at |-> made]]
      /\ pc' = [pc EXCEPT ![i] = "subTest", ![made] = "top"]
  BY DEF createChannelWithId
<1>2. /\ new \in Channel /\ new.kind = kind /\ new.id = x /\ new.closed = FALSE /\ new.removing = 0
      /\ new.queue = <<>>
  <2>1. msg.conn \in Conns \cup {Nobody}
    BY MessageTypes
  <2>2. kind \in Kinds
    BY DEF Kinds
  <2>3. new = Given(NoChannel, kind, x, msg.conn)
    BY DEF Given
  <2>4. /\ NoChannel \in Channel /\ NoChannel.removing = 0 /\ NoChannel.closed = FALSE
        /\ NoChannel.queue = <<>>
    BY NoChannelType
  <2> HIDE DEF new
  <2> QED
    BY <2>1, <2>2, <2>3, <2>4, RenamedType
<1> HIDE DEF new
<1>3. made \in Nat /\ MaxInst \in Nat /\ made <= MaxInst /\ made # i /\ made \notin Made /\ i < made
  BY <1>1, Constants DEF Insts, Exists, Made
<1>4. ch' \in [Insts -> Channel] /\ ch'[made] = new /\ \A j \in Insts \ {made} : ch'[j] = m[j]
  BY <1>1, <1>2
<1>5. Made' = Made \cup {made} /\ Made \subseteq Insts
  BY <1>1, <1>3, Constants DEF Made, Exists, Insts
<1>6. /\ pc' \in [Insts -> PCs] /\ pc'[i] = "subTest" /\ pc'[made] = "top"
      /\ \A j \in Insts \ {i, made} : pc'[j] = pc[j]
  BY <1>1, <1>3 DEF CoreInv, Types, PCs
<1>7. [msg |-> msg, at |-> made] \in Job
  BY <1>1 DEF Job, Messages
<1>8. /\ job' \in [Insts -> Job] /\ job'[i] = [msg |-> msg, at |-> made]
      /\ \A j \in Insts \ {i} : job'[j] = job[j]
  BY <1>1, <1>7 DEF CoreInv, Types
<1>9. allChannels' \in [Ids -> Insts \cup {Nobody}]
  BY <1>1 DEF CoreInv, Types
<1>10. Types'
  <2>1. made' \in 0 .. MaxInst + 1
    BY <1>1, <1>3
  <2>2. nextChannelId' \in Ids
    BY Constants
  <2> QED
    BY <1>4, <1>6, <1>8, <1>9, <2>1, <2>2 DEF CoreInv, Types, lockVars, connVars
<1>11. TableInv'
  <2>1. GLOBAL \in Made' /\ ch'[GLOBAL].id = GLOBAL
    BY <1>3, <1>4, <1>5, Constants DEF CoreInv, TableInv
  <2>2. ASSUME NEW y \in Ids, allChannels'[y] # Nobody
        PROVE  allChannels'[y] \in Made' /\ ch'[allChannels'[y]].id = y
    <3>1. CASE y = x
      <4>1. allChannels'[y] = made
        BY <1>1, <3>1 DEF CoreInv, Types
      <4> QED
        BY <1>2, <1>4, <1>5, <3>1, <4>1
    <3>2. CASE y # x
      <4>1. allChannels'[y] = allChannels[y]
        BY <1>1, <3>2 DEF CoreInv, Types
      <4>2. allChannels[y] \in Made /\ ch[allChannels[y]].id = y
        BY <2>2, <4>1 DEF CoreInv, TableInv
      <4> QED
        BY <1>3, <1>4, <1>5, <4>1, <4>2
    <3> QED
      BY <3>1, <3>2
  <2>3. ASSUME NEW j \in Made' PROVE IdAt(j)'
    <3>1. CASE j = made
      BY <1>2, <1>4, <3>1 DEF IdAt
    <3>2. CASE j # made
      <4>1. j \in Made /\ ch'[j].kind = ch[j].kind /\ ch'[j].id = ch[j].id
        BY <1>4, <1>5, <2>3, <3>2
      <4>2. IdAt(j)
        BY <4>1 DEF CoreInv, TableInv
      <4> QED
        BY <4>1, <4>2 DEF IdAt
    <3> QED
      BY <3>1, <3>2
  <2> QED
    BY <2>1, <2>2, <2>3 DEF TableInv
<1>12. ASSUME NEW j \in Insts PROVE TickAt(j)'
  <2>0. TickAt(j) /\ reading' = reading /\ removedBy' = removedBy /\ reading[j] \in BOOLEAN
        /\ QueueSize \in Nat /\ made' = made + 1
    BY <1>1, Constants DEF CoreInv, Types, lockVars
  <2>1. CASE j = made
    <3>1. pc[j] = "none"
      BY <1>3, <2>0, <2>1 DEF TickAt, Exists
    <3>2. ~reading[j]
      BY <2>0, <3>1 DEF TickAt
    <3>3. Marks(ch'[j]) = 0 /\ Len(ch'[j].queue) = 0 /\ pc'[j] = "top"
      BY <1>2, <1>4, <1>6, <2>1 DEF Marks
    <3>4. Exists(j)' /\ ~Exists(j)
      BY <1>3, <2>0, <2>1 DEF Exists
    <3>5. removedBy'[j] = "no"
      BY <2>0, <3>4 DEF TickAt
    <3> QED
      BY <2>0, <3>2, <3>3, <3>4, <3>5 DEF TickAt, Marked, MidTick
  <2>2. CASE j # made
    <3>1. Marks(ch'[j]) = Marks(ch[j]) /\ Len(ch'[j].queue) <= QueueSize
      BY <1>4, <2>2 DEF Marks
    <3>5. removedBy'[j] # "no" => Exists(j) /\ ch'[j].closed
      <4>1. ch'[j].closed = ch[j].closed
        BY <1>4, <2>2
      <4> QED
        BY <2>0, <4>1 DEF TickAt
    <3>2. Exists(j)' <=> Exists(j)
      BY <1>3, <2>0, <2>2, Constants DEF Exists
    <3>3. CASE j = i
      <4>1. pc'[j] = "subTest" /\ Exists(j) /\ ~reading[j] /\ Marks(ch'[j]) = 0
        BY <1>6, <3>1, <3>3 DEF Marked
      <4> QED
        BY <2>0, <3>1, <3>2, <3>5, <4>1 DEF TickAt, Marked, MidTick
    <3>4. CASE j # i
      <4>1. pc'[j] = pc[j]
        BY <1>6, <2>2, <3>4
      <4> QED
        BY <2>0, <3>1, <3>2, <3>5, <4>1 DEF TickAt, Marked
    <3> QED
      BY <3>3, <3>4
  <2> QED
    BY <2>1, <2>2
<1>13. ASSUME NEW j \in Insts PROVE JobAt(j)'
  <2>1. CASE j = made
    BY <1>6, <2>1 DEF JobAt, Subscribing
  <2>2. CASE j = i
    <3>1. job'[j].msg = msg /\ job'[j].at = made
      BY <1>8, <2>2
    <3> QED
      BY <1>5, <1>6, <2>2, <3>1 DEF JobAt, Subscribing
  <2>3. CASE j # made /\ j # i
    <3>1. pc'[j] = pc[j] /\ job'[j] = job[j] /\ JobAt(j) /\ removedBy' = removedBy
      BY <1>6, <1>8, <2>3 DEF CoreInv
    <3>2. \A k \in Made : ch'[k].closed = ch[k].closed /\ ch'[k].removing = ch[k].removing
      BY <1>3, <1>4, <1>5
    <3> QED
      BY <1>5, <3>1, <3>2 DEF JobAt, IsRemoving
  <2> QED
    BY <2>1, <2>2, <2>3
<1> QED
  BY <1>10, <1>11, <1>12, <1>13 DEF CoreInv

\* A non-empty set of naturals has a least element.
LEMMA LeastNatural ==
  ASSUME NEW S, S \subseteq Nat, S # {}
  PROVE  \E i \in S : \A j \in S : i <= j
<1>1. PICK x \in S : \A y \in S : ~ (<<y, x>> \in OpToRel(<, Nat))
  BY NatLessThanWellFounded, WFMin
<1>2. ASSUME NEW y \in S PROVE x <= y
  <2>1. x \in Nat /\ y \in Nat
    OBVIOUS
  <2>2. ~ (y < x)
    BY <1>1, <2>1 DEF OpToRel
  <2> QED
    BY <2>1, <2>2
<1> QED
  BY <1>2

\* The id that CreateChannel gives out is free, and one of those it may give out.
LEMMA NextIdIsFree ==
  ASSUME LifecycleAssumption, CoreInv, NextIdIndexes(nextChannelId) # {}
  PROVE  NextId(nextChannelId) \in NormalIds \cup {GLOBAL} /\ Free(NextId(nextChannelId))
<1> DEFINE S == NextIdIndexes(nextChannelId)
           k == CHOOSE n \in S : \A j \in S : n <= j
<1>1. MaxId \in Nat /\ nextChannelId \in NormalIds \cup {GLOBAL}
  BY Constants DEF CoreInv, TableInv
<1>2. S \subseteq Nat /\ S \subseteq 0 .. MaxId - 1 /\ \A n \in S : Free(Tried(nextChannelId, n))
  BY DEF NextIdIndexes
<1>3. k \in S
  <2> HIDE DEF S
  <2>1. \E n \in S : \A j \in S : n <= j
    BY <1>2, LeastNatural DEF S
  <2> QED
    BY <2>1
<1>4. NextId(nextChannelId) = Tried(nextChannelId, k)
  BY DEF NextId
<1> HIDE DEF k
<1>5. Tried(nextChannelId, k) \in NormalIds \cup {GLOBAL}
  BY <1>1, <1>2, <1>3 DEF Tried, NormalIds, GLOBAL
<1> QED
  BY <1>2, <1>3, <1>4, <1>5

\* Creating a channel.
LEMMA CreatingKeepsCore ==
  ASSUME LifecycleAssumption, CoreInv, NEW i \in Insts, CreateChannel(i) \/ StoreEntity(i)
  PROVE  CoreInv'
<1>1. CASE CreateChannel(i)
  <2> DEFINE x == NextId(nextChannelId)
             msg == Head(ch[i].queue)
             m == Taken(i)
  <2>1. /\ Takes(i, "create") /\ NextIdIndexes(nextChannelId) # {} /\ nextChannelId' = x
        /\ createChannelWithId(i, x, "NORMAL", msg, m)
        /\ UNCHANGED <<full, kept, lockVars, connVars, panicked, history>>
    BY <1>1 DEF CreateChannel
  <2>2. x \in NormalIds \cup {GLOBAL} /\ x \in Ids
    BY <2>1, NextIdIsFree, Constants
  <2>3. /\ Exists(i) /\ Marked(i) = 0 /\ ~reading[i] /\ m \in [Insts -> Channel]
        /\ msg \in Messages /\ msg.kind = "create"
        /\ \A j \in Insts \ {i} : m[j] = ch[j]
        /\ m[i] = [ch[i] EXCEPT !.queue = Tail(@)] /\ Len(m[i].queue) <= QueueSize
    BY <2>1, TakesMessage
  <2> HIDE DEF msg, m
  <2>4. msg \in Requests
    BY <2>3, MessageTypes
  <2>5. \A j \in Insts : /\ m[j].kind = ch[j].kind /\ m[j].id = ch[j].id
                         /\ m[j].closed = ch[j].closed /\ m[j].removing = ch[j].removing
                         /\ Len(m[j].queue) <= QueueSize
    <3>1. ch[i] \in Channel /\ \A j \in Insts : Len(ch[j].queue) <= QueueSize
      BY DEF CoreInv, Types, TickAt
    <3>2. /\ m[i].kind = ch[i].kind /\ m[i].id = ch[i].id
          /\ m[i].closed = ch[i].closed /\ m[i].removing = ch[i].removing
      BY <2>3, <3>1 DEF Channel
    <3> QED
      BY <2>3, <3>1, <3>2
  <2>6. raced' \in BOOLEAN /\ "NORMAL" \in {"NORMAL", "ENTITY"} /\ "NORMAL" # "ENTITY"
        /\ UNCHANGED <<full, kept, lockVars, connVars, panicked, removedElsewhere, removedBy>>
        /\ nextChannelId' \in NormalIds \cup {GLOBAL}
    BY <2>1, <2>2 DEF CoreInv, Types, history
  <2> HIDE DEF x
  <2> QED
    BY <2>1, <2>2, <2>3, <2>4, <2>5, <2>6, CreateStep, ZenonT(30)
<1>2. CASE StoreEntity(i)
  <2> DEFINE x == job[i].msg.id
             msg == job[i].msg
  <2>1. /\ pc[i] = "store" /\ createChannelWithId(i, x, "ENTITY", msg, ch)
        /\ UNCHANGED <<nextChannelId, full, kept, lockVars, connVars, panicked,
                       removedElsewhere, removedBy>>
    BY <1>2 DEF StoreEntity
  <2>2. /\ Exists(i) /\ TickAt(i) /\ JobAt(i) /\ ch \in [Insts -> Channel] /\ reading[i] \in BOOLEAN
    BY <2>1, GoroutineFacts
  <2>3. Marked(i) = 0 /\ ~reading[i] /\ msg \in Requests /\ msg.kind = "createEntity"
    BY <2>1, <2>2 DEF TickAt, JobAt, MidTick
  <2>4. x \in EntityIds
    BY <2>3, MessageTypes
  <2>5. x \in Ids /\ x \notin NormalIds
    BY <2>4, Constants
  <2>6. raced' \in BOOLEAN
    BY <1>2 DEF StoreEntity
  <2>7. \A j \in Insts : Len(ch[j].queue) <= QueueSize
    BY DEF CoreInv, TickAt
  <2>8. nextChannelId' \in NormalIds \cup {GLOBAL} /\ "ENTITY" \in {"NORMAL", "ENTITY"}
        /\ "NORMAL" # "ENTITY"
    BY <2>1 DEF CoreInv, TableInv
  <2> HIDE DEF x, msg
  <2> QED
    BY <2>1, <2>2, <2>3, <2>5, <2>6, <2>7, <2>8, CreateStep, ZenonT(30)
<1> QED
  BY <1>1, <1>2

\* All start at the top of their tick, with nothing to do.
LEMMA CoreInit ==
  ASSUME LifecycleAssumption, Init
  PROVE  CoreInv
<1> DEFINE n == Cardinality(SpatialIds)
<1>0. /\ n \in Nat /\ n <= MaxInst /\ MaxInst \in Nat /\ MaxId \in Nat /\ QueueSize \in Nat
      /\ SpatialIds = MaxId + 1 .. MaxId + n /\ Nobody \notin Insts /\ GLOBAL \in Insts
      /\ GLOBAL \notin SpatialIds /\ GLOBAL \in Ids
  BY Constants
<1>1. \A x \in SpatialIds : x \in Ids /\ x \notin NormalIds
  BY Constants
<1> DEFINE first(i) == [NoChannel EXCEPT !.kind = IF i = 0 THEN "GLOBAL" ELSE "SPATIAL",
           !.id = FirstId(i)]
<1>2. /\ made = 1 + n
      /\ \A i \in Insts : Exists(i) <=> IsFirst(i)
  <2>1. made = 1 + n
    BY DEF Init
  <2> HIDE DEF n
  <2> QED
    BY <1>0, <2>1, Constants DEF Exists, IsFirst, n, Insts
<1>3. \A i \in Insts : IsFirst(i) => FirstId(i) \in Ids /\ (i = 0 => FirstId(i) = GLOBAL)
                                     /\ (i # 0 => FirstId(i) \in SpatialIds
                                        /\ FirstId(i) = MaxId + i)
  <2> SUFFICES ASSUME NEW i \in Insts, IsFirst(i)
               PROVE  FirstId(i) \in Ids /\ (i = 0 => FirstId(i) = GLOBAL)
                      /\ (i # 0 => FirstId(i) \in SpatialIds /\ FirstId(i) = MaxId + i)
    OBVIOUS
  <2>1. i \in Nat /\ i <= n
    BY Constants DEF IsFirst
  <2> HIDE DEF n
  <2>2. CASE i = 0
    BY <1>0, <2>2 DEF FirstId
  <2>3. CASE i # 0
    <3>1. FirstId(i) = MaxId + i
      BY <2>3 DEF FirstId
    <3>2. MaxId + i \in SpatialIds
      BY <1>0, <2>1, <2>3
    <3> QED
      BY <1>1, <2>3, <3>1, <3>2
  <2> QED
    BY <2>2, <2>3
<1>4. NoChannel \in Channel /\ NoChannel.removing = 0 /\ NoChannel.closed = FALSE
      /\ NoChannel.queue = <<>>
  BY NoChannelType
<1>5. \A i \in Insts : IsFirst(i) =>
        /\ first(i) \in Channel /\ first(i).kind = (IF i = 0 THEN "GLOBAL" ELSE "SPATIAL")
        /\ first(i).id = FirstId(i) /\ first(i).removing = 0 /\ first(i).closed = FALSE
           /\ first(i).queue = <<>>
  <2> SUFFICES ASSUME NEW i \in Insts, IsFirst(i)
               PROVE  /\ first(i) \in Channel
                         /\ first(i).kind = (IF i = 0 THEN "GLOBAL" ELSE "SPATIAL")
                      /\ first(i).id = FirstId(i) /\ first(i).removing = 0
                         /\ first(i).closed = FALSE
                      /\ first(i).queue = <<>>
    OBVIOUS
  <2> DEFINE k == IF i = 0 THEN "GLOBAL" ELSE "SPATIAL"
             x == FirstId(i)
  <2>1. x \in Ids /\ k \in Kinds
    BY <1>3 DEF Kinds
  <2>2. first(i) = Renamed(NoChannel, k, x)
    BY DEF Renamed
  <2>3. Nobody \in Conns \cup {Nobody}
    OBVIOUS
  <2> HIDE DEF x, first
  <2> QED
    BY <1>4, <2>1, <2>2, <2>3, RenamedType DEF x
<1>6. ch = [i \in Insts |-> IF ~IsFirst(i) THEN NoChannel ELSE first(i)]
  BY DEF Init
<1> HIDE DEF first
<1>7. /\ ch \in [Insts -> Channel]
      /\ \A i \in Insts : ch[i].removing = 0 /\ ch[i].closed = FALSE /\ ch[i].queue = <<>>
      /\ \A i \in Insts : IsFirst(i) =>
           ch[i].id = FirstId(i) /\ ch[i].kind = (IF i = 0 THEN "GLOBAL" ELSE "SPATIAL")
  BY <1>4, <1>5, <1>6
<1>8. IsFirst(GLOBAL)
  BY <1>0 DEF IsFirst, GLOBAL
<1>9. allChannels \in [Ids -> Insts \cup {Nobody}]
      /\ \A x \in Ids : allChannels[x] # Nobody =>
           IsFirst(allChannels[x]) /\ allChannels[x] \in Insts /\ FirstId(allChannels[x]) = x
  <2>1. allChannels = [x \in Ids |-> IF x \in SpatialIds THEN x - MaxId
                                     ELSE IF x = GLOBAL THEN GLOBAL ELSE Nobody]
    BY DEF Init
  <2>2. \A x \in SpatialIds : x - MaxId \in Insts /\ IsFirst(x - MaxId) /\ FirstId(x - MaxId) = x
    <3> SUFFICES ASSUME NEW x \in SpatialIds
                 PROVE  x - MaxId \in Insts /\ IsFirst(x - MaxId) /\ FirstId(x - MaxId) = x
      OBVIOUS
    <3>1. x - MaxId \in 1 .. n /\ x - MaxId # 0 /\ MaxId + (x - MaxId) = x
      <4> HIDE DEF n
      <4> QED
        BY <1>0
    <3>2. x - MaxId \in Insts
      <4> HIDE DEF n
      <4> QED
        BY <1>0, <3>1 DEF Insts
    <3>3. IsFirst(x - MaxId)
      BY <1>0, <3>1 DEF IsFirst
    <3>4. FirstId(x - MaxId) = x
      BY <3>1 DEF FirstId
    <3> QED
      BY <3>2, <3>3, <3>4
  <2>3. FirstId(GLOBAL) = GLOBAL
    BY DEF FirstId, GLOBAL
  <2>4. \A x \in Ids : /\ x \in SpatialIds => allChannels[x] = x - MaxId
                       /\ x \notin SpatialIds /\ x = GLOBAL => allChannels[x] = GLOBAL
                       /\ x \notin SpatialIds /\ x # GLOBAL => allChannels[x] = Nobody
    BY <2>1
  <2>5. ASSUME NEW x \in Ids
        PROVE  /\ allChannels[x] \in Insts \cup {Nobody}
               /\ allChannels[x] # Nobody =>
                    IsFirst(allChannels[x]) /\ allChannels[x] \in Insts /\ FirstId(allChannels[x]) = x
    <3>1. CASE x \in SpatialIds
      BY <2>2, <2>4, <3>1
    <3>2. CASE x \notin SpatialIds /\ x = GLOBAL
      BY <1>0, <1>8, <2>3, <2>4, <3>2
    <3>3. CASE x \notin SpatialIds /\ x # GLOBAL
      BY <2>4, <3>3
    <3> QED
      BY <3>1, <3>2, <3>3
  <2>6. allChannels = [x \in Ids |-> allChannels[x]]
    BY <2>1
  <2> QED
    BY <2>5, <2>6
<1>10. pc = [i \in Insts |-> IF IsFirst(i) THEN "top" ELSE "none"] /\ pc \in [Insts -> PCs]
  BY DEF Init, PCs
<1>11. Types
  <2>1. made \in 0 .. MaxInst + 1
    <3> HIDE DEF n
    <3> QED
      BY <1>0, <1>2
  <2>2. job \in [Insts -> Job]
    BY NoJobType DEF Init
  <2>3. nextChannelId \in Ids
    BY <1>0 DEF Init, GLOBAL
  <2>4. /\ full \in BOOLEAN /\ reading \in [Insts -> BOOLEAN]
           /\ writer \in [Insts -> Insts \cup {Nobody}]
        /\ kept \in [Insts -> BOOLEAN] /\ sent \subseteq Requests
        /\ put \in [Conns -> Sending \cup {Nobody}] /\ closing \subseteq Conns
        /\ panicked \in {"no", "send", "close", "nil"}
        /\ removedElsewhere \in BOOLEAN /\ raced \in BOOLEAN
        /\ removedBy \in [Insts -> {"no", "request", "internal"}]
    <3>1. /\ full = FALSE /\ reading = [i \in Insts |-> FALSE] /\ writer = [i \in Insts |-> Nobody]
          /\ kept = [i \in Insts |-> FALSE] /\ put = [c \in Conns |-> Nobody] /\ closing = {}
          /\ panicked = "no" /\ removedElsewhere = FALSE /\ raced = FALSE
          /\ removedBy = [i \in Insts |-> "no"]
      BY DEF Init
    <3>2. sent \subseteq Requests
      <4>1. sent \in {Requests \ S : S \in Scenarios}
        BY DEF Init
      <4> QED
        BY <4>1
    <3> QED
      BY <3>1, <3>2
  <2>5. /\ ch \in [Insts -> Channel] /\ allChannels \in [Ids -> Insts \cup {Nobody}]
        /\ pc \in [Insts -> PCs]
    BY <1>7, <1>9, <1>10
  <2> QED
    BY <2>1, <2>2, <2>3, <2>4, <2>5 DEF Types
<1>12. TableInv
  <2>1. Made = {i \in Insts : IsFirst(i)}
    BY <1>2 DEF Made
  <2>2. GLOBAL \in Made /\ ch[GLOBAL].id = GLOBAL
    BY <1>0, <1>3, <1>7, <1>8, <2>1 DEF GLOBAL
  <2>3. \A x \in Ids : allChannels[x] # Nobody => allChannels[x] \in Made
        /\ ch[allChannels[x]].id = x
    BY <1>7, <1>9, <2>1
  <2>4. \A i \in Made : IdAt(i)
    BY <1>1, <1>3, <1>7, <2>1 DEF IdAt, GLOBAL
  <2>5. nextChannelId = GLOBAL
    BY DEF Init, GLOBAL
  <2> QED
    BY <2>2, <2>3, <2>4, <2>5 DEF TableInv
<1>13. ASSUME NEW i \in Insts PROVE TickAt(i) /\ JobAt(i)
  <2>1. /\ Marks(ch[i]) = 0 /\ Len(ch[i].queue) = 0 /\ ~reading[i]
           /\ (pc[i] = "none" <=> ~Exists(i))
        /\ pc[i] \in {"top", "none"} /\ removedBy[i] = "no"
    <3>1. ch[i].removing = 0 /\ ch[i].closed = FALSE /\ ch[i].queue = <<>>
      BY <1>7
    <3>2. pc[i] = IF IsFirst(i) THEN "top" ELSE "none"
      BY <1>10
    <3>3. ~reading[i] /\ removedBy[i] = "no" /\ (Exists(i) <=> IsFirst(i))
      BY <1>2 DEF Init
    <3>4. Marks(ch[i]) = 0
      BY <3>1, Unmarked
    <3>5. Len(ch[i].queue) = 0
      BY <3>1
    <3> QED
      BY <3>2, <3>3, <3>4, <3>5
  <2> QED
    BY <1>0, <2>1 DEF TickAt, JobAt, Marked, MidTick, Subscribing
<1> QED
  BY <1>11, <1>12, <1>13 DEF CoreInv

\* Every step keeps CoreInv.
LEMMA CoreStep ==
  ASSUME LifecycleAssumption, CoreInv, [Next]_vars
  PROVE  CoreInv'
<1>1. CASE UNCHANGED vars
  BY <1>1 DEF vars, tableVars, lockVars, connVars, history, CoreInv, Types, TableInv, TickAt,
              JobAt, IdAt, Made, Marked, Exists, IsRemoving
<1>2. CASE \/ \E c \in Conns, r \in Requests : Receive(c, r)
           \/ \E c \in Conns : Put(c) \/ Close(c)
  BY <1>2, ConnectionsKeepCore
<1>3. ASSUME NEW i \in Insts, Tick(i) PROVE CoreInv'
  BY <1>3, TakingKeepsCore, MovingKeepsCore, MarkingKeepsCore, HandleUnsubKeepsCore,
     SubscribeKeepsCore, AskForRemovalKeepsCore, RemoveChannelKeepsCore, DeleteChannelKeepsCore,
     CreatingKeepsCore DEF Tick
<1> QED
  BY <1>1, <1>2, <1>3 DEF Next

\* CoreInv gives what TypeOK says.
LEMMA CoreType ==
  ASSUME LifecycleAssumption, CoreInv
  PROVE  TypeOK
<1>1. Types
  BY DEF CoreInv
<1>2. ASSUME NEW i \in Insts
      PROVE  /\ ch[i].kind \in Kinds /\ ch[i].id \in Ids /\ ch[i].owner \in Conns \cup {Nobody}
             /\ ch[i].subs \subseteq Conns /\ ch[i].removing \in 0 .. 3 /\ ch[i].closed \in BOOLEAN
             /\ Len(ch[i].queue) <= QueueSize
             /\ \A k \in DOMAIN ch[i].queue : ch[i].queue[k] \in Messages
             /\ pc[i] = "none" <=> ~Exists(i)
             /\ reading[i] => pc[i] \in {"connections", "broadcast", "ask", "send"}
  <2>1. TickAt(i) /\ ch[i] \in Channel
    BY GoroutineFacts
  <2>2. ch[i].removing \in 0 .. 3
    <3>1. ch[i].removing \in Nat /\ ch[i].closed \in BOOLEAN /\ Marks(ch[i]) \in 0 .. 2
      BY <2>1 DEF Channel, TickAt, Marked
    <3> QED
      BY <3>1 DEF Marks
  <2>3. \A k \in DOMAIN ch[i].queue : ch[i].queue[k] \in Messages
    BY <2>1 DEF Channel
  <2> QED
    BY <2>1, <2>2, <2>3 DEF TickAt, Channel
<1>3. \A i \in Insts : job[i].msg \in Messages \cup {NoMessage} /\ job[i].at \in Insts \cup {Nobody}
  BY <1>1 DEF Types, Job
<1>4. \A c \in Conns : put[c] = Nobody \/ (put[c].msg \in Requests /\ put[c].at \in Insts)
  BY <1>1 DEF Types, Sending
<1> QED
  BY <1>1, <1>2, <1>3, <1>4 DEF Types, TypeOK

\* The types of the variables; a queue is never longer than its capacity, and only the
\* goroutine of a channel holds its lock for reading (Channel.Tick, channel.go).
THEOREM TypesAreKept == Spec => []TypeOK
<1>1. Init => CoreInv
  BY CoreInit, LifecycleAssumption
<1>2. CoreInv /\ [Next]_vars => CoreInv'
  BY CoreStep, LifecycleAssumption
<1>3. CoreInv => TypeOK
  BY CoreType, LifecycleAssumption
<1> QED
  BY <1>1, <1>2, <1>3, PTL DEF Spec

-----------------------------------------------------------------------------
(* What the steps do that the theorems below look at.                      *)

\* How often the removal of a channel has been asked for, the marks for which it still
\* has to be asked not counted.
Asked(i) == IF pc[i] \in {"ask", "send"} THEN Marked(i) - 1 ELSE Marked(i)

\* A step of the goroutine of i that leaves the table alone, and that only takes a
\* message, or marks the channel and goes on to ask for its removal.
Calm(i) ==
  /\ ChannelsStay
  /\ UNCHANGED <<allChannels, nextChannelId, made, history>>
  /\ \A j \in Insts \ {i} :
       pc'[j] = pc[j] /\ job'[j] = job[j] /\ ch'[j].queue = ch[j].queue /\ Asked(j)' = Asked(j)
  /\ ch'[i].queue = ch[i].queue \/ (ch[i].queue # <<>> /\ ch'[i].queue = Tail(ch[i].queue))
  /\ Asked(i)' = Asked(i)

\* ... a step of that kind.
LEMMA CalmStep ==
  ASSUME LifecycleAssumption, CoreInv, NEW i \in Insts, NEW p, NEW b,
         \A j \in Insts : /\ ch'[j].kind = ch[j].kind /\ ch'[j].id = ch[j].id
                         /\ ch'[j].closed = ch[j].closed,
         \A j \in Insts \ {i} : ch'[j].removing = ch[j].removing /\ ch'[j].queue = ch[j].queue,
         ch'[i].queue = ch[i].queue \/ (ch[i].queue # <<>> /\ ch'[i].queue = Tail(ch[i].queue)),
         pc' = [pc EXCEPT ![i] = p], job' = [job EXCEPT ![i] = b], pc[i] \notin {"ask", "send"},
         \/ ch'[i].removing = ch[i].removing /\ p \notin {"ask", "send"}
         \/ ch'[i].removing = ch[i].removing + 1 /\ p \in {"ask", "send"},
         UNCHANGED <<allChannels, nextChannelId, made, history>>
  PROVE  Calm(i)
<1>1. /\ pc'[i] = p /\ \A j \in Insts \ {i} : pc'[j] = pc[j] /\ job'[j] = job[j]
  BY DEF CoreInv, Types
<1>2. \A j \in Insts : ch[j] \in Channel /\ ch[j].removing \in Nat /\ ch[j].closed \in BOOLEAN
  BY DEF CoreInv, Types, Channel
<1>3. ChannelsStay
  <2> SUFFICES ASSUME NEW j \in Insts PROVE ch'[j].removing >= ch[j].removing
    BY DEF ChannelsStay
  <2>1. CASE j = i
    BY <1>2, <2>1
  <2>2. CASE j # i
    BY <1>2, <2>2
  <2> QED
    BY <2>1, <2>2
<1>4. ASSUME NEW j \in Insts \ {i} PROVE Asked(j)' = Asked(j)
  BY <1>1, <1>4 DEF Asked, Marked, Marks
<1>5. Asked(i)' = Asked(i)
  <2>0. Marks(ch[i]) \in Int /\ ch'[i].closed = ch[i].closed
    BY <1>2, MarksStep
  <2>1. CASE ch'[i].removing = ch[i].removing /\ p \notin {"ask", "send"}
    BY <1>1, <2>0, <2>1 DEF Asked, Marked, Marks
  <2>2. CASE ch'[i].removing = ch[i].removing + 1 /\ p \in {"ask", "send"}
    <3>1. Marks(ch'[i]) = Marks(ch[i]) + 1
      BY <1>2, <2>0, <2>2, MarksStep
    <3>2. Asked(i) = Marks(ch[i]) /\ Asked(i)' = Marks(ch'[i]) - 1
      BY <1>1, <2>2 DEF Asked, Marked
    <3> QED
      BY <2>0, <3>1, <3>2
  <2> QED
    BY <2>1, <2>2
<1> QED
  BY <1>1, <1>3, <1>4, <1>5 DEF Calm

\* ... one that takes a message,
LEMMA CalmTake ==
  ASSUME LifecycleAssumption, CoreInv, NEW i \in Insts, NEW k, Takes(i, k), NEW p, NEW b,
         ch' \in [Insts -> Channel], \A j \in Insts \ {i} : ch'[j] = ch[j],
         /\ ch'[i].kind = Taken(i)[i].kind /\ ch'[i].id = Taken(i)[i].id
         /\ ch'[i].closed = Taken(i)[i].closed /\ ch'[i].removing = Taken(i)[i].removing
         /\ ch'[i].queue = Taken(i)[i].queue,
         pc' = [pc EXCEPT ![i] = p], job' = [job EXCEPT ![i] = b], p \notin {"ask", "send"},
         UNCHANGED <<allChannels, nextChannelId, made, history>>
  PROVE  Calm(i)
<1>1. ch[i] \in Channel /\ Taken(i)[i] = [ch[i] EXCEPT !.queue = Tail(@)] /\ ch[i].queue # <<>>
      /\ pc[i] \notin {"ask", "send"}
  <2>1. ch[i] \in Channel /\ ch[i].queue # <<>>
    BY GoroutineFacts DEF Takes
  <2>2. Taken(i)[i] = [ch[i] EXCEPT !.queue = Tail(@)] /\ pc[i] \in {"messages", "top"}
    BY TakesMessage
  <2> QED
    BY <2>1, <2>2
<1>2. /\ Taken(i)[i].kind = ch[i].kind /\ Taken(i)[i].id = ch[i].id
      /\ Taken(i)[i].closed = ch[i].closed /\ Taken(i)[i].removing = ch[i].removing
      /\ Taken(i)[i].queue = Tail(ch[i].queue)
  BY <1>1 DEF Channel
<1>3. \A j \in Insts : /\ ch'[j].kind = ch[j].kind /\ ch'[j].id = ch[j].id
                       /\ ch'[j].closed = ch[j].closed
  BY <1>2
<1>4. \A j \in Insts \ {i} : ch'[j].removing = ch[j].removing /\ ch'[j].queue = ch[j].queue
  OBVIOUS
<1>5. /\ ch[i].queue # <<>> /\ ch'[i].queue = Tail(ch[i].queue)
      /\ ch'[i].removing = ch[i].removing /\ pc[i] \notin {"ask", "send"}
  BY <1>1, <1>2
<1> QED
  BY <1>3, <1>4, <1>5, CalmStep, ZenonT(30)

\* ... and one that leaves the channels as they are.
LEMMA CalmMove ==
  ASSUME LifecycleAssumption, CoreInv, NEW i \in Insts, NEW p, NEW b, UNCHANGED ch,
         pc' = [pc EXCEPT ![i] = p], job' = [job EXCEPT ![i] = b], pc[i] \notin {"ask", "send"},
         p \notin {"ask", "send"},
         UNCHANGED <<allChannels, nextChannelId, made, history>>
  PROVE  Calm(i)
BY CalmStep

\* A handler that takes its message leaves the rest alone.
LEMMA TakingIsCalm ==
  ASSUME LifecycleAssumption, CoreInv, NEW i \in Insts, CoreInv',
         \/ Possess(i) \/ FindFull(i) \/ RefuseCreate(i) \/ TestEntity(i) \/ HandleSub(i)
            \/ HandleUnsub(i)
         \/ RemoveUnknown(i) \/ HandleRemove(i)
  PROVE  /\ Calm(i)
         /\ ~FindFull(i) /\ ~HandleRemove(i) => pc'[i] = "messages" \/ pc'[i] = "subTest"
            \/ pc'[i] = "store"
<1> DEFINE m == Head(ch[i].queue)
<1>0. /\ ch' \in [Insts -> Channel] /\ pc \in [Insts -> PCs] /\ job = [job EXCEPT ![i] = job[i]]
      /\ ch \in [Insts -> Channel] /\ ch[i] \in Channel
  <2>1. ch' \in [Insts -> Channel]
    BY DEF CoreInv, Types
  <2> QED
    BY <2>1, GoroutineFacts
<1>1. PICK k \in {"possess", "create", "createEntity", "sub", "unsub", "remove"} : Takes(i, k)
  BY DEF Possess, FindFull, RefuseCreate, TestEntity, HandleSub, HandleUnsub, RemoveUnknown,
         HandleRemove
<1>2. Taken(i) \in [Insts -> Channel] /\ \A j \in Insts \ {i} : Taken(i)[j] = ch[j]
  BY <1>1, TakesMessage
<1>3. UNCHANGED <<allChannels, nextChannelId, made, history>>
  BY DEF Possess, FindFull, RefuseCreate, TestEntity, HandleSub, HandleUnsub, RemoveUnknown,
         HandleRemove, tableVars
<1>4. \E p \in {"messages", "subTest", "store", "setFull", "remove"} :
        /\ pc' = [pc EXCEPT ![i] = p]
        /\ p \in {"setFull", "remove"} => FindFull(i) \/ HandleRemove(i)
  BY DEF Possess, FindFull, RefuseCreate, TestEntity, HandleSub, HandleUnsub, RemoveUnknown,
         HandleRemove, Handled, Goto
<1>5. \E b : job' = [job EXCEPT ![i] = b]
  BY <1>0 DEF Possess, FindFull, RefuseCreate, TestEntity, HandleSub, HandleUnsub, RemoveUnknown,
              HandleRemove, Handled
<1>6. /\ ch'[i].kind = Taken(i)[i].kind /\ ch'[i].id = Taken(i)[i].id
      /\ ch'[i].closed = Taken(i)[i].closed /\ ch'[i].removing = Taken(i)[i].removing
      /\ ch'[i].queue = Taken(i)[i].queue
      /\ \A j \in Insts \ {i} : ch'[j] = ch[j]
  <2>1. CASE ch' = Taken(i)
    BY <1>2, <2>1
  <2>2. CASE Possess(i) /\ ch' # Taken(i)
    <3>1. i = GLOBAL /\ ch' = [Taken(i) EXCEPT ![GLOBAL].owner = m.conn]
      BY <2>2 DEF Possess
    <3>2. ch'[i] = [Taken(i)[i] EXCEPT !.owner = m.conn]
          /\ \A j \in Insts \ {i} : ch'[j] = Taken(i)[j]
      BY <1>2, <3>1
    <3>3. Taken(i)[i] \in Channel
      BY <1>2
    <3> QED
      BY <1>2, <3>2, <3>3 DEF Channel
  <2>3. CASE HandleUnsub(i) /\ ch' # Taken(i)
    <3> DEFINE c == m.target
    <3>1. ch' = [Taken(i) EXCEPT ![i].subs = @ \ {c}, ![i].owner = IF @ = c THEN Nobody ELSE @]
      BY <2>3 DEF HandleUnsub
    <3> HIDE DEF c
    <3>2. /\ ch'[i] = [Taken(i)[i] EXCEPT !.subs = @ \ {c}, !.owner = IF @ = c THEN Nobody ELSE @]
          /\ \A j \in Insts \ {i} : ch'[j] = Taken(i)[j]
      BY <1>2, <3>1
    <3>3. Taken(i)[i] \in Channel
      BY <1>2
    <3> QED
      BY <1>2, <3>2, <3>3 DEF Channel
  <2> QED
    BY <2>1, <2>2, <2>3 DEF Possess, FindFull, RefuseCreate, TestEntity, HandleSub, HandleUnsub,
                            RemoveUnknown, HandleRemove
<1>7. PICK p : /\ pc' = [pc EXCEPT ![i] = p]
               /\ p \in {"messages", "subTest", "store", "setFull", "remove"}
               /\ p \in {"setFull", "remove"} => FindFull(i) \/ HandleRemove(i)
  BY <1>4
<1>8. PICK b : job' = [job EXCEPT ![i] = b]
  BY <1>5
<1>9. Calm(i)
  <2>1. p \notin {"ask", "send"}
    BY <1>7
  <2> QED
    BY <1>0, <1>1, <1>3, <1>6, <1>7, <1>8, <2>1, CalmTake, ZenonT(30)
<1>10. pc'[i] = p
  BY <1>0, <1>7
<1> QED
  BY <1>7, <1>9, <1>10

\* A step that leaves the channels alone does so too.
LEMMA MovingIsCalm ==
  ASSUME LifecycleAssumption, CoreInv, NEW i \in Insts,
         \/ SetFull(i) \/ SubTest(i) \/ SubLock(i) \/ EndTick(i) \/ TickConnections(i)
         \/ (\E c \in Conns : OwnerLost(i, c)) \/ Unlock(i) \/ Wait(i) \/ Stop(i)
  PROVE  Calm(i) /\ pc'[i] # "remove" /\ pc'[i] # "setFull"
<1>1. job = [job EXCEPT ![i] = job[i]] /\ pc \in [Insts -> PCs]
  BY GoroutineFacts
<1>2. \E p : pc' = [pc EXCEPT ![i] = p] /\ p \notin {"ask", "send", "remove", "setFull"}
  <2> DEFINE at(p) == pc' = [pc EXCEPT ![i] = p]
  <2>1. \/ at("messages") \/ at("subLock") \/ at("subWait") \/ at("top") \/ at("connections")
        \/ at("broadcast") \/ at(AfterUnlock(i)) \/ at("stopped")
    BY DEF SetFull, SubTest, SubLock, EndTick, TickConnections, OwnerLost, Unlock, Wait, Stop,
           Handled, Goto
  <2>2. AfterUnlock(i) \in {"recover", "top"}
    BY DEF AfterUnlock
  <2> QED
    BY <2>1, <2>2
<1>3. \E b : job' = [job EXCEPT ![i] = b]
  BY <1>1 DEF SetFull, SubTest, SubLock, EndTick, TickConnections, OwnerLost, Unlock, Wait, Stop,
              Handled
<1>4. UNCHANGED ch /\ pc[i] \notin {"ask", "send"}
      /\ UNCHANGED <<allChannels, nextChannelId, made, history>>
  BY DEF SetFull, SubTest, SubLock, EndTick, TickConnections, OwnerLost, Unlock, Wait, Stop,
         tableVars
<1>5. PICK p : pc' = [pc EXCEPT ![i] = p] /\ p \notin {"ask", "send"} /\ p # "remove"
      /\ p # "setFull"
  BY <1>2
<1>6. PICK b : job' = [job EXCEPT ![i] = b]
  BY <1>3
<1>7. pc'[i] = p
  BY <1>1, <1>5
<1> QED
  BY <1>4, <1>5, <1>6, <1>7, CalmMove

\* Subscribing, and the end of a subscription, too.
LEMMA MarkingIsCalm ==
  ASSUME LifecycleAssumption, CoreInv, NEW i \in Insts,
         \/ \E c \in Conns : DropSubscriber(i, c) \/ OwnerRemoved(i, c)
         \/ Broadcast(i) \/ GiveUp(i) \/ Subscribe(i)
  PROVE  Calm(i) /\ pc'[i] # "remove" /\ pc'[i] # "setFull"
<1>1. /\ job = [job EXCEPT ![i] = job[i]] /\ pc \in [Insts -> PCs] /\ pc = [pc EXCEPT ![i] = pc[i]]
      /\ ch \in [Insts -> Channel] /\ ch[i] \in Channel
  BY GoroutineFacts
<1>2. PICK p : pc' = [pc EXCEPT ![i] = p] /\ p # "remove" /\ p # "setFull"
      /\ (UNCHANGED pc => p = pc[i])
  <2>1. CASE Goto(i, "connections") \/ Goto(i, "top") \/ Goto(i, "ask") \/ Goto(i, "messages")
    BY <1>1, <2>1 DEF Goto
  <2>2. CASE UNCHANGED pc /\ pc[i] = "connections"
    BY <1>1, <2>2
  <2> QED
    BY <2>1, <2>2 DEF DropSubscriber, OwnerRemoved, Broadcast, GiveUp, Subscribe, Handled
<1>3. PICK b : job' = [job EXCEPT ![i] = b]
  BY <1>1 DEF DropSubscriber, OwnerRemoved, Broadcast, GiveUp, Subscribe, Handled
<1>4. pc[i] \notin {"ask", "send"} /\ UNCHANGED <<allChannels, nextChannelId, made, history>>
      /\ pc'[i] = p
  BY <1>1, <1>2 DEF DropSubscriber, OwnerRemoved, Broadcast, GiveUp, Subscribe, tableVars
<1>a. ASSUME NEW c, ch' = Dropped(i, c), p \notin {"ask", "send"} PROVE Calm(i)
  <2>1. /\ ch' = [ch EXCEPT ![i] = Lost(i, c)]
        /\ Lost(i, c).kind = ch[i].kind /\ Lost(i, c).id = ch[i].id
        /\ Lost(i, c).closed = ch[i].closed /\ Lost(i, c).removing = ch[i].removing
        /\ Lost(i, c).queue = ch[i].queue
    BY <1>a, DroppedFacts
  <2>2. \A j \in Insts : /\ ch'[j].kind = ch[j].kind /\ ch'[j].id = ch[j].id
                         /\ ch'[j].closed = ch[j].closed /\ ch'[j].removing = ch[j].removing
                         /\ ch'[j].queue = ch[j].queue
    BY <1>1, <2>1
  <2> QED
    BY <1>2, <1>3, <1>4, <1>a, <2>2, CalmStep
<1>b. ASSUME NEW d \in Channel, d.kind = ch[i].kind, d.id = ch[i].id, d.closed = ch[i].closed,
             d.removing = ch[i].removing, d.queue = ch[i].queue,
             ch' = [ch EXCEPT ![i] = [d EXCEPT !.removing = @ + 1]], p \in {"ask", "send"}
      PROVE  Calm(i)
  <2> DEFINE e == [d EXCEPT !.removing = @ + 1]
  <2>1. /\ e.kind = ch[i].kind /\ e.id = ch[i].id /\ e.closed = ch[i].closed
        /\ e.removing = ch[i].removing + 1 /\ e.queue = ch[i].queue
    BY <1>b, MarkedType
  <2>2. ch' = [ch EXCEPT ![i] = e]
    BY <1>b
  <2> HIDE DEF e
  <2>3. /\ \A j \in Insts : /\ ch'[j].kind = ch[j].kind /\ ch'[j].id = ch[j].id
                            /\ ch'[j].closed = ch[j].closed /\ ch'[j].queue = ch[j].queue
        /\ \A j \in Insts \ {i} : ch'[j].removing = ch[j].removing
        /\ ch'[i].removing = ch[i].removing + 1
    BY <1>1, <2>1, <2>2
  <2> QED
    BY <1>2, <1>3, <1>4, <1>b, <2>3, CalmStep
<1>5. ASSUME NEW c \in Conns, DropSubscriber(i, c) PROVE Calm(i)
  BY <1>2, <1>5, <1>a DEF DropSubscriber
<1>6. ASSUME NEW c \in Conns, OwnerRemoved(i, c) PROVE Calm(i)
  <2>1. CASE ch' = Dropped(i, c) /\ UNCHANGED pc
    BY <1>2, <1>4, <1>a, <2>1
  <2>2. CASE ch' = [Dropped(i, c) EXCEPT ![i].removing = @ + 1] /\ Goto(i, "ask")
    <3>1. /\ Dropped(i, c) = [ch EXCEPT ![i] = Lost(i, c)] /\ Lost(i, c) \in Channel
          /\ Lost(i, c).kind = ch[i].kind /\ Lost(i, c).id = ch[i].id
             /\ Lost(i, c).queue = ch[i].queue
          /\ Lost(i, c).closed = ch[i].closed /\ Lost(i, c).removing = ch[i].removing
      BY DroppedFacts
    <3>2. ch' = [ch EXCEPT ![i] = [Lost(i, c) EXCEPT !.removing = @ + 1]]
      BY <1>1, <2>2, <3>1
    <3>3. p \in {"ask", "send"}
      BY <1>1, <1>4, <2>2 DEF Goto
    <3> QED
      BY <1>b, <3>1, <3>2, <3>3
  <2> QED
    BY <1>6, <2>1, <2>2 DEF OwnerRemoved
<1>7. CASE Broadcast(i)
  <2>1. p \notin {"ask", "send"}
    BY <1>1, <1>4, <1>7 DEF Broadcast, Goto
  <2> QED
    BY <1>2, <1>4, <1>7, <1>a, <2>1 DEF Broadcast
<1>8. CASE GiveUp(i)
  <2>1. CASE ch' = [ch EXCEPT ![i].removing = @ + 1] /\ Goto(i, "ask")
    <3>1. ch' = [ch EXCEPT ![i] = [ch[i] EXCEPT !.removing = @ + 1]] /\ p \in {"ask", "send"}
      BY <1>1, <1>4, <2>1 DEF Goto
    <3> QED
      BY <1>1, <1>2, <1>4, <1>b, <3>1
  <2>2. CASE Goto(i, "top") /\ UNCHANGED ch
    <3>1. p \notin {"ask", "send"}
      BY <1>1, <1>4, <2>2 DEF Goto
    <3> QED
      BY <1>2, <1>3, <1>4, <2>2, <3>1, CalmMove
  <2> QED
    BY <1>8, <2>1, <2>2 DEF GiveUp
<1>9. CASE Subscribe(i)
  <2> DEFINE t == job[i].at
             c == job[i].msg.target
             d == [ch[t] EXCEPT !.subs = @ \cup {c}]
  <2>1. pc[i] = "subWait" /\ ch' = [ch EXCEPT ![t].subs = @ \cup {c}] /\ Handled(i)
    BY <1>9 DEF Subscribe
  <2>2. t \in Insts
    <3>1. JobAt(i)
      BY GoroutineFacts
    <3> QED
      BY <2>1, <3>1 DEF JobAt, Subscribing, Made
  <2> HIDE DEF t, c
  <2>3. ch[t] \in Channel
    BY <1>1, <2>2
  <2>4. /\ d.kind = ch[t].kind /\ d.id = ch[t].id /\ d.closed = ch[t].closed
        /\ d.removing = ch[t].removing /\ d.queue = ch[t].queue
    BY <2>3 DEF Channel
  <2>5. ch' = [ch EXCEPT ![t] = d]
    BY <1>1, <2>1
  <2> HIDE DEF d
  <2>6. \A j \in Insts : /\ ch'[j].kind = ch[j].kind /\ ch'[j].id = ch[j].id
                         /\ ch'[j].closed = ch[j].closed /\ ch'[j].removing = ch[j].removing
                         /\ ch'[j].queue = ch[j].queue
    BY <1>1, <2>2, <2>4, <2>5
  <2>7. p \notin {"ask", "send"}
    BY <1>1, <1>4, <2>1 DEF Handled, Goto
  <2> QED
    BY <1>2, <1>3, <1>4, <2>6, <2>7, CalmStep
<1> QED
  BY <1>2, <1>4, <1>5, <1>6, <1>7, <1>8, <1>9

\* Nothing but RemoveChannel closes a channel, and nothing but the connections and
\* AskForRemoval adds to a queue.
LEMMA ConnectionStep ==
  ASSUME LifecycleAssumption, CoreInv,
         \/ \E c \in Conns, r \in Requests : Receive(c, r)
         \/ \E c \in Conns : Put(c) \/ Close(c)
  PROVE  /\ ChannelsStay /\ UNCHANGED <<tableVars, pc, job, history>>
         /\ \A j \in Insts : Asked(j)' = Asked(j)
         /\ \/ UNCHANGED ch /\ panicked' \in {panicked, "send"}
            \/ /\ UNCHANGED panicked
               /\ \E t \in Insts, m \in Requests :
                    /\ ch'[t].queue = Append(ch[t].queue, m)
                    /\ \A j \in Insts \ {t} : ch'[j].queue = ch[j].queue
<1>1. UNCHANGED <<tableVars, pc, job, history>>
  BY DEF Receive, Put, Close
<1>2. CASE UNCHANGED ch /\ panicked' \in {panicked, "send"}
  <2>1. \A j \in Insts : ch[j] \in Channel /\ ch[j].removing \in Nat
    BY DEF CoreInv, Types, Channel
  <2>2. ChannelsStay
    BY <1>2, <2>1 DEF ChannelsStay
  <2>3. \A j \in Insts : Asked(j)' = Asked(j)
    BY <1>1, <1>2 DEF Asked, Marked
  <2> QED
    BY <1>1, <1>2, <2>2, <2>3
<1>3. ASSUME NEW c \in Conns, put[c] # Nobody, Len(ch[put[c].at].queue) < QueueSize,
             UNCHANGED panicked,
             ch' = [ch EXCEPT ![put[c].at].queue = Append(@, put[c].msg)]
      PROVE  /\ ChannelsStay /\ \A j \in Insts : Asked(j)' = Asked(j)
             /\ \E t \in Insts, m \in Requests :
                  /\ ch'[t].queue = Append(ch[t].queue, m)
                  /\ \A j \in Insts \ {t} : ch'[j].queue = ch[j].queue
  <2>1. put[c] \in Sending
    BY <1>3 DEF CoreInv, Types
  <2> DEFINE t == put[c].at
             m == put[c].msg
  <2>2. t \in Insts /\ m \in Requests /\ m \in Messages
    BY <2>1 DEF Sending, Messages
  <2>3. Len(ch[t].queue) < QueueSize /\ ch' = [ch EXCEPT ![t].queue = Append(@, m)]
    BY <1>3
  <2> HIDE DEF t, m
  <2>4. /\ ChannelsStay
        /\ \A j \in Insts : ch'[j].closed = ch[j].closed /\ ch'[j].removing = ch[j].removing
        /\ ch'[t].queue = Append(ch[t].queue, m)
        /\ \A j \in Insts \ {t} : ch'[j] = ch[j]
    BY <2>2, <2>3, Queueing
  <2>5. \A j \in Insts : Asked(j)' = Asked(j)
    BY <1>1, <2>4 DEF Asked, Marked, Marks
  <2> QED
    BY <2>2, <2>4, <2>5
<1> QED
  BY <1>1, <1>2, <1>3 DEF Receive, Put, Close

\* The goroutine of i tests GLOBAL, and may wait then to send to it, or it is done with
\* asking.
AskingOn(i) == (TestGlobal(i) \/ AskForRemoval(i)) /\ pc'[i] \in {"ask", "send"}
DoneAsking(i) == (TestGlobal(i) \/ AskForRemoval(i)) /\ pc'[i] \notin {"ask", "send"}

\* A step that goes on asking is as quiet as the others, ...
LEMMA AskingIsCalm ==
  ASSUME LifecycleAssumption, CoreInv, NEW i \in Insts, AskingOn(i)
  PROVE  /\ Calm(i) /\ UNCHANGED full /\ panicked' \in {panicked, "send"}
         /\ pc'[i] # "remove" /\ pc'[i] # "setFull"
<1>1. ch \in [Insts -> Channel] /\ pc \in [Insts -> PCs] /\ \A j \in Insts : ch[j].removing \in Nat
  BY GoroutineFacts DEF CoreInv, Types, Channel
<1>2. pc[i] \in {"ask", "send"} /\ pc'[i] \in {"ask", "send"} /\ ~Leave(i)
  BY <1>1 DEF AskingOn, TestGlobal, AskForRemoval, Leave, Goto, AfterUnlock
<1>3. /\ UNCHANGED <<ch, tableVars, job, history>> /\ panicked' \in {panicked, "send"}
      /\ pc' = [pc EXCEPT ![i] = "send"] \/ pc' = pc
  BY <1>2 DEF AskingOn, TestGlobal, AskForRemoval, Goto
<1>4. \A j \in Insts \ {i} : pc'[j] = pc[j]
  BY <1>1, <1>3
<1>5. \A j \in Insts : Asked(j)' = Asked(j)
  <2>1. \A j \in Insts : Marked(j)' = Marked(j)
    BY <1>3 DEF Marked
  <2> QED
    BY <1>2, <1>4, <2>1 DEF Asked
<1>6. ChannelsStay
  BY <1>1, <1>3 DEF ChannelsStay
<1> QED
  BY <1>2, <1>3, <1>4, <1>5, <1>6 DEF Calm, tableVars

\* ... and one that is done with it has sent the message, or found GLOBAL marked.
LEMMA AskStep ==
  ASSUME LifecycleAssumption, CoreInv, NEW i \in Insts, DoneAsking(i)
  PROVE  /\ ChannelsStay /\ UNCHANGED <<tableVars, job, panicked, history>>
         /\ \A j \in Insts \ {i} : pc'[j] = pc[j] /\ Asked(j)' = Asked(j)
         /\ pc[i] \in {"ask", "send"} /\ pc'[i] \in {"top", "recover"}
         /\ Asked(i) \in Int /\ Asked(i)' = Asked(i) + 1 /\ Asked(i) \in 0 .. 1
         /\ \A j \in Insts : Marked(j)' = Marked(j)
         /\ \/ UNCHANGED ch
            \/ /\ ch'[GLOBAL].queue = Append(ch[GLOBAL].queue, RemovalOf(i))
                  /\ \A j \in Insts \ {GLOBAL} : ch'[j].queue = ch[j].queue
<1>2. ch \in [Insts -> Channel] /\ ch[i] \in Channel /\ TickAt(i) /\ pc \in [Insts -> PCs]
  BY GoroutineFacts
<1>1. /\ pc[i] \in {"ask", "send"}
      /\ pc' = [pc EXCEPT ![i] = IF reading[i] THEN AfterUnlock(i) ELSE "top"]
      /\ UNCHANGED <<tableVars, job, panicked, history>>
      /\ \/ UNCHANGED ch
         \/ /\ Len(ch[GLOBAL].queue) < QueueSize
            /\ ch' = [ch EXCEPT ![GLOBAL].queue = Append(@, RemovalOf(i))]
  BY <1>2 DEF DoneAsking, TestGlobal, AskForRemoval, Leave, Goto
<1>3. pc'[i] \in {"top", "recover"} /\ \A j \in Insts \ {i} : pc'[j] = pc[j]
  BY <1>1, <1>2 DEF AfterUnlock
<1>4. /\ ChannelsStay
      /\ \A j \in Insts : ch'[j].closed = ch[j].closed /\ ch'[j].removing = ch[j].removing
      /\ \/ UNCHANGED ch
         \/ /\ ch'[GLOBAL].queue = Append(ch[GLOBAL].queue, RemovalOf(i))
            /\ \A j \in Insts \ {GLOBAL} : ch'[j].queue = ch[j].queue
  <2>1. CASE UNCHANGED ch
    <3>1. \A j \in Insts : ch[j].removing \in Nat
      BY <1>2 DEF Channel
    <3> QED
      BY <2>1, <3>1 DEF ChannelsStay
  <2>2. CASE /\ Len(ch[GLOBAL].queue) < QueueSize
             /\ ch' = [ch EXCEPT ![GLOBAL].queue = Append(@, RemovalOf(i))]
    <3>1. RemovalOf(i) \in Messages
      BY <1>2, MessageTypes DEF RemovalOf, Channel
    <3>2. /\ ChannelsStay
          /\ \A j \in Insts : ch'[j].closed = ch[j].closed /\ ch'[j].removing = ch[j].removing
          /\ ch'[GLOBAL].queue = Append(ch[GLOBAL].queue, RemovalOf(i))
          /\ \A j \in Insts \ {GLOBAL} : ch'[j] = ch[j]
      BY <2>2, <3>1, Queueing, Constants
    <3> QED
      BY <2>2, <3>2
  <2> QED
    BY <1>1, <2>1, <2>2
<1>5. \A j \in Insts : Marked(j)' = Marked(j)
  BY <1>4 DEF Marked, Marks
<1>6. \A j \in Insts \ {i} : Asked(j)' = Asked(j)
  BY <1>3, <1>5 DEF Asked
<1>7. Marked(i) \in 1 .. 2 /\ Asked(i) = Marked(i) - 1 /\ Asked(i)' = Marked(i)
  BY <1>1, <1>2, <1>3, <1>5 DEF Asked, TickAt
<1>8. Asked(i) \in Int /\ Asked(i)' = Asked(i) + 1 /\ Asked(i) \in 0 .. 1
  BY <1>7
<1> QED
  BY <1>1, <1>3, <1>4, <1>5, <1>6, <1>8

\* The goroutine of i: what each of its steps may change.
LEMMA TickStep ==
  ASSUME LifecycleAssumption, CoreInv, CoreInv', NEW i \in Insts, Tick(i)
  PROVE  \/ /\ Calm(i) /\ UNCHANGED full /\ panicked' \in {panicked, "send"}
            /\ pc'[i] # "remove" /\ pc'[i] # "setFull"
         \/ Calm(i) /\ (FindFull(i) \/ SetFull(i) \/ RemoveUnknown(i) \/ HandleRemove(i))
         \/ CreateChannel(i) \/ StoreEntity(i) \/ RemoveChannel(i) \/ DeleteChannel(i)
         \/ DoneAsking(i)
<1>1. CASE Possess(i) \/ RefuseCreate(i) \/ TestEntity(i) \/ HandleSub(i) \/ HandleUnsub(i)
  <2>1. Calm(i) /\ (~FindFull(i) /\ ~HandleRemove(i) =>
                      pc'[i] = "messages" \/ pc'[i] = "subTest" \/ pc'[i] = "store")
    BY <1>1, TakingIsCalm
  <2>2. UNCHANGED <<full, panicked>>
    BY <1>1 DEF Possess, RefuseCreate, TestEntity, HandleSub, HandleUnsub, tableVars
  <2> QED
    BY <2>1, <2>2
<1>2. CASE FindFull(i) \/ RemoveUnknown(i) \/ HandleRemove(i)
  BY <1>2, TakingIsCalm
<1>3. CASE SetFull(i)
  BY <1>3, MovingIsCalm
<1>4. CASE \/ SubTest(i) \/ SubLock(i) \/ EndTick(i) \/ TickConnections(i)
           \/ (\E c \in Conns : OwnerLost(i, c)) \/ Unlock(i) \/ Wait(i) \/ Stop(i)
  <2>1. Calm(i) /\ pc'[i] # "remove" /\ pc'[i] # "setFull"
    BY <1>4, MovingIsCalm
  <2>2. UNCHANGED <<full, panicked>>
    BY <1>4 DEF SubTest, SubLock, EndTick, TickConnections, OwnerLost, Unlock, Wait, Stop, tableVars
  <2> QED
    BY <2>1, <2>2
<1>5. CASE \/ \E c \in Conns : DropSubscriber(i, c) \/ OwnerRemoved(i, c)
           \/ Broadcast(i) \/ GiveUp(i) \/ Subscribe(i)
  <2>1. Calm(i) /\ pc'[i] # "remove" /\ pc'[i] # "setFull"
    BY <1>5, MarkingIsCalm
  <2>2. UNCHANGED <<full, panicked>>
    BY <1>5 DEF DropSubscriber, OwnerRemoved, Broadcast, GiveUp, Subscribe, tableVars
  <2> QED
    BY <2>1, <2>2
<1>6. CASE TestGlobal(i) \/ AskForRemoval(i)
  BY <1>6, AskingIsCalm DEF AskingOn, DoneAsking
<1> QED
  BY <1>1, <1>2, <1>3, <1>4, <1>5, <1>6 DEF Tick

\* Creating a channel changes the table under one id only, and nothing of the channels
\* there are.
LEMMA CreateFacts ==
  ASSUME LifecycleAssumption, CoreInv, NEW i \in Insts, CreateChannel(i) \/ StoreEntity(i)
  PROVE  \E x \in Ids :
           /\ CreateChannel(i) => /\ x = NextId(nextChannelId) /\ x \in NormalIds \cup {GLOBAL}
                                  /\ Free(x) /\ nextChannelId' = x /\ raced' = raced
                                  /\ i = GLOBAL /\ ~full /\ NextIdIndexes(nextChannelId) # {}
           /\ ~CreateChannel(i) =>
                /\ x \in EntityIds /\ nextChannelId' = nextChannelId
                /\ raced' = (raced \/ allChannels[x] # job[i].at)
                /\ job[i].at # Nobody => job[i].at \in Made /\ IsRemoving(job[i].at)
           /\ made \in Insts /\ made \notin Made /\ Made' = Made \cup {made} /\ made # GLOBAL
           /\ allChannels' = [allChannels EXCEPT ![x] = made]
           /\ ch'[made].id = x /\ ch'[made].queue = <<>> /\ ~ch'[made].closed
              /\ ch'[made].removing = 0
           /\ \A j \in Insts \ {made} : /\ ch'[j].id = ch[j].id /\ ch'[j].removing = ch[j].removing
                                        /\ ch'[j].closed = ch[j].closed
           /\ pc'[i] = "subTest" /\ pc'[made] = "top" /\ i # made
           /\ \A j \in Insts \ {i, made} : pc'[j] = pc[j]
           /\ \A j \in Insts \ {i} : job'[j] = job[j]
           /\ \A j \in Insts \ {i, made} : ch'[j].queue = ch[j].queue
           /\ \/ ch'[i].queue = ch[i].queue
              \/ ch[i].queue # <<>> /\ ch'[i].queue = Tail(ch[i].queue)
           /\ UNCHANGED <<full, panicked, removedElsewhere, removedBy>>
<1>0. /\ ch \in [Insts -> Channel] /\ pc \in [Insts -> PCs] /\ job \in [Insts -> Job]
      /\ JobAt(i) /\ TickAt(i)
  BY GoroutineFacts
<1>a. ASSUME NEW x \in Ids, NEW kind \in {"NORMAL", "ENTITY"}, NEW msg \in Requests,
             NEW m \in [Insts -> Channel], createChannelWithId(i, x, kind, msg, m), Exists(i),
             \A j \in Insts \ {i} : m[j] = ch[j],
             m[i].id = ch[i].id, m[i].removing = ch[i].removing, m[i].closed = ch[i].closed,
             m[i].queue = ch[i].queue \/ (ch[i].queue # <<>> /\ m[i].queue = Tail(ch[i].queue))
      PROVE  /\ made \in Insts /\ made \notin Made /\ Made' = Made \cup {made} /\ made # GLOBAL
             /\ allChannels' = [allChannels EXCEPT ![x] = made]
             /\ ch'[made].id = x /\ ch'[made].queue = <<>> /\ ~ch'[made].closed
                /\ ch'[made].removing = 0
             /\ \A j \in Insts \ {made} :
                  /\ ch'[j].id = ch[j].id /\ ch'[j].removing = ch[j].removing
                  /\ ch'[j].closed = ch[j].closed
             /\ pc'[i] = "subTest" /\ pc'[made] = "top" /\ i # made
             /\ \A j \in Insts \ {i, made} : pc'[j] = pc[j]
             /\ \A j \in Insts \ {i} : job'[j] = job[j]
             /\ \A j \in Insts \ {i, made} : ch'[j].queue = ch[j].queue
             /\ \/ ch'[i].queue = ch[i].queue
                \/ ch[i].queue # <<>> /\ ch'[i].queue = Tail(ch[i].queue)
  <2> DEFINE new == [NoChannel EXCEPT !.kind = kind, !.id = x, !.owner = msg.conn]
  <2>1. /\ made \in Insts /\ allChannels' = [allChannels EXCEPT ![x] = made]
        /\ ch' = [m EXCEPT ![made] = new] /\ made' = made + 1
        /\ job' = [job EXCEPT ![i] = [msg |-> msg, at |-> made]]
        /\ pc' = [pc EXCEPT ![i] = "subTest", ![made] = "top"]
    BY <1>a DEF createChannelWithId
  <2>2. new.id = x /\ new.queue = <<>> /\ new.closed = FALSE /\ new.removing = 0
    <3>1. new = Given(NoChannel, kind, x, msg.conn) /\ kind \in Kinds
          /\ msg.conn \in Conns \cup {Nobody}
      BY <1>a, MessageTypes DEF Given, Kinds
    <3>2. /\ NoChannel \in Channel /\ NoChannel.removing = 0 /\ NoChannel.closed = FALSE
          /\ NoChannel.queue = <<>>
      BY NoChannelType
    <3> HIDE DEF new
    <3> QED
      BY <3>1, <3>2, RenamedType
  <2> HIDE DEF new
  <2>3. /\ made # i /\ made \notin Made /\ GLOBAL # made /\ Made' = Made \cup {made}
    <3>1. made \in Nat /\ i < made /\ GLOBAL \in Made /\ MaxInst \in Nat
      BY <1>a, <2>1, Constants DEF Exists, CoreInv, TableInv
    <3> QED
      BY <2>1, <3>1, Constants DEF Made, Exists, Insts, GLOBAL
  <2>4. ch'[made] = new /\ \A j \in Insts \ {made} : ch'[j] = m[j]
    BY <2>1
  <2>5. \A j \in Insts \ {made} : /\ ch'[j].id = ch[j].id /\ ch'[j].removing = ch[j].removing
                                  /\ ch'[j].closed = ch[j].closed
    BY <1>a, <2>4
  <2>6. /\ pc'[i] = "subTest" /\ pc'[made] = "top"
        /\ \A j \in Insts \ {i, made} : pc'[j] = pc[j]
        /\ \A j \in Insts \ {i} : job'[j] = job[j]
    BY <1>0, <2>1, <2>3
  <2>7. /\ \A j \in Insts \ {i, made} : ch'[j].queue = ch[j].queue
        /\ ch'[i].queue = m[i].queue
    BY <1>a, <2>3, <2>4
  <2> QED
    BY <1>a, <2>1, <2>2, <2>3, <2>4, <2>5, <2>6, <2>7
<1>1. CASE CreateChannel(i)
  <2> DEFINE x == NextId(nextChannelId)
             msg == Head(ch[i].queue)
             m == Taken(i)
  <2>1. /\ Takes(i, "create") /\ i = GLOBAL /\ ~full /\ NextIdIndexes(nextChannelId) # {}
        /\ nextChannelId' = x /\ createChannelWithId(i, x, "NORMAL", msg, m)
        /\ UNCHANGED <<full, kept, lockVars, connVars, panicked, history>>
    BY <1>1 DEF CreateChannel
  <2>2. x \in NormalIds \cup {GLOBAL} /\ x \in Ids /\ Free(x)
    BY <2>1, NextIdIsFree, Constants
  <2>3. /\ Exists(i) /\ m \in [Insts -> Channel] /\ msg \in Messages /\ msg.kind = "create"
        /\ \A j \in Insts \ {i} : m[j] = ch[j]
        /\ m[i] = [ch[i] EXCEPT !.queue = Tail(@)]
    BY <2>1, TakesMessage
  <2>4. ch[i].queue # <<>> /\ ch[i] \in Channel
    BY <1>0, <2>1 DEF Takes
  <2> HIDE DEF msg, m
  <2>5. msg \in Requests
    BY <2>3, MessageTypes
  <2>6. /\ m[i].id = ch[i].id /\ m[i].removing = ch[i].removing /\ m[i].closed = ch[i].closed
        /\ m[i].queue = Tail(ch[i].queue)
    BY <2>3, <2>4 DEF Channel
  <2> x \in Ids
    BY <2>2
  <2> WITNESS x \in Ids
  <2>7. UNCHANGED <<full, panicked, removedElsewhere, removedBy, raced>>
    BY <2>1 DEF history
  <2> QED
    BY <1>1, <1>a, <2>1, <2>2, <2>3, <2>4, <2>5, <2>6, <2>7
<1>2. CASE StoreEntity(i) /\ ~CreateChannel(i)
  <2> DEFINE x == job[i].msg.id
             msg == job[i].msg
  <2>1. /\ pc[i] = "store" /\ createChannelWithId(i, x, "ENTITY", msg, ch)
        /\ raced' = (raced \/ allChannels[x] # job[i].at)
        /\ UNCHANGED <<nextChannelId, full, kept, lockVars, connVars, panicked,
                       removedElsewhere, removedBy>>
    BY <1>2 DEF StoreEntity
  <2>2. /\ msg \in Requests /\ msg.kind = "createEntity" /\ Exists(i)
        /\ job[i].at # Nobody => job[i].at \in Made /\ IsRemoving(job[i].at)
    BY <1>0, <2>1 DEF JobAt, TickAt
  <2>3. x \in EntityIds /\ x \in Ids
    BY <2>2, MessageTypes, Constants
  <2> HIDE DEF msg
  <2> x \in Ids
    BY <2>3
  <2> WITNESS x \in Ids
  <2> QED
    BY <1>0, <1>2, <1>a, <2>1, <2>2, <2>3
<1> QED
  BY <1>1, <1>2

\* RemoveChannel closes one channel, or ends the process.
LEMMA RemoveFacts ==
  ASSUME LifecycleAssumption, CoreInv, NEW i \in Insts, RemoveChannel(i)
  PROVE  /\ pc[i] = "remove" /\ job[i].at \in Made
         /\ UNCHANGED <<tableVars, job, removedElsewhere, raced>>
         /\ \A j \in Insts : /\ ch'[j].id = ch[j].id /\ ch'[j].queue = ch[j].queue
                             /\ ch'[j].removing >= ch[j].removing /\ Marked(j)' = Marked(j)
         /\ \A j \in Insts \ {i} : pc'[j] = pc[j]
         /\ \A j \in Insts \ {job[i].at} : ch'[j].closed = ch[j].closed
            /\ removedBy'[j] = removedBy[j]
         /\ \/ ch[job[i].at].closed /\ panicked' = "close" /\ UNCHANGED <<ch, pc, removedBy>>
            \/ /\ ~ch[job[i].at].closed /\ UNCHANGED panicked
               /\ pc'[i] = "delete"
               /\ removedBy'[job[i].at] = IF job[i].msg.conn # Nobody THEN "request" ELSE "internal"
               /\ ch'[job[i].at].closed /\ ch'[job[i].at].removing > 0
<1> DEFINE t == job[i].at
           d == [ch[t] EXCEPT !.removing = @ + 1, !.closed = TRUE]
<1>1. pc[i] = "remove" /\ UNCHANGED <<tableVars, job, removedElsewhere, raced>>
  BY DEF RemoveChannel
<1>2. JobAt(i) /\ ch \in [Insts -> Channel] /\ pc \in [Insts -> PCs]
      /\ removedBy \in [Insts -> {"no", "request", "internal"}]
  BY GoroutineFacts DEF CoreInv, Types
<1>3. t \in Insts /\ t \in Made
  BY <1>1, <1>2 DEF JobAt, Made
<1>4. CASE ch[t].closed
  <2>1. panicked' = "close" /\ UNCHANGED <<ch, pc, removedBy>>
    BY <1>4 DEF RemoveChannel
  <2>2. \A j \in Insts : ch[j].removing \in Nat
    BY <1>2 DEF Channel
  <2> QED
    BY <1>1, <1>3, <1>4, <2>1, <2>2 DEF Marked
<1>5. CASE ~ch[t].closed
  <2> DEFINE why == IF job[i].msg.conn # Nobody THEN "request" ELSE "internal"
  <2>1. /\ ch' = [ch EXCEPT ![t].removing = @ + 1, ![t].closed = TRUE]
        /\ removedBy' = [removedBy EXCEPT ![t] = why]
        /\ pc' = [pc EXCEPT ![i] = "delete"] /\ UNCHANGED panicked
    BY <1>5 DEF RemoveChannel, Goto
  <2> HIDE DEF t, why
  <2>3. ch[t] \in Channel /\ ch[t].removing \in Nat /\ ch[t].closed = FALSE
    BY <1>2, <1>3, <1>5 DEF Channel
  <2>4. d.id = ch[t].id /\ d.closed /\ d.removing = ch[t].removing + 1 /\ d.queue = ch[t].queue
    BY <2>3 DEF Channel
  <2>5. ch' = [ch EXCEPT ![t] = d]
    BY <1>2, <1>3, <2>1
  <2>6. Marks(d) = Marks(ch[t])
    BY <2>3, <2>4 DEF Marks
  <2> HIDE DEF d
  <2>7. ch'[t] = d /\ \A j \in Insts \ {t} : ch'[j] = ch[j]
    BY <1>2, <1>3, <2>5
  <2>8. /\ removedBy'[t] = why /\ \A j \in Insts \ {t} : removedBy'[j] = removedBy[j]
        /\ pc'[i] = "delete" /\ \A j \in Insts \ {i} : pc'[j] = pc[j]
    BY <1>2, <1>3, <2>1
  <2>9. \A j \in Insts : /\ ch'[j].id = ch[j].id /\ ch'[j].queue = ch[j].queue
                         /\ ch'[j].removing >= ch[j].removing /\ Marked(j)' = Marked(j)
    <3> SUFFICES ASSUME NEW j \in Insts
                 PROVE  /\ ch'[j].id = ch[j].id /\ ch'[j].queue = ch[j].queue
                        /\ ch'[j].removing >= ch[j].removing /\ Marks(ch'[j]) = Marks(ch[j])
      BY DEF Marked
    <3>1. CASE j = t
      BY <2>3, <2>4, <2>6, <2>7, <3>1
    <3>2. CASE j # t
      <4>1. ch'[j] = ch[j] /\ ch[j].removing \in Nat
        BY <1>2, <2>7, <3>2 DEF Channel
      <4> QED
        BY <4>1
    <3> QED
      BY <3>1, <3>2
  <2>10. ch'[t].closed /\ ch'[t].removing > 0
    BY <2>3, <2>4, <2>7
  <2> QED
    BY <1>1, <1>3, <1>5, <2>1, <2>7, <2>8, <2>9, <2>10 DEF t, why
<1> QED
  BY <1>4, <1>5

\* DeleteChannel frees one id, that of a channel that RemoveChannel has closed.
LEMMA DeleteFacts ==
  ASSUME LifecycleAssumption, CoreInv, NEW i \in Insts, DeleteChannel(i)
  PROVE  LET t == job[i].at
             x == ch[t].id IN
           /\ pc[i] = "delete" /\ t \in Made /\ ch[t].closed /\ removedBy[t] # "no" /\ IsRemoving(t)
           /\ x \in Ids /\ allChannels' = [allChannels EXCEPT ![x] = Nobody]
           /\ raced' = (raced \/ allChannels[x] # t)
           /\ pc'[i] = "messages" /\ \A j \in Insts \ {i} : pc'[j] = pc[j] /\ job'[j] = job[j]
           /\ ch[t].kind \in {"GLOBAL", "NORMAL"} => full' = FALSE /\ nextChannelId' = x
           /\ ch[t].kind \notin {"GLOBAL", "NORMAL"} => UNCHANGED <<full, nextChannelId>>
           /\ removedElsewhere' = (removedElsewhere \/ (ch[t].kind = "NORMAL" /\ i # GLOBAL))
           /\ UNCHANGED <<made, ch, panicked, removedBy>>
<1> DEFINE t == job[i].at
           x == ch[t].id
<1>1. /\ pc[i] = "delete" /\ allChannels' = [allChannels EXCEPT ![x] = Nobody]
      /\ raced' = (raced \/ allChannels[x] # t)
      /\ ch[t].kind \in {"GLOBAL", "NORMAL"} => full' = FALSE /\ nextChannelId' = x
      /\ ch[t].kind \notin {"GLOBAL", "NORMAL"} => UNCHANGED <<full, nextChannelId>>
      /\ removedElsewhere' = (removedElsewhere \/ (ch[t].kind = "NORMAL" /\ i # GLOBAL))
      /\ pc' = [pc EXCEPT ![i] = "messages"] /\ job' = [job EXCEPT ![i] = NoJob]
      /\ UNCHANGED <<made, ch, panicked, removedBy>>
  BY DEF DeleteChannel, Handled, Goto
<1>2. JobAt(i) /\ ch \in [Insts -> Channel] /\ pc \in [Insts -> PCs] /\ job \in [Insts -> Job]
  BY GoroutineFacts
<1>3. t \in Made /\ t \in Insts /\ ch[t].closed /\ removedBy[t] # "no"
  BY <1>1, <1>2 DEF JobAt, Made
<1>4. x \in Ids
  BY <1>2, <1>3 DEF Channel
<1>5. IsRemoving(t)
  <2> HIDE DEF t
  <2>1. TickAt(t) /\ ch[t].removing \in Nat
    BY <1>2, <1>3 DEF CoreInv, Channel
  <2> QED
    BY <1>3, <2>1 DEF TickAt, Marked, Marks, IsRemoving
<1>6. pc'[i] = "messages" /\ \A j \in Insts \ {i} : pc'[j] = pc[j] /\ job'[j] = job[j]
  BY <1>1, <1>2
<1> QED
  BY <1>1, <1>3, <1>4, <1>5, <1>6

-----------------------------------------------------------------------------
(* Live channels are found.                                                *)

\* A channel that is not being removed is still found, if the table stays as it is.
LEMMA StillFound ==
  ASSUME LifecycleAssumption, CoreInv, CoreInv', LiveChannelIsFound,
         \A j \in Insts : ch'[j].id = ch[j].id /\ ch'[j].removing >= ch[j].removing,
         UNCHANGED <<allChannels, made>>, raced => raced'
  PROVE  LiveChannelIsFound'
<1> SUFFICES ASSUME NEW j \in Insts, Exists(j)', ~IsRemoving(j)', ~raced'
             PROVE  allChannels'[ch'[j].id] = j
  BY DEF LiveChannelIsFound
<1>1. ch[j].removing \in Nat /\ ch'[j].removing \in Nat
  BY DEF CoreInv, Types, Channel
<1>2. Exists(j) /\ ~IsRemoving(j) /\ ~raced
  BY <1>1 DEF Exists, IsRemoving
<1> QED
  BY <1>2 DEF LiveChannelIsFound

\* The id of a new channel is not that of one that is not being removed.
LEMMA NewIsFound ==
  ASSUME LifecycleAssumption, CoreInv, NEW i \in Insts, LiveChannelIsFound,
         CreateChannel(i) \/ StoreEntity(i)
  PROVE  LiveChannelIsFound'
<1> SUFFICES ASSUME NEW j \in Insts, Exists(j)', ~IsRemoving(j)', ~raced'
             PROVE  allChannels'[ch'[j].id] = j
  BY DEF LiveChannelIsFound
<1>1. PICK x \in Ids :
        /\ CreateChannel(i) => Free(x) /\ raced' = raced
        /\ ~CreateChannel(i) => /\ raced' = (raced \/ allChannels[x] # job[i].at)
                                /\ job[i].at # Nobody => job[i].at \in Made /\ IsRemoving(job[i].at)
        /\ made \in Insts /\ Made' = Made \cup {made}
           /\ allChannels' = [allChannels EXCEPT ![x] = made]
        /\ ch'[made].id = x
        /\ \A k \in Insts \ {made} : ch'[k].id = ch[k].id /\ ch'[k].removing = ch[k].removing
  BY CreateFacts
<1>2. allChannels'[x] = made /\ \A y \in Ids \ {x} : allChannels'[y] = allChannels[y]
  BY <1>1 DEF CoreInv, Types
<1>3. CASE j = made
  BY <1>1, <1>2, <1>3
<1>4. CASE j # made
  <2>1. /\ ch'[j].id = ch[j].id /\ ~IsRemoving(j) /\ Exists(j) /\ ~raced /\ ch[j].id \in Ids
    <3>1. j \in Made
      BY <1>1, <1>4 DEF Made
    <3>2. ch[j].id \in Ids
      BY DEF CoreInv, Types, Channel
    <3>3. ~raced
      <4>1. raced' = raced \/ raced' = (raced \/ allChannels[x] # job[i].at)
        BY <1>1
      <4> QED
        BY <4>1
    <3>4. ch'[j].id = ch[j].id /\ ch'[j].removing = ch[j].removing
      BY <1>1, <1>4
    <3> QED
      BY <3>1, <3>2, <3>3, <3>4 DEF Made, IsRemoving
  <2>2. allChannels[ch[j].id] = j
    BY <2>1 DEF LiveChannelIsFound
  <2>3. ch[j].id # x
    <3>1. CASE CreateChannel(i)
      BY <1>1, <2>2, <3>1, Constants DEF Free
    <3>2. CASE ~CreateChannel(i)
      <4>1. allChannels[x] = job[i].at
        BY <1>1, <3>2
      <4> QED
        BY <1>1, <2>1, <2>2, <3>2, <4>1, Constants
    <3> QED
      BY <3>1, <3>2
  <2> QED
    BY <1>2, <2>1, <2>2, <2>3
<1> QED
  BY <1>3, <1>4

\* The channels there are at the start are found under their ids.
LEMMA FirstAreFound ==
  ASSUME LifecycleAssumption, Init, NEW i \in Insts, Exists(i)
  PROVE  allChannels[ch[i].id] = i
<1> DEFINE n == Cardinality(SpatialIds)
<1>1. /\ n \in Nat /\ SpatialIds = MaxId + 1 .. MaxId + n /\ MaxId \in Nat /\ i \in Nat
      /\ \A x \in EntityIds \cup SpatialIds : x \in Ids /\ x \notin NormalIds /\ x # GLOBAL
      /\ GLOBAL \in Ids
  BY Constants, LifecycleAssumption
<1>2. made = 1 + n
  BY DEF Init
<1>3. IsFirst(i)
  <2> HIDE DEF n
  <2> QED
    BY <1>1, <1>2 DEF Exists, IsFirst, n
<1>4. ch[i].id = FirstId(i)
  <2> DEFINE k == IF i = 0 THEN "GLOBAL" ELSE "SPATIAL"
             x == FirstId(i)
  <2>1. ch[i] = [NoChannel EXCEPT !.kind = k, !.id = x]
    BY <1>3 DEF Init
  <2> HIDE DEF x, k
  <2>2. ch[i].id = x
    BY <2>1 DEF NoChannel
  <2> QED
    BY <2>2 DEF x
<1>5. CASE i = 0
  BY <1>1, <1>4, <1>5 DEF Init, FirstId, GLOBAL
<1>6. CASE i # 0
  <2>1. MaxId + i \in SpatialIds /\ (MaxId + i) - MaxId = i
    <3>1. i \in 1 .. n
      BY <1>1, <1>3, <1>6 DEF IsFirst
    <3> HIDE DEF n
    <3> QED
      BY <1>1, <3>1
  <2>2. FirstId(i) = MaxId + i /\ MaxId + i \in Ids
    BY <1>1, <1>6, <2>1 DEF FirstId
  <2> QED
    BY <1>4, <2>1, <2>2 DEF Init
<1> QED
  BY <1>5, <1>6

\* A channel that nobody removes can be found under its id, unless two goroutines worked
\* on one entity id at the same time (createChannelWithId and RemoveChannel, channel.go).
THEOREM LiveChannelsAreFound == Spec => []LiveChannelIsFound
<1>1. Init => CoreInv /\ LiveChannelIsFound
  <2> SUFFICES ASSUME Init PROVE CoreInv /\ LiveChannelIsFound
    OBVIOUS
  <2>1. CoreInv
    BY CoreInit, LifecycleAssumption
  <2>2. \A i \in Insts : Exists(i) => allChannels[ch[i].id] = i
    BY FirstAreFound, LifecycleAssumption
  <2> QED
    BY <2>1, <2>2 DEF LiveChannelIsFound
<1>2. CoreInv /\ LiveChannelIsFound /\ [Next]_vars => (CoreInv /\ LiveChannelIsFound)'
  <2> SUFFICES ASSUME CoreInv, LiveChannelIsFound, [Next]_vars PROVE CoreInv' /\ LiveChannelIsFound'
    OBVIOUS
  <2>1. CoreInv'
    BY CoreStep, LifecycleAssumption
  <2>a. ASSUME ChannelsStay, UNCHANGED <<allChannels, made>>, raced => raced'
        PROVE LiveChannelIsFound'
    BY <2>1, <2>a, StillFound, LifecycleAssumption DEF ChannelsStay
  <2>2. CASE UNCHANGED vars
    BY <2>1, <2>2 DEF vars, tableVars, history, LiveChannelIsFound, Exists, IsRemoving
  <2>3. CASE \/ \E c \in Conns, r \in Requests : Receive(c, r)
             \/ \E c \in Conns : Put(c) \/ Close(c)
    BY <2>1, <2>3, <2>a, ConnectionStep, LifecycleAssumption DEF tableVars, history
  <2>4. ASSUME NEW i \in Insts, Tick(i) PROVE LiveChannelIsFound'
    <3>1. CASE Calm(i)
      BY <2>a, <3>1 DEF Calm, history
    <3>2. CASE CreateChannel(i) \/ StoreEntity(i)
      BY <3>2, NewIsFound, LifecycleAssumption
    <3>3. CASE RemoveChannel(i)
      <4>1. /\ UNCHANGED <<allChannels, made, raced>>
            /\ \A j \in Insts : ch'[j].id = ch[j].id /\ ch'[j].removing >= ch[j].removing
        BY <3>3, RemoveFacts, LifecycleAssumption DEF tableVars
      <4> QED
        BY <2>1, <4>1, StillFound, LifecycleAssumption
    <3>4. CASE DeleteChannel(i)
      <4> DEFINE t == job[i].at
                 x == ch[t].id
      <4>1. /\ IsRemoving(t) /\ x \in Ids /\ allChannels' = [allChannels EXCEPT ![x] = Nobody]
            /\ raced' = (raced \/ allChannels[x] # t) /\ UNCHANGED <<made, ch>>
        BY <3>4, DeleteFacts, LifecycleAssumption
      <4> HIDE DEF t, x
      <4>2. ASSUME NEW j \in Insts, Exists(j)', ~IsRemoving(j)', ~raced'
            PROVE  allChannels'[ch'[j].id] = j
        <5>1. Exists(j) /\ ~IsRemoving(j) /\ ~raced /\ ch'[j].id = ch[j].id /\ j # t
          BY <4>1, <4>2 DEF Exists, IsRemoving
        <5>2. allChannels[ch[j].id] = j /\ allChannels[x] = t
          BY <4>1, <4>2, <5>1 DEF LiveChannelIsFound
        <5>3. ch[j].id \in Ids /\ allChannels \in [Ids -> Insts \cup {Nobody}]
          BY DEF CoreInv, Types, Channel
        <5> QED
          BY <4>1, <5>1, <5>2, <5>3
      <4> QED
        BY <4>2 DEF LiveChannelIsFound
    <3>5. CASE DoneAsking(i)
      BY <2>a, <3>5, AskStep, LifecycleAssumption DEF tableVars, history
    <3> QED
      BY <2>1, <2>4, <3>1, <3>2, <3>3, <3>4, <3>5, TickStep, LifecycleAssumption
  <2> QED
    BY <2>1, <2>2, <2>3, <2>4 DEF Next
<1> QED
  BY <1>1, <1>2, PTL DEF Spec

-----------------------------------------------------------------------------
(* Full means full.                                                        *)

\* As long as the GLOBAL channel is there and removes the NORMAL ones itself, the flag is
\* set, or about to be, only while all ids are used; and GLOBAL, the id the first search
\* starts from, is looked at by no other search, and by that one not before a free one.
AllUsed == \A x \in NormalIds : allChannels[x] # Nobody
SearchInv ==
  /\ full \/ pc[GLOBAL] = "setFull" => AllUsed
  /\ allChannels[GLOBAL] = GLOBAL
  /\ \A i \in Made : ch[i].id = GLOBAL => i = GLOBAL
  /\ nextChannelId = GLOBAL => allChannels[1] = Nobody
FullInv == removedElsewhere \/ removedBy[GLOBAL] # "no" \/ SearchInv

\* A search that finds nothing has tried all ids.
LEMMA SearchTriesAll ==
  ASSUME LifecycleAssumption, CoreInv, SearchInv, NextIdIndexes(nextChannelId) = {}
  PROVE  AllUsed
<1>1. MaxId \in Nat /\ MaxId >= 2 /\ nextChannelId \in NormalIds \cup {GLOBAL}
  BY Constants DEF CoreInv, TableInv
<1>2. \A k \in 0 .. MaxId - 1 : ~Free(Tried(nextChannelId, k))
  BY DEF NextIdIndexes
<1>3. nextChannelId # GLOBAL
  <2> SUFFICES ASSUME nextChannelId = GLOBAL PROVE FALSE
    OBVIOUS
  <2>1. 1 \in 0 .. MaxId - 1 /\ Tried(nextChannelId, 1) = 1
    BY <1>1 DEF Tried, GLOBAL
  <2> QED
    BY <1>2, <2>1 DEF SearchInv, Free
<1>4. ASSUME NEW x \in NormalIds PROVE allChannels[x] # Nobody
  <2> DEFINE s == nextChannelId
  <2>1. s \in 1 .. MaxId /\ x \in 1 .. MaxId
    BY <1>1, <1>3 DEF NormalIds
  <2> HIDE DEF s
  <2>2. CASE x >= s
    <3>1. x - s \in 0 .. MaxId - 1 /\ s + (x - s) <= MaxId /\ s + (x - s) = x
      BY <1>1, <2>1, <2>2
    <3>2. Tried(s, x - s) = x
      BY <3>1 DEF Tried
    <3> QED
      BY <1>2, <3>1, <3>2 DEF s, Free
  <2>3. CASE x < s
    <3> DEFINE k == (x + MaxId) - s
    <3>1. k \in 0 .. MaxId - 1 /\ ~(s + k <= MaxId) /\ (s + k) - MaxId = x
      BY <1>1, <2>1, <2>3
    <3> HIDE DEF k
    <3>2. Tried(s, k) = (s + k) - MaxId
      <4>1. k \in Int /\ s \in Int
        BY <1>1, <2>1, <3>1
      <4> QED
        BY <1>1, <3>1, <4>1 DEF Tried
    <3>3. Tried(s, k) = x
      BY <3>1, <3>2
    <3> QED
      BY <1>2, <3>1, <3>3 DEF s, Free
  <2> QED
    BY <1>1, <2>1, <2>2, <2>3
<1> QED
  BY <1>4 DEF AllUsed

\* A step that leaves the table alone.
LEMMA SearchKept ==
  ASSUME LifecycleAssumption, CoreInv, SearchInv, UNCHANGED <<allChannels, nextChannelId, made>>,
         \A j \in Insts : ch'[j].id = ch[j].id,
         (full \/ pc[GLOBAL] = "setFull" => AllUsed)
         => (full' \/ pc'[GLOBAL] = "setFull" => AllUsed)
  PROVE  SearchInv'
<1>1. Made' = Made /\ Made \subseteq Insts
  BY DEF Made, Exists
<1>2. AllUsed' = AllUsed
  BY DEF AllUsed
<1> QED
  BY <1>1, <1>2 DEF SearchInv

\* The goroutine of a channel that is not GLOBAL is not about to set the flag.
LEMMA OnlyGlobalIsFull ==
  ASSUME LifecycleAssumption, CoreInv, NEW i \in Insts
  PROVE  pc[i] = "setFull" => i = GLOBAL
BY GoroutineFacts DEF JobAt

\* A new channel is found under an id of its own.
LEMMA CreateKeepsSearch ==
  ASSUME LifecycleAssumption, CoreInv, CoreInv', SearchInv, NEW i \in Insts,
         CreateChannel(i) \/ StoreEntity(i)
  PROVE  SearchInv'
<1>0. GLOBAL \in Insts /\ GLOBAL \in Ids /\ Nobody \notin Insts /\ NormalIds \subseteq Ids
      /\ GLOBAL \notin NormalIds /\ 1 \in NormalIds
      /\ \A x \in EntityIds : x \in Ids /\ x \notin NormalIds /\ x # GLOBAL
  BY Constants
<1>1. PICK x \in Ids :
        /\ CreateChannel(i) => /\ x \in NormalIds \cup {GLOBAL} /\ Free(x) /\ nextChannelId' = x
                               /\ i = GLOBAL /\ ~full
        /\ ~CreateChannel(i) => x \in EntityIds /\ nextChannelId' = nextChannelId
        /\ made \in Insts /\ Made' = Made \cup {made} /\ made # GLOBAL
        /\ allChannels' = [allChannels EXCEPT ![x] = made]
        /\ ch'[made].id = x /\ \A j \in Insts \ {made} : ch'[j].id = ch[j].id
        /\ pc'[i] = "subTest" /\ pc'[made] = "top" /\ i # made
        /\ \A j \in Insts \ {i, made} : pc'[j] = pc[j]
        /\ UNCHANGED full
  BY CreateFacts
<1>2. allChannels'[x] = made /\ \A y \in Ids \ {x} : allChannels'[y] = allChannels[y]
  BY <1>1 DEF CoreInv, Types
<1>3. x # GLOBAL
  <2>1. ~Free(GLOBAL)
    BY <1>0 DEF SearchInv, Free
  <2>2. CASE CreateChannel(i)
    <3>1. Free(x)
      BY <1>1, <2>2
    <3> QED
      BY <2>1, <3>1
  <2>3. CASE ~CreateChannel(i)
    <3>1. x \in EntityIds
      BY <1>1, <2>3
    <3> QED
      BY <1>0, <3>1
  <2> QED
    BY <2>2, <2>3
<1>4. allChannels'[GLOBAL] = GLOBAL
  BY <1>0, <1>2, <1>3 DEF SearchInv
<1>5. ASSUME NEW j \in Made', ch'[j].id = GLOBAL PROVE j = GLOBAL
  <2>1. j # made
    BY <1>1, <1>3, <1>5
  <2>2. j \in Made /\ j \in Insts
    BY <1>1, <2>1 DEF Made
  <2> QED
    BY <1>1, <1>5, <2>1, <2>2 DEF SearchInv
<1>6. nextChannelId' = GLOBAL => allChannels'[1] = Nobody
  BY <1>0, <1>1, <1>2, <1>3 DEF SearchInv
<1>7. pc'[GLOBAL] = "setFull" => pc[GLOBAL] = "setFull"
  BY <1>0, <1>1
<1>8. AllUsed => AllUsed'
  BY <1>0, <1>1, <1>2 DEF AllUsed
<1> QED
  BY <1>1, <1>4, <1>5, <1>6, <1>7, <1>8 DEF SearchInv

\* The entry of a channel that is not GLOBAL is deleted by the GLOBAL goroutine, which
\* resets the flag, unless no NORMAL channel may have the id.
LEMMA DeleteKeepsSearch ==
  ASSUME LifecycleAssumption, CoreInv, SearchInv, NEW i \in Insts, DeleteChannel(i),
         removedBy[GLOBAL] = "no", ~removedElsewhere'
  PROVE  SearchInv'
<1> DEFINE t == job[i].at
           x == ch[t].id
<1>0. GLOBAL \in Insts /\ GLOBAL \in Ids /\ Nobody \notin Insts /\ NormalIds \subseteq Ids
      /\ GLOBAL \notin NormalIds /\ 1 \in NormalIds
  BY Constants
<1>1. /\ t \in Made /\ removedBy[t] # "no" /\ x \in Ids
      /\ allChannels' = [allChannels EXCEPT ![x] = Nobody]
      /\ pc'[i] = "messages" /\ \A j \in Insts \ {i} : pc'[j] = pc[j]
      /\ ch[t].kind \in {"GLOBAL", "NORMAL"} => full' = FALSE /\ nextChannelId' = x
      /\ ch[t].kind \notin {"GLOBAL", "NORMAL"} => UNCHANGED <<full, nextChannelId>>
      /\ removedElsewhere' = (removedElsewhere \/ (ch[t].kind = "NORMAL" /\ i # GLOBAL))
      /\ UNCHANGED <<made, ch>>
  BY DeleteFacts
<1> HIDE DEF t
<1>2. IdAt(t) /\ t # GLOBAL /\ t \in Insts /\ ch[t].kind \in Kinds
  BY <1>1 DEF CoreInv, TableInv, Types, Channel, Made
<1>3. x # GLOBAL
  BY <1>1, <1>2 DEF SearchInv
<1>4. /\ allChannels'[GLOBAL] = GLOBAL
      /\ \A y \in Ids \ {x} : allChannels'[y] = allChannels[y]
  BY <1>0, <1>1, <1>3 DEF SearchInv, CoreInv, Types
<1>5. \A j \in Made' : ch'[j].id = GLOBAL => j = GLOBAL
  BY <1>1 DEF SearchInv, Made, Exists
<1>6. CASE ch[t].kind = "NORMAL"
  <2>1. i = GLOBAL /\ full' = FALSE /\ nextChannelId' = x /\ pc'[GLOBAL] = "messages"
    BY <1>1, <1>6
  <2> QED
    BY <1>3, <1>4, <1>5, <2>1 DEF SearchInv
<1>7. CASE ch[t].kind \in {"SPATIAL", "ENTITY"}
  <2>1. x \notin NormalIds /\ UNCHANGED <<full, nextChannelId>>
    BY <1>1, <1>2, <1>7 DEF IdAt
  <2>2. (pc'[GLOBAL] = "setFull" => pc[GLOBAL] = "setFull") /\ (AllUsed => AllUsed')
        /\ allChannels'[1] = allChannels[1]
    BY <1>0, <1>1, <1>4, <2>1 DEF AllUsed
  <2> QED
    BY <1>4, <1>5, <2>1, <2>2 DEF SearchInv
<1> QED
  BY <1>2, <1>6, <1>7 DEF Kinds, IdAt

\* The flag is set only while no id is free, as long as GLOBAL stays and removes the other
\* channels itself (CreateChannel and RemoveChannel, channel.go).
THEOREM FullMeansFull == Spec => []FullFlagIsTrue
<1>1. Init => CoreInv /\ FullInv
  <2> SUFFICES ASSUME Init PROVE CoreInv /\ FullInv
    OBVIOUS
  <2>1. CoreInv
    BY CoreInit, LifecycleAssumption
  <2>2. /\ GLOBAL \in Insts /\ GLOBAL \in Ids /\ 1 \in Ids /\ GLOBAL # 1 /\ 1 \notin SpatialIds
        /\ GLOBAL \notin SpatialIds
    BY Constants, LifecycleAssumption DEF GLOBAL
  <2>3. allChannels[GLOBAL] = GLOBAL /\ allChannels[1] = Nobody /\ pc[GLOBAL] # "setFull"
        /\ full = FALSE
    BY <2>2 DEF Init
  <2>4. ASSUME NEW j \in Made, ch[j].id = GLOBAL PROVE j = GLOBAL
    <3>1. j \in Insts /\ IdAt(j)
      BY <2>1 DEF CoreInv, TableInv, Made
    <3> DEFINE n == Cardinality(SpatialIds)
    <3>2. n \in Nat /\ MaxId \in Nat /\ j \in Nat /\ made = 1 + n
      BY <3>1, Constants, LifecycleAssumption DEF Init
    <3>3. IsFirst(j)
      <4> HIDE DEF n
      <4> QED
        BY <3>2 DEF Made, Exists, IsFirst, n
    <3>4. ch[j].id = FirstId(j)
      <4> DEFINE k == IF j = 0 THEN "GLOBAL" ELSE "SPATIAL"
                 x == FirstId(j)
      <4>1. ch[j] = [NoChannel EXCEPT !.kind = k, !.id = x]
        BY <3>1, <3>3 DEF Init
      <4> HIDE DEF x, k
      <4>2. ch[j].id = x
        BY <4>1 DEF NoChannel
      <4> QED
        BY <4>2 DEF x
    <3>5. FirstId(j) = 0
      BY <2>4, <3>4 DEF GLOBAL
    <3> QED
      BY <3>2, <3>5 DEF FirstId, GLOBAL
  <2> QED
    BY <2>1, <2>3, <2>4 DEF FullInv, SearchInv
<1>2. CoreInv /\ FullInv /\ [Next]_vars => (CoreInv /\ FullInv)'
  <2> SUFFICES ASSUME CoreInv, FullInv, [Next]_vars PROVE CoreInv' /\ FullInv'
    OBVIOUS
  <2>1. CoreInv' /\ GLOBAL \in Insts
    BY CoreStep, Constants, LifecycleAssumption
  <2>a. ASSUME SearchInv => SearchInv', UNCHANGED history PROVE FullInv'
    BY <2>a DEF FullInv, history
  <2>2. ASSUME UNCHANGED vars PROVE FullInv'
    BY <2>2 DEF vars, tableVars, history, FullInv, SearchInv, AllUsed, Made, Exists
  <2>3. ASSUME \/ \E c \in Conns, r \in Requests : Receive(c, r)
               \/ \E c \in Conns : Put(c) \/ Close(c)
        PROVE  FullInv'
    <3>1. ChannelsStay /\ UNCHANGED <<tableVars, pc, history>>
      BY <2>3, ConnectionStep, LifecycleAssumption
    <3>2. SearchInv => SearchInv'
      BY <3>1, SearchKept, LifecycleAssumption DEF ChannelsStay, tableVars
    <3> QED
      BY <2>a, <3>1, <3>2
  <2>4. ASSUME NEW i \in Insts, Tick(i) PROVE FullInv'
    <3>1. ASSUME Calm(i), (UNCHANGED full /\ (pc'[i] = "setFull" => FindFull(i))) \/ SetFull(i)
          PROVE  FullInv'
      <4>1. /\ UNCHANGED <<allChannels, nextChannelId, made, history>>
            /\ \A j \in Insts : ch'[j].id = ch[j].id
            /\ \A j \in Insts \ {i} : pc'[j] = pc[j]
        BY <3>1 DEF Calm, ChannelsStay
      <4>2. CASE UNCHANGED full /\ (pc'[i] = "setFull" => FindFull(i))
        <5>1. ASSUME SearchInv PROVE SearchInv'
          <6>1. pc'[GLOBAL] = "setFull" => pc[GLOBAL] = "setFull" \/ AllUsed
            <7>1. CASE i = GLOBAL
              BY <4>2, <5>1, <7>1, SearchTriesAll, LifecycleAssumption DEF FindFull
            <7>2. CASE i # GLOBAL
              BY <2>1, <4>1, <7>2
            <7> QED
              BY <7>1, <7>2
          <6> QED
            BY <4>1, <4>2, <5>1, <6>1, SearchKept, LifecycleAssumption
        <5> QED
          BY <2>a, <4>1, <5>1
      <4>3. CASE SetFull(i)
        <5>1. pc[i] = "setFull" /\ i = GLOBAL
          BY <4>3, OnlyGlobalIsFull, LifecycleAssumption DEF SetFull
        <5>2. SearchInv => SearchInv'
          BY <4>1, <5>1, SearchKept, LifecycleAssumption
        <5> QED
          BY <2>a, <4>1, <5>2
      <4> QED
        BY <3>1, <4>2, <4>3
    <3>6. CASE FindFull(i) \/ RemoveUnknown(i) \/ HandleRemove(i)
      <4>1. UNCHANGED full /\ (pc'[i] = "setFull" => FindFull(i))
        <5>1. pc \in [Insts -> PCs]
          BY DEF CoreInv, Types
        <5> QED
          BY <3>6, <5>1 DEF FindFull, RemoveUnknown, HandleRemove, Handled, Goto, tableVars
      <4>2. Calm(i)
        BY <2>1, <3>6, TakingIsCalm, LifecycleAssumption
      <4> QED
        BY <3>1, <4>1, <4>2
    <3>2. CASE CreateChannel(i) \/ StoreEntity(i)
      <4>1. UNCHANGED <<removedElsewhere, removedBy>>
        BY <3>2 DEF CreateChannel, StoreEntity, history
      <4>2. SearchInv => SearchInv'
        BY <2>1, <3>2, CreateKeepsSearch, LifecycleAssumption
      <4> QED
        BY <4>1, <4>2 DEF FullInv
    <3>3. CASE RemoveChannel(i)
      <4>1. /\ UNCHANGED <<tableVars, removedElsewhere>>
            /\ \A j \in Insts : ch'[j].id = ch[j].id
            /\ \A j \in Insts \ {i} : pc'[j] = pc[j]
            /\ \A j \in Insts \ {job[i].at} : removedBy'[j] = removedBy[j]
            /\ pc'[i] # "setFull"
            /\ removedBy'[job[i].at] # "no" \/ removedBy' = removedBy
        <5>1. pc[i] = "remove"
          BY <3>3, RemoveFacts, LifecycleAssumption
        <5> QED
          BY <3>3, <5>1, RemoveFacts, LifecycleAssumption
      <4>2. SearchInv => SearchInv'
        <5>1. pc'[GLOBAL] = "setFull" => pc[GLOBAL] = "setFull"
          BY <2>1, <4>1
        <5> QED
          BY <4>1, <5>1, SearchKept, LifecycleAssumption DEF tableVars
      <4>3. removedBy[GLOBAL] # "no" => removedBy'[GLOBAL] # "no"
        BY <2>1, <4>1
      <4> QED
        BY <4>1, <4>2, <4>3 DEF FullInv
    <3>4. CASE DeleteChannel(i)
      <4>1. (removedElsewhere => removedElsewhere') /\ removedBy' = removedBy
        <5>1. /\ removedElsewhere' = (removedElsewhere
                 \/ (ch[job[i].at].kind = "NORMAL" /\ i # GLOBAL))
              /\ removedBy' = removedBy
          BY <3>4, DeleteFacts, LifecycleAssumption
        <5> QED
          BY <5>1
      <4>2. SearchInv /\ removedBy[GLOBAL] = "no" /\ ~removedElsewhere' => SearchInv'
        BY <3>4, DeleteKeepsSearch, LifecycleAssumption
      <4> QED
        BY <4>1, <4>2 DEF FullInv
    <3>5. CASE DoneAsking(i)
      <4>1. /\ ChannelsStay /\ UNCHANGED <<tableVars, history>> /\ pc'[i] # "setFull"
            /\ \A j \in Insts \ {i} : pc'[j] = pc[j]
        BY <3>5, AskStep, LifecycleAssumption
      <4>2. SearchInv => SearchInv'
        <5>1. pc'[GLOBAL] = "setFull" => pc[GLOBAL] = "setFull"
          BY <2>1, <4>1
        <5> QED
          BY <4>1, <5>1, SearchKept, LifecycleAssumption DEF ChannelsStay, tableVars
      <4> QED
        BY <2>a, <4>1, <4>2
    <3> QED
      BY <2>1, <2>4, <3>1, <3>2, <3>3, <3>4, <3>5, <3>6, TickStep, LifecycleAssumption
  <2> QED
    BY <2>1, <2>2, <2>3, <2>4 DEF Next
<1>3. FullInv => FullFlagIsTrue
  BY DEF FullInv, SearchInv, AllUsed, FullFlagIsTrue
<1> QED
  BY <1>1, <1>2, <1>3, PTL DEF Spec

-----------------------------------------------------------------------------
(* Removals.                                                               *)

\* Excuses last: a removal that a connection asked for, one that was asked for twice in
\* a tick and one by an id that was used again stay what they are.
Excused ==
  \/ \E i \in Made : ch[i].removing > 2
  \/ SomeIdUsedAgain
  \/ \E i \in Insts : removedBy[i] = "request"

\* Channels stay, with their ids, and what was done to remove them stays done.
LEMMA ChannelsLast ==
  ASSUME LifecycleAssumption, CoreInv, CoreInv', Next
  PROVE  /\ Made \subseteq Made'
         /\ \A j \in Made : /\ ch'[j].id = ch[j].id /\ ch'[j].removing >= ch[j].removing
                            /\ removedBy[j] = "request" => removedBy'[j] = "request"
<1> DEFINE Lasts ==
      /\ Made \subseteq Made'
      /\ \A j \in Made : /\ ch'[j].id = ch[j].id /\ ch'[j].removing >= ch[j].removing
                         /\ removedBy[j] = "request" => removedBy'[j] = "request"
<1>0. Made \subseteq Insts /\ \A j \in Insts : ch[j].removing \in Nat
  BY DEF Made, CoreInv, Types, Channel
<1>a. ASSUME ChannelsStay, UNCHANGED <<made, history>> PROVE Lasts
  BY <1>0, <1>a DEF ChannelsStay, Made, Exists, history
<1>1. CASE \/ \E c \in Conns, r \in Requests : Receive(c, r)
           \/ \E c \in Conns : Put(c) \/ Close(c)
  <2>1. ChannelsStay /\ UNCHANGED <<made, history>>
    BY <1>1, ConnectionStep DEF tableVars
  <2> QED
    BY <1>a, <2>1
<1>2. ASSUME NEW i \in Insts, Tick(i) PROVE Lasts
  <2>1. CASE Calm(i)
    BY <1>a, <2>1 DEF Calm
  <2>2. CASE CreateChannel(i) \/ StoreEntity(i)
    <3>1. UNCHANGED removedBy
      BY <2>2 DEF CreateChannel, StoreEntity, history
    <3>2. /\ made \notin Made /\ Made' = Made \cup {made}
          /\ \A j \in Insts \ {made} : ch'[j].id = ch[j].id /\ ch'[j].removing = ch[j].removing
      BY <2>2, CreateFacts
    <3> QED
      BY <1>0, <3>1, <3>2
  <2>3. CASE RemoveChannel(i)
    <3> DEFINE t == job[i].at
    <3>1. /\ t \in Made /\ UNCHANGED made
          /\ \A j \in Insts : ch'[j].id = ch[j].id /\ ch'[j].removing >= ch[j].removing
          /\ \A j \in Insts \ {t} : removedBy'[j] = removedBy[j]
          /\ ~ch[t].closed \/ removedBy' = removedBy
      BY <2>3, RemoveFacts DEF tableVars
    <3>2. Made' = Made
      BY <3>1 DEF Made, Exists
    <3> HIDE DEF t
    <3>3. ~ch[t].closed => removedBy[t] = "no"
      BY <1>0, <3>1 DEF CoreInv, TickAt
    <3> QED
      BY <1>0, <3>1, <3>2, <3>3
  <2>4. CASE DeleteChannel(i)
    <3>1. UNCHANGED <<made, ch, removedBy>>
      BY <2>4, DeleteFacts
    <3> QED
      BY <1>0, <3>1 DEF Made, Exists
  <2>5. CASE DoneAsking(i)
    <3>1. ChannelsStay /\ UNCHANGED <<made, history>>
      BY <2>5, AskStep DEF tableVars
    <3> QED
      BY <1>a, <3>1
  <2> QED
    BY <1>2, <2>1, <2>2, <2>3, <2>4, <2>5, TickStep
<1> QED
  BY <1>1, <1>2 DEF Next

\* An excuse is one for good.
LEMMA ExcusesLast ==
  ASSUME LifecycleAssumption, CoreInv, CoreInv', Next, Excused
  PROVE  Excused'
<1>0. /\ Made \subseteq Made' /\ Made \subseteq Insts
      /\ \A j \in Made : /\ ch'[j].id = ch[j].id /\ ch'[j].removing >= ch[j].removing
                         /\ removedBy[j] = "request" => removedBy'[j] = "request"
  BY ChannelsLast DEF Made
<1>1. ASSUME NEW i \in Made, ch[i].removing > 2 PROVE Excused'
  <2>1. ch[i].removing \in Nat /\ ch'[i].removing \in Nat
    BY <1>0 DEF CoreInv, Types, Channel
  <2>2. ch'[i].removing > 2
    BY <1>0, <1>1, <2>1
  <2> QED
    BY <1>0, <2>2 DEF Excused
<1>2. ASSUME NEW i \in Insts, NEW j \in Insts, i # j, Exists(i), Exists(j), ch[i].id = ch[j].id
      PROVE  Excused'
  <2>1. i \in Made' /\ j \in Made' /\ ch'[i].id = ch'[j].id
    BY <1>0, <1>2 DEF Made
  <2> QED
    BY <1>2, <2>1 DEF Excused, SomeIdUsedAgain, Made
<1>3. ASSUME NEW i \in Insts, removedBy[i] = "request" PROVE Excused'
  <2>1. i \in Made
    BY <1>3 DEF CoreInv, TickAt, Made
  <2> QED
    BY <1>0, <1>3, <2>1 DEF Excused
<1> QED
  BY <1>1, <1>2, <1>3 DEF Excused, SomeIdUsedAgain

\* Only GLOBAL's queue holds messages that are not from a connection, each with the id of
\* a channel that there is or was; so only GLOBAL handles one.
UsedIds == {ch[j].id : j \in Made}
MayBeQueued(j, m, used) == (j # GLOBAL => m \in Requests) /\ (m.conn = Nobody => m.id \in used)
QueueInv ==
  /\ \A j \in Insts : \A k \in DOMAIN ch[j].queue : MayBeQueued(j, ch[j].queue[k], UsedIds)
  /\ \A i \in Insts : pc[i] = "remove" /\ job[i].msg.conn = Nobody => i = GLOBAL

\* Ids stay used.
LEMMA IdsStayUsed ==
  ASSUME LifecycleAssumption, CoreInv, CoreInv', Next
  PROVE  UsedIds \subseteq UsedIds'
BY ChannelsLast DEF UsedIds

\* What is in a queue after a message has been taken from it or put into it.
LEMMA TailMembers ==
  ASSUME NEW S, NEW q \in Seq(S), q # <<>>
  PROVE  \A k \in DOMAIN Tail(q) : k + 1 \in DOMAIN q /\ Tail(q)[k] = q[k + 1] /\ k \in Nat
         /\ k >= 1
OBVIOUS
\* The first message of a queue is at its first position.
LEMMA HeadMember ==
  ASSUME NEW S, NEW q \in Seq(S), q # <<>>
  PROVE  1 \in DOMAIN q /\ Head(q) = q[1]
OBVIOUS
\* A message that is put into a queue comes last.
LEMMA AppendMembers ==
  ASSUME NEW S, NEW q \in Seq(S), NEW m \in S
  PROVE  /\ \A k \in DOMAIN Append(q, m) :
              \/ k \in DOMAIN q /\ Append(q, m)[k] = q[k]
              \/ k = Len(q) + 1 /\ Append(q, m)[k] = m
         /\ DOMAIN q \subseteq Nat \ {0} /\ Len(q) + 1 \in Nat \ {0} /\ Len(q) + 1 \notin DOMAIN q
OBVIOUS

\* A queue that only loses its first message, or gets one that may be there.
LEMMA QueueStep ==
  ASSUME NEW j, NEW q \in Seq(Messages), NEW r, NEW used, NEW more, used \subseteq more,
         \A k \in DOMAIN q : MayBeQueued(j, q[k], used),
         \/ r = q
         \/ r = <<>>
         \/ q # <<>> /\ r = Tail(q)
         \/ \E m \in Messages : MayBeQueued(j, m, more) /\ r = Append(q, m)
  PROVE  \A k \in DOMAIN r : MayBeQueued(j, r[k], more)
<1>1. \A k \in DOMAIN q : MayBeQueued(j, q[k], more)
  BY DEF MayBeQueued
<1>2. CASE q # <<>> /\ r = Tail(q)
  BY <1>1, <1>2, TailMembers
<1>3. ASSUME NEW m \in Messages, MayBeQueued(j, m, more), r = Append(q, m)
      PROVE  \A k \in DOMAIN r : MayBeQueued(j, r[k], more)
  <2> SUFFICES ASSUME NEW k \in DOMAIN r PROVE MayBeQueued(j, r[k], more)
    OBVIOUS
  <2>1. (k \in DOMAIN q /\ r[k] = q[k]) \/ r[k] = m
    BY <1>3, AppendMembers
  <2> QED
    BY <1>1, <1>3, <2>1
<1>4. CASE r = <<>>
  BY <1>4
<1> QED
  BY <1>1, <1>2, <1>3, <1>4

\* The invariant of the queues is inductive.
LEMMA QueueInductive ==
  ASSUME LifecycleAssumption, CoreInv, CoreInv', Next, QueueInv
  PROVE  QueueInv'
<1> DEFINE Kept(j) ==
      \/ ch'[j].queue = ch[j].queue
      \/ ch'[j].queue = <<>>
      \/ ch[j].queue # <<>> /\ ch'[j].queue = Tail(ch[j].queue)
      \/ \E m \in Messages : MayBeQueued(j, m, UsedIds') /\ ch'[j].queue = Append(ch[j].queue, m)
    Removes(i) == pc'[i] = "remove" /\ job'[i].msg.conn = Nobody => i = GLOBAL
<1>0. \A i \in Insts : pc[i] = "remove" /\ job[i].msg.conn = Nobody => i = GLOBAL
  BY DEF QueueInv
<1>a. ASSUME \A j \in Insts : Kept(j) /\ Removes(j) PROVE QueueInv'
  <2> SUFFICES ASSUME NEW j \in Insts
               PROVE  \A k \in DOMAIN ch'[j].queue : MayBeQueued(j, ch'[j].queue[k], UsedIds')
    BY <1>a DEF QueueInv
  <2> DEFINE q == ch[j].queue
             r == ch'[j].queue
  <2>1. q \in Seq(Messages) /\ UsedIds \subseteq UsedIds'
    BY GoroutineFacts, IdsStayUsed
  <2>2. \A k \in DOMAIN q : MayBeQueued(j, q[k], UsedIds)
    BY DEF QueueInv
  <2>3. \/ r = q
        \/ r = <<>>
        \/ q # <<>> /\ r = Tail(q)
        \/ \E m \in Messages : MayBeQueued(j, m, UsedIds') /\ r = Append(q, m)
    BY <1>a
  <2> HIDE DEF q, r
  <2>4. \A k \in DOMAIN r : MayBeQueued(j, r[k], UsedIds')
    BY <2>1, <2>2, <2>3, QueueStep
  <2> QED
    BY <2>4 DEF r
<1>1. ASSUME \/ \E c \in Conns, r \in Requests : Receive(c, r)
             \/ \E c \in Conns : Put(c) \/ Close(c)
      PROVE  QueueInv'
  <2>1. /\ UNCHANGED <<pc, job>>
        /\ \/ UNCHANGED ch
           \/ \E t \in Insts, m \in Requests :
                /\ ch'[t].queue = Append(ch[t].queue, m)
                /\ \A j \in Insts \ {t} : ch'[j].queue = ch[j].queue
    BY <1>1, ConnectionStep
  <2>2. \A m \in Requests : m \in Messages /\ m.conn # Nobody
    BY MessageTypes DEF Messages
  <2>3. \A j \in Insts : Kept(j)
    BY <2>1, <2>2 DEF MayBeQueued
  <2> QED
    BY <1>0, <1>a, <2>1, <2>3
<1>2. ASSUME NEW i \in Insts, Tick(i) PROVE QueueInv'
  <2>1. ASSUME Calm(i), pc'[i] = "remove" => HandleRemove(i) PROVE QueueInv'
    <3>1. \A j \in Insts : Kept(j)
      BY <2>1 DEF Calm
    <3>2. ASSUME NEW j \in Insts PROVE Removes(j)
      <4>1. CASE j # i
        BY <1>0, <2>1, <4>1 DEF Calm
      <4>2. CASE j = i /\ HandleRemove(i) /\ pc'[i] = "remove"
        <5> DEFINE m == Head(ch[i].queue)
        <5>1. ch[i].queue \in Seq(Messages) /\ ch[i].queue # <<>> /\ pc \in [Insts -> PCs]
              /\ job \in [Insts -> Job]
          BY <4>2, GoroutineFacts DEF HandleRemove, Takes
        <5>2. m = ch[i].queue[1] /\ 1 \in DOMAIN ch[i].queue
          BY <5>1, HeadMember
        <5>3. MayBeQueued(i, m, UsedIds)
          BY <5>2 DEF QueueInv
        <5>4. job'[i].msg = m
          <6>1. ~Handled(i)
            BY <4>2, <5>1 DEF Handled, Goto
          <6>2. job' = [job EXCEPT ![i] = [msg |-> m, at |-> allChannels[m.id]]]
            BY <4>2, <6>1 DEF HandleRemove
          <6> QED
            BY <5>1, <6>2
        <5>5. m.conn = Nobody => m \notin Requests
          BY MessageTypes
        <5> QED
          BY <4>2, <5>3, <5>4, <5>5 DEF MayBeQueued
      <4> QED
        BY <2>1, <4>1, <4>2
    <3> QED
      BY <1>a, <3>1, <3>2
  <2>2. ASSUME FindFull(i) \/ SetFull(i) \/ RemoveUnknown(i) PROVE pc'[i] # "remove"
    <3>1. pc \in [Insts -> PCs]
      BY GoroutineFacts
    <3> QED
      BY <2>2, <3>1 DEF FindFull, SetFull, RemoveUnknown, Handled, Goto
  <2>3. CASE CreateChannel(i) \/ StoreEntity(i)
    <3>1. /\ ch'[made].queue = <<>> /\ pc'[i] = "subTest" /\ pc'[made] = "top"
          /\ \A j \in Insts \ {i, made} : pc'[j] = pc[j]
          /\ \A j \in Insts \ {i} : job'[j] = job[j]
          /\ \A j \in Insts \ {i, made} : ch'[j].queue = ch[j].queue
          /\ \/ ch'[i].queue = ch[i].queue
             \/ ch[i].queue # <<>> /\ ch'[i].queue = Tail(ch[i].queue)
      BY <2>3, CreateFacts
    <3>2. \A j \in Insts : Kept(j)
      BY <3>1
    <3>3. \A j \in Insts : Removes(j)
      BY <1>0, <3>1
    <3> QED
      BY <1>a, <3>2, <3>3
  <2>4. CASE RemoveChannel(i)
    <3>1. /\ UNCHANGED job /\ (\A j \in Insts : ch'[j].queue = ch[j].queue)
          /\ \A j \in Insts \ {i} : pc'[j] = pc[j]
          /\ pc'[i] = "delete" \/ pc' = pc
      BY <2>4, RemoveFacts
    <3>2. \A j \in Insts : Kept(j)
      BY <3>1
    <3>3. \A j \in Insts : Removes(j)
      BY <1>0, <3>1
    <3> QED
      BY <1>a, <3>2, <3>3
  <2>5. CASE DeleteChannel(i)
    <3>1. /\ UNCHANGED ch /\ pc'[i] = "messages"
          /\ \A j \in Insts \ {i} : pc'[j] = pc[j] /\ job'[j] = job[j]
      BY <2>5, DeleteFacts
    <3>2. \A j \in Insts : Kept(j)
      BY <3>1
    <3>3. \A j \in Insts : Removes(j)
      BY <1>0, <3>1
    <3> QED
      BY <1>a, <3>2, <3>3
  <2>6. CASE DoneAsking(i)
    <3>1. /\ UNCHANGED <<job, made>> /\ pc[i] \in {"ask", "send"}
             /\ pc'[i] \in {"top", "recover"} /\ ChannelsStay
          /\ \A j \in Insts \ {i} : pc'[j] = pc[j]
          /\ \/ UNCHANGED ch
             \/ /\ ch'[GLOBAL].queue = Append(ch[GLOBAL].queue, RemovalOf(i))
                /\ \A j \in Insts \ {GLOBAL} : ch'[j].queue = ch[j].queue
      BY <2>6, AskStep DEF tableVars
    <3>2. ch[i] \in Channel /\ i \in Made
      BY <3>1, GoroutineFacts
    <3>3. RemovalOf(i) \in Messages /\ RemovalOf(i).id = ch[i].id
      BY <3>2, MessageTypes DEF RemovalOf, NoMessage, Channel
    <3>4. ch[i].id \in UsedIds'
      BY <3>2, IdsStayUsed DEF UsedIds
    <3>5. MayBeQueued(GLOBAL, RemovalOf(i), UsedIds')
      BY <3>3, <3>4 DEF MayBeQueued
    <3>6. \A j \in Insts : Kept(j)
      BY <3>1, <3>3, <3>5
    <3>7. \A j \in Insts : Removes(j)
      BY <1>0, <3>1
    <3> QED
      BY <1>a, <3>6, <3>7
  <2> QED
    BY <1>2, <2>1, <2>2, <2>3, <2>4, <2>5, <2>6, TickStep
<1> QED
  BY <1>1, <1>2 DEF Next

\* What is left of the requests for the removal of j: a message at position k of GLOBAL's
\* queue, the one GLOBAL handles (0), and that j has been closed (-1).
Handles(j) == pc[GLOBAL] = "remove" /\ job[GLOBAL].msg.conn = Nobody /\ job[GLOBAL].at = j
Waits(j, k) ==
  /\ k \in DOMAIN ch[GLOBAL].queue
  /\ ch[GLOBAL].queue[k].conn = Nobody /\ ch[GLOBAL].queue[k].id = ch[j].id
Traces(j) == {k \in Int : Waits(j, k) \/ (k = 0 /\ Handles(j)) \/ (k = -1 /\ ch[j].closed)}

\* There is none before the removal is asked for, and one when it was asked for once; a
\* channel that has not been closed is found under its id.
AskedOnce(j) ==
  /\ Asked(j) <= 0 => Traces(j) = {}
  /\ Asked(j) <= 1 => \A k, l \in Traces(j) : k = l
InTable(j) == ~ch[j].closed => allChannels[ch[j].id] = j
RemovalInv == Excused \/ \A j \in Made : InTable(j) /\ AskedOnce(j)

\* Each trace was one before.
LEMMA TracesMove ==
  ASSUME NEW j, AskedOnce(j), Asked(j)' = Asked(j), NEW f,
         \A k \in Traces(j)' : f[k] \in Traces(j),
         \A k, l \in Traces(j)' : f[k] = f[l] => k = l
  PROVE  AskedOnce(j)'
BY DEF AskedOnce

\* The positions of GLOBAL's queue.
LEMMA Positions ==
  ASSUME LifecycleAssumption, Types
  PROVE  /\ ch[GLOBAL].queue \in Seq(Messages)
         /\ \A j, k : k \in Traces(j) <=>
              k \in Int /\ (Waits(j, k) \/ (k = 0 /\ Handles(j)) \/ (k = -1 /\ ch[j].closed))
         /\ \A j, k : Waits(j, k) => k \in Nat /\ k >= 1
<1>1. ch[GLOBAL].queue \in Seq(Messages)
  BY Constants DEF Types, Channel
<1>2. \A k \in DOMAIN ch[GLOBAL].queue : k \in Nat /\ k >= 1
  BY <1>1
<1> QED
  BY <1>1, <1>2 DEF Traces, Waits

\* A step after which only the traces are left that g gives for each of those there were:
\* one for what waits, one for what is handled, one for what is closed.
LEMMA TracesFollow ==
  ASSUME LifecycleAssumption, Types, Types', NEW j, AskedOnce(j), Asked(j)' = Asked(j),
         NEW d \in {0, 1}, NEW h \in {0, 1}, NEW c \in {-1, 0},
         h <= d, c = 0 => ~Handles(j)',
         \A k \in Int : Waits(j, k)' => Waits(j, k + d),
         Handles(j)' => h \in Traces(j), ch'[j].closed => c \in Traces(j)
  PROVE  AskedOnce(j)'
<1> DEFINE f == [k \in Int |-> IF k >= 1 THEN k + d ELSE IF k = 0 THEN h ELSE c]
<1>1. \A k \in Traces(j)' : k \in Int
      /\ (Waits(j, k)' \/ (k = 0 /\ Handles(j)') \/ (k = -1 /\ ch'[j].closed))
  BY DEF Traces
<1>2. \A k : Waits(j, k)' => k \in Nat /\ k >= 1
  <2>1. ch'[GLOBAL].queue \in Seq(Messages)
    BY Constants DEF Types, Channel
  <2>2. \A k \in DOMAIN ch'[GLOBAL].queue : k \in Nat /\ k >= 1
    BY <2>1
  <2> QED
    BY <2>2 DEF Waits
<1>3. \A k \in Int : Waits(j, k) => k \in Traces(j)
  BY DEF Traces
<1>4. ASSUME NEW k \in Traces(j)' PROVE f[k] \in Traces(j)
  <2>1. CASE Waits(j, k)'
    <3>1. k \in Int /\ k >= 1 /\ k + d \in Int /\ f[k] = k + d
      BY <1>2, <2>1
    <3> QED
      BY <1>3, <2>1, <3>1
  <2>2. CASE k = 0 /\ Handles(j)'
    BY <2>2
  <2>3. CASE k = -1 /\ ch'[j].closed
    BY <2>3
  <2> QED
    BY <1>1, <2>1, <2>2, <2>3
<1>5. ASSUME NEW k \in Traces(j)', NEW l \in Traces(j)', f[k] = f[l] PROVE k = l
  <2>1. /\ (k \in Int /\ k >= 1) \/ (k = 0 /\ Handles(j)') \/ k = -1
        /\ (l \in Int /\ l >= 1) \/ (l = 0 /\ Handles(j)') \/ l = -1
    BY <1>1, <1>2
  <2>2. /\ k \in Int /\ l \in Int
        /\ f[k] = IF k >= 1 THEN k + d ELSE IF k = 0 THEN h ELSE c
        /\ f[l] = IF l >= 1 THEN l + d ELSE IF l = 0 THEN h ELSE c
    BY <1>1
  <2>3. k = 0 \/ l = 0 => c = -1
    BY <2>1
  <2>4. (k >= 1 \/ k = 0 \/ k = -1) /\ (l >= 1 \/ l = 0 \/ l = -1)
    BY <2>1
  <2>5. f[k] = f[l] /\ d \in Int /\ h \in Int /\ c \in {-1, 0} /\ h >= 0 /\ h <= d
    BY <1>5
  <2> HIDE DEF f
  <2>6. CASE k >= 1
    BY <2>2, <2>3, <2>4, <2>5, <2>6
  <2>7. CASE k = 0
    BY <2>2, <2>3, <2>4, <2>5, <2>7
  <2>8. CASE k = -1
    BY <2>2, <2>3, <2>4, <2>5, <2>8
  <2> QED
    BY <2>4, <2>6, <2>7, <2>8
<1> HIDE DEF f
<1> QED
  BY <1>4, <1>5, TracesMove

\* A step that handles no request for the removal of j, and adds none.
LEMMA QuietTraces ==
  ASSUME LifecycleAssumption, CoreInv, CoreInv', NEW j, AskedOnce(j), Asked(j)' = Asked(j),
         ch'[j].closed => ch[j].closed, Handles(j)' => Handles(j),
         NEW d \in {0, 1}, \A k \in Int : Waits(j, k)' => Waits(j, k + d)
  PROVE  AskedOnce(j)'
<1>1. Types /\ Types'
  BY DEF CoreInv
<1>2. (Handles(j)' => 0 \in Traces(j)) /\ (ch'[j].closed => -1 \in Traces(j))
  BY DEF Traces
<1>3. 0 \in {0, 1} /\ -1 \in {-1, 0} /\ 0 <= d /\ -1 # 0
  OBVIOUS
<1> QED
  BY <1>1, <1>2, <1>3, TracesFollow

\* What waits after a message was taken from GLOBAL's queue, or one of a connection put
\* into a queue.
LEMMA StillWaits ==
  ASSUME LifecycleAssumption, Types, NEW j, ch'[j].id = ch[j].id,
         \/ ch'[GLOBAL].queue = ch[GLOBAL].queue
         \/ ch[GLOBAL].queue # <<>> /\ ch'[GLOBAL].queue = Tail(ch[GLOBAL].queue)
         \/ \E m \in Requests : ch'[GLOBAL].queue = Append(ch[GLOBAL].queue, m)
  PROVE  \E d \in {0, 1} : \A k \in Int : Waits(j, k)' => Waits(j, k + d)
<1> DEFINE q == ch[GLOBAL].queue
           r == ch'[GLOBAL].queue
           Same(k, l) == k \in DOMAIN r /\ r[k].conn = Nobody => l \in DOMAIN q /\ q[l] = r[k]
<1>1. q \in Seq(Messages) /\ \A m \in Requests : m \in Messages /\ m.conn # Nobody
  BY Positions, MessageTypes DEF Messages
<1>a. ASSUME NEW d \in {0, 1}, \A k \in Int : Same(k, k + d)
      PROVE  \A k \in Int : Waits(j, k)' => Waits(j, k + d)
  BY <1>a DEF Waits
<1>2. CASE r = q
  <2>1. \A k \in Int : Same(k, k + 0)
    BY <1>2
  <2>2. \A k \in Int : Waits(j, k)' => Waits(j, k + 0)
    BY <1>a, <2>1
  <2> QED
    BY <2>2
<1>3. CASE q # <<>> /\ r = Tail(q)
  <2>1. \A k \in Int : Same(k, k + 1)
    BY <1>1, <1>3, TailMembers
  <2>2. \A k \in Int : Waits(j, k)' => Waits(j, k + 1)
    BY <1>a, <2>1
  <2> QED
    BY <2>2
<1>4. ASSUME NEW m \in Requests, r = Append(q, m)
      PROVE  \E d \in {0, 1} : \A k \in Int : Waits(j, k)' => Waits(j, k + d)
  <2>0. m \in Messages /\ m.conn # Nobody
    BY <1>1
  <2>1. ASSUME NEW k \in Int PROVE Same(k, k + 0)
    <3>1. k \in DOMAIN r => (k \in DOMAIN q /\ r[k] = q[k]) \/ r[k] = m
      BY <1>1, <1>4, <2>0, AppendMembers
    <3>2. k + 0 = k
      OBVIOUS
    <3> QED
      BY <2>0, <3>1, <3>2
  <2>2. \A k \in Int : Waits(j, k)' => Waits(j, k + 0)
    BY <1>a, <2>1
  <2> QED
    BY <2>2
<1> QED
  BY <1>2, <1>3, <1>4

\* A step that neither closes j nor handles the request for its removal.
LEMMA QuietRemoval ==
  ASSUME LifecycleAssumption, CoreInv, CoreInv', NEW j \in Insts, InTable(j), AskedOnce(j),
         ch'[j].id = ch[j].id, ch'[j].closed = ch[j].closed, Asked(j)' = Asked(j),
         ~ch[j].closed => allChannels'[ch[j].id] = allChannels[ch[j].id], Handles(j)' => Handles(j),
         \/ ch'[GLOBAL].queue = ch[GLOBAL].queue
         \/ ch[GLOBAL].queue # <<>> /\ ch'[GLOBAL].queue = Tail(ch[GLOBAL].queue)
         \/ \E m \in Requests : ch'[GLOBAL].queue = Append(ch[GLOBAL].queue, m)
  PROVE  InTable(j)' /\ AskedOnce(j)'
<1>1. InTable(j)'
  BY DEF InTable
<1>2. Types
  BY DEF CoreInv
<1>3. PICK d \in {0, 1} : \A k \in Int : Waits(j, k)' => Waits(j, k + d)
  BY <1>2, StillWaits
<1>4. ch'[j].closed => ch[j].closed
  OBVIOUS
<1> QED
  BY <1>1, <1>3, <1>4, QuietTraces

\* GLOBAL takes a message: the request for the removal of j that waited first is handled.
LEMMA HandlingRemoval ==
  ASSUME LifecycleAssumption, CoreInv, CoreInv', NEW j \in Insts, InTable(j), AskedOnce(j),
         Calm(GLOBAL), HandleRemove(GLOBAL)
  PROVE  InTable(j)' /\ AskedOnce(j)'
<1> DEFINE m == Head(ch[GLOBAL].queue)
           t == allChannels[m.id]
<1>0. /\ GLOBAL \in Insts /\ Types /\ Types'
  BY Constants DEF CoreInv
<1>1. /\ ch'[j].id = ch[j].id /\ ch'[j].closed = ch[j].closed /\ Asked(j)' = Asked(j)
      /\ allChannels' = allChannels
  BY <1>0 DEF Calm, ChannelsStay
<1>2. InTable(j)'
  BY <1>1 DEF InTable
<1>3. /\ Takes(GLOBAL, "remove") /\ t # Nobody /\ ch' = Taken(GLOBAL)
      /\ \/ Handled(GLOBAL)
         \/ job' = [job EXCEPT ![GLOBAL] = [msg |-> m, at |-> t]] /\ Goto(GLOBAL, "remove")
  BY DEF HandleRemove
<1>4. ch[GLOBAL].queue # <<>> /\ ch[GLOBAL] \in Channel /\ ch[GLOBAL].queue \in Seq(Messages)
  BY <1>0, <1>3, GoroutineFacts DEF Takes
<1>5. ch'[GLOBAL].queue = Tail(ch[GLOBAL].queue)
  <2>1. Taken(GLOBAL)[GLOBAL] = [ch[GLOBAL] EXCEPT !.queue = Tail(@)]
    BY <1>0, <1>3, TakesMessage
  <2> QED
    BY <1>3, <1>4, <2>1 DEF Channel
<1>6. \A k \in Int : Waits(j, k)' => Waits(j, k + 1)
  BY <1>1, <1>4, <1>5, TailMembers DEF Waits
<1>7. Handles(j)' => 1 \in Traces(j)
  <2> SUFFICES ASSUME Handles(j)' PROVE 1 \in Traces(j)
    OBVIOUS
  <2>1. pc \in [Insts -> PCs] /\ job \in [Insts -> Job]
    BY <1>0 DEF Types
  <2>2. pc'[GLOBAL] = "remove" /\ job'[GLOBAL].msg.conn = Nobody /\ job'[GLOBAL].at = j
    BY DEF Handles
  <2>3. ~Handled(GLOBAL)
    BY <1>0, <2>1, <2>2 DEF Handled, Goto
  <2>4. job'[GLOBAL] = [msg |-> m, at |-> t]
    BY <1>0, <1>3, <2>1, <2>3
  <2>5. t = j /\ m.conn = Nobody
    BY <2>2, <2>4
  <2>6. m \in Messages /\ m = ch[GLOBAL].queue[1] /\ 1 \in DOMAIN ch[GLOBAL].queue
    <3>1. m \in Messages
      BY <1>0, <1>3, TakesMessage
    <3> QED
      BY <1>4, <3>1, HeadMember
  <2>7. m.id \in Ids
    BY <2>6, MessageTypes
  <2>8. ch[t].id = m.id
    BY <1>3, <2>7 DEF CoreInv, TableInv
  <2>9. Waits(j, 1)
    BY <2>5, <2>6, <2>8 DEF Waits
  <2> QED
    BY <2>9 DEF Traces
<1>8. ch'[j].closed => -1 \in Traces(j)
  BY <1>1 DEF Traces
<1>9. 1 \in {0, 1} /\ -1 \in {-1, 0} /\ 1 <= 1 /\ -1 # 0
  OBVIOUS
<1>10. AskedOnce(j)'
  BY <1>0, <1>1, <1>6, <1>7, <1>8, <1>9, TracesFollow
<1> QED
  BY <1>2, <1>10

\* The internal request for the removal of a channel closes it.
LEMMA ClosingRemoval ==
  ASSUME LifecycleAssumption, CoreInv, CoreInv', NEW i \in Insts, RemoveChannel(i), NEW j \in Insts,
         InTable(j), AskedOnce(j), job[i].msg.conn = Nobody => i = GLOBAL,
         removedBy'[job[i].at] # "request"
  PROVE  InTable(j)' /\ AskedOnce(j)'
<1> DEFINE t == job[i].at
<1>1. /\ pc[i] = "remove" /\ t \in Made
      /\ UNCHANGED <<tableVars, job>>
      /\ \A k \in Insts : ch'[k].id = ch[k].id /\ ch'[k].queue = ch[k].queue
         /\ Marked(k)' = Marked(k)
      /\ \A k \in Insts \ {i} : pc'[k] = pc[k]
      /\ \A k \in Insts \ {t} : ch'[k].closed = ch[k].closed
      /\ \/ ch[t].closed /\ UNCHANGED <<ch, pc>>
         \/ /\ ~ch[t].closed /\ pc'[i] = "delete" /\ ch'[t].closed
            /\ removedBy'[t] = IF job[i].msg.conn # Nobody THEN "request" ELSE "internal"
  BY RemoveFacts
<1>2. Types /\ Types' /\ GLOBAL \in Insts
  BY Constants DEF CoreInv
<1>3. Asked(j)' = Asked(j)
  BY <1>1 DEF Asked
<1>4. \A k \in Int : Waits(j, k)' => Waits(j, k + 0)
  BY <1>1, <1>2 DEF Waits
<1>5. CASE ch[t].closed /\ UNCHANGED <<ch, pc>>
  <2>1. InTable(j)' /\ ch'[j].closed = ch[j].closed /\ (Handles(j)' => Handles(j))
    BY <1>1, <1>5 DEF InTable, Handles, tableVars
  <2>2. ch'[j].closed => ch[j].closed
    BY <2>1
  <2> QED
    BY <1>3, <1>4, <2>1, <2>2, QuietTraces
<1>6. CASE /\ ~ch[t].closed /\ pc'[i] = "delete" /\ ch'[t].closed
           /\ removedBy'[t] = IF job[i].msg.conn # Nobody THEN "request" ELSE "internal"
  <2>1. i = GLOBAL /\ job[i].msg.conn = Nobody
    BY <1>6
  <2>2. ~Handles(j)'
    BY <1>6, <2>1 DEF Handles
  <2>3. CASE j = t
    <3>1. InTable(j)'
      BY <1>6, <2>3 DEF InTable
    <3>2. 0 \in Traces(j)
      BY <1>1, <2>1, <2>3 DEF Traces, Handles
    <3>3. 0 \in {0, 1} /\ 0 \in {-1, 0} /\ 0 <= 0
      OBVIOUS
    <3>4. AskedOnce(j)'
      BY <1>2, <1>3, <1>4, <2>2, <3>2, <3>3, TracesFollow
    <3> QED
      BY <3>1, <3>4
  <2>4. CASE j # t
    <3>1. ch'[j].closed = ch[j].closed
      BY <1>1, <2>4
    <3>2. InTable(j)' /\ (ch'[j].closed => ch[j].closed)
      BY <1>1, <3>1 DEF InTable, tableVars
    <3> QED
      BY <1>3, <1>4, <2>2, <3>2, QuietTraces
  <2> QED
    BY <2>3, <2>4
<1> QED
  BY <1>1, <1>5, <1>6

\* A removal is asked for: the first request of those there may be.
LEMMA AskingRemoval ==
  ASSUME LifecycleAssumption, CoreInv, CoreInv', NEW i \in Insts, DoneAsking(i), NEW j \in Insts,
         InTable(j), AskedOnce(j), ch[i].id = ch[j].id => i = j
  PROVE  InTable(j)' /\ AskedOnce(j)'
<1>1. /\ ChannelsStay /\ UNCHANGED <<tableVars, job>>
      /\ \A k \in Insts \ {i} : pc'[k] = pc[k] /\ Asked(k)' = Asked(k)
      /\ pc[i] \in {"ask", "send"} /\ pc'[i] \in {"top", "recover"}
      /\ Asked(i) \in Int /\ Asked(i)' = Asked(i) + 1 /\ Asked(i) \in 0 .. 1
      /\ \/ UNCHANGED ch
         \/ /\ ch'[GLOBAL].queue = Append(ch[GLOBAL].queue, RemovalOf(i))
            /\ \A k \in Insts \ {GLOBAL} : ch'[k].queue = ch[k].queue
  BY AskStep
<1>2. Types /\ Types' /\ GLOBAL \in Insts
  BY Constants DEF CoreInv
<1>3. ch'[j].id = ch[j].id /\ ch'[j].closed = ch[j].closed /\ InTable(j)'
  BY <1>1 DEF ChannelsStay, InTable, tableVars
<1>4. Handles(j)' => Handles(j)
  BY <1>1, <1>2 DEF Handles
<1> DEFINE q == ch[GLOBAL].queue
           r == ch'[GLOBAL].queue
           m == RemovalOf(i)
<1>5. q \in Seq(Messages) /\ m \in Messages /\ m.id = ch[i].id
  <2>1. ch[i] \in Channel
    BY <1>2 DEF Types
  <2> QED
    BY <1>2, <2>1, Positions, MessageTypes DEF RemovalOf, NoMessage, Channel
<1>6. \A k \in Int : Waits(j, k)' => Waits(j, k) \/ (i = j /\ k = Len(q) + 1)
  <2> SUFFICES ASSUME NEW k \in Int, Waits(j, k)', ~Waits(j, k) PROVE i = j /\ k = Len(q) + 1
    OBVIOUS
  <2>1. k \in DOMAIN r /\ r[k].conn = Nobody /\ r[k].id = ch[j].id
    BY <1>3 DEF Waits
  <2>2. ~(k \in DOMAIN q /\ r[k] = q[k])
    BY <2>1 DEF Waits
  <2>3. r = Append(q, m)
    BY <1>1, <2>1, <2>2
  <2> HIDE DEF m, q, r
  <2>4. k = Len(q) + 1 /\ r[k] = m
    BY <1>5, <2>1, <2>2, <2>3, AppendMembers
  <2> QED
    BY <1>5, <2>1, <2>4
<1>7. CASE j # i
  <2>1. \A k \in Int : Waits(j, k)' => Waits(j, k + 0)
    BY <1>6, <1>7
  <2>2. Asked(j)' = Asked(j) /\ (ch'[j].closed => ch[j].closed)
    BY <1>1, <1>3, <1>7
  <2> QED
    BY <1>3, <1>4, <2>1, <2>2, QuietTraces
<1>8. CASE j = i
  <2>1. \A k \in Int : Waits(j, k) => k \in Traces(j)
    BY DEF Traces
  <2>2. ASSUME NEW k \in Traces(j)' PROVE k \in Traces(j) \/ k = Len(q) + 1
    BY <1>3, <1>4, <1>6, <2>1 DEF Traces
  <2>3. Asked(j)' <= 1 => Traces(j) = {}
    <3>1. Asked(j)' <= 1 => Asked(j) <= 0
      BY <1>1, <1>8
    <3> QED
      BY <3>1 DEF AskedOnce
  <2>4. Asked(j)' > 0 /\ Asked(j)' \in Int
    BY <1>1, <1>8
  <2>5. AskedOnce(j)'
    BY <2>2, <2>3, <2>4 DEF AskedOnce
  <2> QED
    BY <1>3, <2>5
<1> QED
  BY <1>7, <1>8

\* A quiet step of a goroutine, or one that handles a request for a removal.
LEMMA CalmRemoval ==
  ASSUME LifecycleAssumption, CoreInv, CoreInv', NEW i \in Insts, Calm(i),
         \/ pc'[i] # "remove"
         \/ FindFull(i) \/ SetFull(i) \/ RemoveUnknown(i) \/ HandleRemove(i),
         NEW j \in Insts, InTable(j), AskedOnce(j)
  PROVE  InTable(j)' /\ AskedOnce(j)'
<1>1. CASE i = GLOBAL /\ HandleRemove(i)
  BY <1>1, HandlingRemoval
<1>2. CASE ~(i = GLOBAL /\ HandleRemove(i))
  <2>1. /\ ch'[j].id = ch[j].id /\ ch'[j].closed = ch[j].closed /\ Asked(j)' = Asked(j)
        /\ allChannels'[ch[j].id] = allChannels[ch[j].id]
    BY DEF Calm, ChannelsStay
  <2>2. \/ ch'[GLOBAL].queue = ch[GLOBAL].queue
        \/ ch[GLOBAL].queue # <<>> /\ ch'[GLOBAL].queue = Tail(ch[GLOBAL].queue)
    BY Constants DEF Calm
  <2>3. Handles(j)' => Handles(j)
    <3>1. CASE i # GLOBAL
      <4>1. pc'[GLOBAL] = pc[GLOBAL] /\ job'[GLOBAL] = job[GLOBAL]
        BY <3>1, Constants DEF Calm
      <4> QED
        BY <4>1 DEF Handles
    <3>2. CASE i = GLOBAL
      <4>1. pc \in [Insts -> PCs]
        BY GoroutineFacts
      <4>2. FindFull(i) \/ SetFull(i) \/ RemoveUnknown(i) => pc'[i] \in {"setFull", "messages"}
        BY <4>1 DEF FindFull, SetFull, RemoveUnknown, Handled, Goto
      <4>3. pc'[GLOBAL] # "remove"
        BY <1>2, <3>2, <4>2
      <4> QED
        BY <4>3 DEF Handles
    <3> QED
      BY <3>1, <3>2
  <2> QED
    BY <2>1, <2>2, <2>3, QuietRemoval
<1> QED
  BY <1>1, <1>2

\* A new channel: if its id was used before, nothing more is claimed.
LEMMA CreatingRemoval ==
  ASSUME LifecycleAssumption, CoreInv, CoreInv', QueueInv, NEW i \in Insts,
         CreateChannel(i) \/ StoreEntity(i), ~SomeIdUsedAgain',
         \A j \in Made : InTable(j) /\ AskedOnce(j), NEW j \in Made'
  PROVE  InTable(j)' /\ AskedOnce(j)'
<1>1. PICK x \in Ids :
        /\ made \in Insts /\ made \notin Made /\ Made' = Made \cup {made} /\ made # GLOBAL
        /\ allChannels' = [allChannels EXCEPT ![x] = made]
        /\ ch'[made].id = x /\ ~ch'[made].closed
        /\ \A k \in Insts \ {made} : /\ ch'[k].id = ch[k].id /\ ch'[k].removing = ch[k].removing
                                     /\ ch'[k].closed = ch[k].closed
        /\ pc'[i] = "subTest" /\ i # made
        /\ \A k \in Insts \ {i, made} : pc'[k] = pc[k]
        /\ \A k \in Insts \ {i} : job'[k] = job[k]
        /\ \A k \in Insts \ {i, made} : ch'[k].queue = ch[k].queue
        /\ \/ ch'[i].queue = ch[i].queue
           \/ ch[i].queue # <<>> /\ ch'[i].queue = Tail(ch[i].queue)
  BY CreateFacts
<1>2. GLOBAL \in Insts /\ GLOBAL # made /\ Made \subseteq Insts /\ Types /\ Types'
  BY <1>1, Constants DEF Made, CoreInv
<1>3. \A k \in Made : ch'[k].id = ch[k].id /\ ch[k].id # x
  <2> SUFFICES ASSUME NEW k \in Made PROVE ch'[k].id = ch[k].id /\ ch[k].id # x
    OBVIOUS
  <2>1. k # made /\ k \in Insts /\ k \in Made' /\ made \in Made'
    BY <1>1, <1>2
  <2>2. made \in Insts /\ k < made' /\ made < made'
    BY <2>1 DEF Made, Exists
  <2>3. ch'[k].id = ch[k].id
    BY <1>1, <2>1
  <2>4. ch'[k].id # ch'[made].id
    BY <2>1, <2>2 DEF SomeIdUsedAgain, Exists
  <2> QED
    BY <1>1, <2>3, <2>4
<1>4. pc'[GLOBAL] = "remove" => pc[GLOBAL] = "remove" /\ job'[GLOBAL] = job[GLOBAL]
  BY <1>1, <1>2
<1>5. \/ ch'[GLOBAL].queue = ch[GLOBAL].queue
      \/ ch[GLOBAL].queue # <<>> /\ ch'[GLOBAL].queue = Tail(ch[GLOBAL].queue)
  BY <1>1, <1>2
<1>6. CASE j # made
  <2>1. j \in Made /\ j \in Insts /\ InTable(j) /\ AskedOnce(j) /\ ch[j].id \in Ids
    BY <1>1, <1>2, <1>6 DEF Types, Channel
  <2>2. ch'[j].id = ch[j].id /\ ch'[j].closed = ch[j].closed
    BY <1>1, <1>6, <2>1
  <2>3. Asked(j)' = Asked(j)
    <3>1. pc[i] \notin {"ask", "send"}
      BY DEF CreateChannel, StoreEntity, Takes
    <3>2. Marked(j)' = Marked(j)
      BY <1>1, <1>6, <2>1 DEF Marked, Marks
    <3>3. pc'[j] \in {"ask", "send"} <=> pc[j] \in {"ask", "send"}
      BY <1>1, <1>6, <2>1, <3>1
    <3> QED
      BY <3>2, <3>3 DEF Asked
  <2>4. allChannels'[ch[j].id] = allChannels[ch[j].id]
    BY <1>1, <1>2, <1>3, <2>1 DEF Types
  <2>5. Handles(j)' => Handles(j)
    BY <1>4 DEF Handles
  <2> QED
    BY <1>5, <2>1, <2>2, <2>3, <2>4, <2>5, QuietRemoval
<1>7. CASE j = made
  <2>1. InTable(j)'
    BY <1>1, <1>2, <1>7 DEF InTable, Types
  <2>2. ASSUME NEW k, Waits(j, k)' PROVE FALSE
    <3> DEFINE q == ch[GLOBAL].queue
               r == ch'[GLOBAL].queue
    <3>1. k \in DOMAIN r /\ r[k].conn = Nobody /\ r[k].id = x
      BY <1>1, <1>7, <2>2 DEF Waits
    <3>2. q \in Seq(Messages)
      BY <1>2, Positions
    <3>3. r = q \/ (q # <<>> /\ r = Tail(q))
      BY <1>5
    <3> HIDE DEF q, r
    <3>4. \E l \in DOMAIN q : q[l] = r[k]
      <4>1. CASE r = q
        BY <3>1, <4>1
      <4>2. CASE q # <<>> /\ r = Tail(q)
        <5>1. k + 1 \in DOMAIN q /\ r[k] = q[k + 1]
          BY <3>1, <3>2, <4>2, TailMembers
        <5> QED
          BY <5>1
      <4> QED
        BY <3>3, <4>1, <4>2
    <3>5. x \in UsedIds
      BY <1>2, <3>1, <3>4 DEF QueueInv, MayBeQueued, q
    <3> QED
      BY <1>3, <3>5 DEF UsedIds
  <2>3. ~Handles(j)'
    <3>1. JobAt(GLOBAL)
      BY <1>2 DEF CoreInv
    <3> QED
      BY <1>1, <1>4, <1>7, <3>1 DEF Handles, JobAt
  <2>4. Traces(j)' = {}
    BY <1>1, <1>7, <2>2, <2>3 DEF Traces
  <2> QED
    BY <2>1, <2>4 DEF AskedOnce
<1> QED
  BY <1>6, <1>7

\* The entry that is deleted is that of a closed channel.
LEMMA DeletingRemoval ==
  ASSUME LifecycleAssumption, CoreInv, CoreInv', NEW i \in Insts, DeleteChannel(i),
         ~SomeIdUsedAgain, NEW j \in Made, InTable(j), AskedOnce(j)
  PROVE  InTable(j)' /\ AskedOnce(j)'
<1> DEFINE t == job[i].at
           x == ch[t].id
<1>1. /\ pc[i] = "delete" /\ t \in Made /\ ch[t].closed
      /\ x \in Ids /\ allChannels' = [allChannels EXCEPT ![x] = Nobody]
      /\ pc'[i] = "messages" /\ \A k \in Insts \ {i} : pc'[k] = pc[k] /\ job'[k] = job[k]
      /\ UNCHANGED ch
  BY DeleteFacts
<1> HIDE DEF t
<1>2. j \in Insts /\ t \in Insts /\ GLOBAL \in Insts /\ Types
  BY <1>1, Constants DEF Made, CoreInv
<1>3. ~ch[j].closed => allChannels'[ch[j].id] = allChannels[ch[j].id]
  <2>1. ~ch[j].closed => ch[j].id # x
    BY <1>1, <1>2 DEF SomeIdUsedAgain, Made
  <2>2. ch[j].id \in Ids
    BY <1>2 DEF Types, Channel
  <2> QED
    BY <1>1, <1>2, <2>1, <2>2 DEF Types
<1>4. Asked(j)' = Asked(j)
  BY <1>1, <1>2 DEF Asked, Marked
<1>5. Handles(j)' => Handles(j)
  <2>1. pc'[GLOBAL] = "remove" => pc[GLOBAL] = "remove" /\ job'[GLOBAL] = job[GLOBAL]
    BY <1>1, <1>2
  <2> QED
    BY <2>1 DEF Handles
<1> QED
  BY <1>1, <1>2, <1>3, <1>4, <1>5, QuietRemoval

\* The invariant of the removals is inductive.
LEMMA RemovalInductive ==
  ASSUME LifecycleAssumption, CoreInv, CoreInv', QueueInv, RemovalInv, Next
  PROVE  RemovalInv'
<1> SUFFICES ASSUME ~Excused', NEW j \in Made' PROVE InTable(j)' /\ AskedOnce(j)'
  BY DEF RemovalInv
<1>1. ~Excused /\ ~SomeIdUsedAgain /\ ~SomeIdUsedAgain'
  BY ExcusesLast DEF Excused
<1>2. /\ \A k \in Made : k \in Insts /\ InTable(k) /\ AskedOnce(k)
      /\ \A k, l \in Made : ch[k].id = ch[l].id => k = l
  BY <1>1 DEF RemovalInv, SomeIdUsedAgain, Made
<1>a. ASSUME UNCHANGED made PROVE j \in Made /\ j \in Insts /\ InTable(j) /\ AskedOnce(j)
  BY <1>2, <1>a DEF Made, Exists
<1>3. CASE \/ \E c \in Conns, r \in Requests : Receive(c, r)
           \/ \E c \in Conns : Put(c) \/ Close(c)
  <2>1. /\ ChannelsStay /\ UNCHANGED <<allChannels, made, pc, job>>
        /\ \A k \in Insts : Asked(k)' = Asked(k)
        /\ \/ UNCHANGED ch
           \/ \E t \in Insts, m \in Requests :
                /\ ch'[t].queue = Append(ch[t].queue, m)
                /\ \A k \in Insts \ {t} : ch'[k].queue = ch[k].queue
    BY <1>3, ConnectionStep DEF tableVars
  <2>2. /\ ch'[j].id = ch[j].id /\ ch'[j].closed = ch[j].closed /\ Asked(j)' = Asked(j)
        /\ allChannels'[ch[j].id] = allChannels[ch[j].id] /\ (Handles(j)' => Handles(j))
    BY <1>a, <2>1 DEF ChannelsStay, Handles
  <2>3. \/ ch'[GLOBAL].queue = ch[GLOBAL].queue
        \/ \E m \in Requests : ch'[GLOBAL].queue = Append(ch[GLOBAL].queue, m)
    BY <2>1, Constants
  <2> QED
    BY <1>a, <2>1, <2>2, <2>3, QuietRemoval
<1>4. ASSUME NEW i \in Insts, Tick(i) PROVE InTable(j)' /\ AskedOnce(j)'
  <2>1. CASE /\ Calm(i)
             /\ \/ pc'[i] # "remove"
                \/ FindFull(i) \/ SetFull(i) \/ RemoveUnknown(i) \/ HandleRemove(i)
    <3>1. UNCHANGED made
      BY <2>1 DEF Calm
    <3> QED
      BY <1>a, <2>1, <3>1, CalmRemoval
  <2>2. CASE CreateChannel(i) \/ StoreEntity(i)
    BY <1>1, <1>2, <2>2, CreatingRemoval
  <2>3. CASE RemoveChannel(i)
    <3>1. UNCHANGED made /\ pc[i] = "remove" /\ job[i].at \in Made
      BY <2>3, RemoveFacts DEF tableVars
    <3>2. job[i].msg.conn = Nobody => i = GLOBAL
      BY <3>1 DEF QueueInv
    <3>3. removedBy'[job[i].at] # "request"
      BY <1>2, <3>1 DEF Excused
    <3> QED
      BY <1>a, <2>3, <3>1, <3>2, <3>3, ClosingRemoval
  <2>4. CASE DeleteChannel(i)
    <3>1. UNCHANGED made
      BY <2>4, DeleteFacts
    <3> QED
      BY <1>1, <1>a, <2>4, <3>1, DeletingRemoval
  <2>5. CASE DoneAsking(i)
    <3>1. UNCHANGED made /\ pc[i] \in {"ask", "send"}
      BY <2>5, AskStep DEF tableVars
    <3>2. i \in Made
      BY <3>1, GoroutineFacts
    <3> QED
      BY <1>2, <1>a, <2>5, <3>1, <3>2, AskingRemoval
  <2> QED
    BY <1>4, <2>1, <2>2, <2>3, <2>4, <2>5, TickStep
<1> QED
  BY <1>3, <1>4 DEF Next

\* A closed channel for which more is to be done was asked to be removed twice.
LEMMA ClosedTwice ==
  ASSUME LifecycleAssumption, CoreInv, RemovalInv, ~Excused, NEW j \in Made, ch[j].closed,
         NEW k \in Traces(j), k # -1
  PROVE  FALSE
<1>1. j \in Insts /\ AskedOnce(j)
  BY DEF RemovalInv, Made
<1>2. Marked(j) \in 0 .. 2 /\ ch[j].removing \in Nat
  BY <1>1 DEF CoreInv, TickAt, Types, Channel
<1>3. -1 \in Traces(j)
  BY DEF Traces
<1>4. ~(Asked(j) <= 1)
  BY <1>1, <1>3 DEF AskedOnce
<1>5. Marked(j) = 2
  BY <1>2, <1>4 DEF Asked
<1>6. ch[j].removing > 2
  BY <1>2, <1>5 DEF Marked, Marks
<1> QED
  BY <1>6 DEF Excused

\* A step that ends the process at a removal has an excuse.
LEMMA PanicStep ==
  ASSUME LifecycleAssumption, CoreInv, CoreInv', QueueInv, RemovalInv, Next
  PROVE  OneRemovalIsSafe'
<1> SUFFICES ASSUME panicked' \in {"nil", "close"}, ~Excused', ~AskedByConnection'
             PROVE  FALSE
  BY DEF OneRemovalIsSafe, Excused, AskedTwiceInATick, AskedByConnection, Made
<1>1. ~Excused
  BY ExcusesLast
<1>2. \A j \in Made : j \in Insts /\ InTable(j) /\ AskedOnce(j)
  BY <1>1 DEF RemovalInv, Made
<1>3. panicked = "no"
  <2>1. ASSUME NEW i \in Insts, Tick(i) PROVE Running
    BY <2>1 DEF Tick, Possess, CreateChannel, FindFull, SetFull, RefuseCreate, TestEntity,
                StoreEntity, SubTest, SubLock, Subscribe, HandleSub, HandleUnsub, RemoveUnknown,
                HandleRemove, RemoveChannel, DeleteChannel, EndTick, TickConnections, Broadcast,
                DropSubscriber, OwnerLost, OwnerRemoved, Unlock, TestGlobal, AskForRemoval,
                GiveUp, Wait, Stop, Takes
  <2> QED
    BY <2>1 DEF Next, Receive, Put, Close, Running
<1>4. CASE \/ \E c \in Conns, r \in Requests : Receive(c, r)
           \/ \E c \in Conns : Put(c) \/ Close(c)
  BY <1>3, <1>4, ConnectionStep
<1>5. ASSUME NEW i \in Insts, Tick(i) PROVE FALSE
  <2>1. CASE panicked' \in {panicked, "send"}
    BY <1>3, <2>1
  <2>2. CASE RemoveUnknown(i) /\ panicked' # panicked
    <3> DEFINE m == Head(ch[i].queue)
    <3>1. Takes(i, "remove") /\ allChannels[m.id] = Nobody /\ m.conn = Nobody
      BY <1>3, <2>2 DEF RemoveUnknown
    <3>2. ch[i].queue \in Seq(Messages) /\ ch[i].queue # <<>>
      BY <3>1, GoroutineFacts DEF Takes
    <3>3. m = ch[i].queue[1] /\ 1 \in DOMAIN ch[i].queue
      BY <3>2, HeadMember
    <3> HIDE DEF m
    <3>4. MayBeQueued(i, m, UsedIds)
      BY <3>3 DEF QueueInv
    <3>5. i = GLOBAL /\ m.id \in UsedIds
      BY <3>1, <3>4, MessageTypes DEF MayBeQueued
    <3>6. PICK j \in Made : ch[j].id = m.id
      BY <3>5 DEF UsedIds
    <3>7. ch[j].closed
      BY <1>2, <3>1, <3>6, Constants DEF InTable
    <3>8. 1 \in Traces(j)
      BY <3>1, <3>3, <3>5, <3>6 DEF Traces, Waits
    <3> QED
      BY <1>1, <3>7, <3>8, ClosedTwice
  <2>3. CASE RemoveChannel(i) /\ panicked' # panicked
    <3> DEFINE t == job[i].at
    <3>1. pc[i] = "remove" /\ t \in Made /\ ch[t].closed /\ UNCHANGED <<pc, job>>
      BY <2>3, RemoveFacts
    <3>2. job[i].msg.conn = Nobody
      BY <3>1 DEF AskedByConnection
    <3>3. i = GLOBAL
      BY <3>1, <3>2 DEF QueueInv
    <3>4. 0 \in Traces(t)
      BY <3>1, <3>2, <3>3 DEF Traces, Handles
    <3> QED
      BY <1>1, <3>1, <3>4, ClosedTwice
  <2>4. CASE FindFull(i) \/ SetFull(i) \/ HandleRemove(i)
    BY <2>1, <2>4 DEF FindFull, SetFull, HandleRemove
  <2>5. CASE CreateChannel(i) \/ StoreEntity(i) \/ DeleteChannel(i)
    BY <2>1, <2>5 DEF CreateChannel, StoreEntity, DeleteChannel
  <2>6. CASE DoneAsking(i)
    BY <2>1, <2>6, AskStep
  <2> QED
    BY <1>5, <2>1, <2>2, <2>3, <2>4, <2>5, <2>6, TickStep
<1> QED
  BY <1>4, <1>5 DEF Next

\* At the start nothing has been asked for.
LEMMA RemovalInit ==
  ASSUME LifecycleAssumption, Init, CoreInv
  PROVE  QueueInv /\ RemovalInv /\ OneRemovalIsSafe
<1>1. \A i \in Insts : pc[i] \in {"top", "none"}
  BY DEF Init
<1>2. \A i \in Insts : ch[i].queue = <<>> /\ ~ch[i].closed
  <2> SUFFICES ASSUME NEW i \in Insts PROVE ch[i].queue = <<>> /\ ~ch[i].closed
    OBVIOUS
  <2> DEFINE k == IF i = 0 THEN "GLOBAL" ELSE "SPATIAL"
             x == FirstId(i)
  <2>1. ch[i] = IF ~IsFirst(i) THEN NoChannel ELSE [NoChannel EXCEPT !.kind = k, !.id = x]
    BY DEF Init
  <2> HIDE DEF k, x
  <2> QED
    BY <2>1 DEF NoChannel
<1>3. \A i \in Made : allChannels[ch[i].id] = i
  BY FirstAreFound DEF Made
<1>4. QueueInv
  BY <1>1, <1>2 DEF QueueInv
<1>5. ASSUME NEW j \in Made PROVE InTable(j) /\ AskedOnce(j)
  <2>1. j \in Insts /\ GLOBAL \in Insts
    BY Constants DEF Made
  <2>2. \A k : ~Waits(j, k)
    BY <1>2, <2>1 DEF Waits
  <2>3. ~Handles(j) /\ ~ch[j].closed
    BY <1>1, <1>2, <2>1 DEF Handles
  <2>4. Traces(j) = {}
    BY <2>2, <2>3 DEF Traces
  <2> QED
    BY <1>3, <2>4 DEF InTable, AskedOnce
<1>6. OneRemovalIsSafe
  BY DEF Init, OneRemovalIsSafe
<1> QED
  BY <1>4, <1>5, <1>6 DEF RemovalInv

\* Removing a channel ends the process, at a nil connection or a queue closed twice, only
\* when a connection asked for the removal, when it was asked for twice in one tick, or
\* when an id was used by two channels (handleRemoveChannel, message.go, and RemoveChannel,
\* channel.go).
THEOREM RemovalsAreSafe == Spec => []OneRemovalIsSafe
<1> DEFINE Inv == CoreInv /\ QueueInv /\ RemovalInv /\ OneRemovalIsSafe
<1>1. Init => Inv
  BY CoreInit, RemovalInit, LifecycleAssumption
<1>2. Inv /\ [Next]_vars => Inv'
  <2> SUFFICES ASSUME Inv, [Next]_vars PROVE Inv'
    OBVIOUS
  <2>1. CoreInv'
    BY CoreStep, LifecycleAssumption
  <2>2. CASE Next
    BY <2>1, <2>2, QueueInductive, RemovalInductive, PanicStep, LifecycleAssumption
  <2>3. CASE UNCHANGED vars
    <3>1. UNCHANGED <<allChannels, made, ch, pc, job, panicked, removedBy>>
      BY <2>3 DEF vars, tableVars, history
    <3>2. Made' = Made /\ UsedIds' = UsedIds /\ SomeIdUsedAgain' = SomeIdUsedAgain
      BY <3>1 DEF Made, Exists, UsedIds, SomeIdUsedAgain
    <3>3. QueueInv' /\ Excused' = Excused
      BY <3>1, <3>2 DEF QueueInv, Excused
    <3>4. \A j : Traces(j)' = Traces(j) /\ Asked(j)' = Asked(j)
      BY <3>1 DEF Traces, Waits, Handles, Asked, Marked
    <3>5. RemovalInv'
      BY <3>1, <3>2, <3>3, <3>4 DEF RemovalInv, InTable, AskedOnce
    <3>6. OneRemovalIsSafe'
      BY <3>1, <3>2 DEF OneRemovalIsSafe, AskedByConnection, AskedTwiceInATick
    <3> QED
      BY <2>1, <3>3, <3>5, <3>6
  <2> QED
    BY <2>2, <2>3
<1>3. Inv => OneRemovalIsSafe
  OBVIOUS
<1> QED
  BY <1>1, <1>2, <1>3, PTL DEF Spec
=============================================================================

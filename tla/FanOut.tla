------------------------------- MODULE FanOut -------------------------------
(***************************************************************************)
(* The data pipeline of one channel: updates received by the goroutines of *)
(* the connections are stamped and queued (Channel.PutMessage), handled by *)
(* the channel's goroutine (tickMessages, ChannelData.OnUpdate) and fanned *)
(* out to every subscriber when its interval has elapsed (tickData); the   *)
(* subscriptions of closed connections are removed at the end of the tick  *)
(* (tickConnections).  Subscriptions come from any goroutine and exclude   *)
(* the second half of a tick through subLock.                              *)
(*                                                                         *)
(* The channel has its data message from the start (InitData).  An update  *)
(* sets one field; it is known by its messageIndex, and a field holds the  *)
(* index of the last update that set it (0: unset or the initial value).   *)
(* The order of fanOutQueue is left to module FanOutQueue: here it is a    *)
(* set, and tickData visits its elements in any order.                     *)
(***************************************************************************)
EXTENDS Integers, Sequences, FiniteSets

CONSTANTS
  Conns,         \* connections that may subscribe or send updates
  Servers,       \* those of type SERVER
  FirstOwner,    \* the connection that created the channel, or None
  None,          \* no connection; also: no stamp taken
  Fields,        \* the fields of the channel data message
  SubOptions,    \* the options a subscription may ask for
  BufferSize,    \* MaxUpdateMsgBufferSize
  MaxTime,       \* bound: the channel time at which the model stops its clock
  MaxUpdates,    \* bound: updates sent to the channel
  Senders,       \* bound: the connections that send updates
  MaxCalls,      \* bound: calls of SubscribeToChannel
  Closable       \* bound: the connections that may close

\* SubscribeToChannel merges what is asked for unchecked: an interval may be 0.
SubscriptionOptions ==
  [interval : Nat, delay : Int, access : {"NO", "READ", "WRITE"},
   skipSelf : BOOLEAN, skipFirst : BOOLEAN, mask : SUBSET Fields]

ASSUME FanOutAssumption ==
  /\ Servers \subseteq Conns /\ Fields # {}
  /\ FirstOwner \in Conns \cup {None}
  /\ None \notin Conns /\ None \notin Nat
  /\ SubOptions \subseteq SubscriptionOptions
  /\ BufferSize \in Nat \ {0}
  /\ MaxTime \in Nat
  /\ MaxUpdates \in Nat /\ MaxCalls \in Nat

Indexes == 1 .. MaxUpdates
MaxCount == 3       \* bound: received counts no further

\* A ChannelSubscription: its options and subTime.
Subscription ==
  [interval : Nat, delay : Int, access : {"NO", "READ", "WRITE"},
   skipSelf : BOOLEAN, skipFirst : BOOLEAN, mask : SUBSET Fields, subTime : Nat]

VARIABLES
  now,          \* what ch.GetTime() returns
  stamp,        \* per connection: the arrivalTime PutMessage has read but not queued yet
  inMsgQueue,   \* the updates waiting for tickMessages
  phase,        \* where the channel's goroutine is: "messages" or "data"
  handled,      \* whether this tick has handled a message
  tickTime,     \* the argument of tickData
  toVisit,      \* the connections this tickData has still to look at
  closing,      \* connections for which IsClosing() holds
  calls,        \* calls of SubscribeToChannel so far (for the bound)
  owner,        \* ownerConnection
  subscribed,   \* keys of subscribedConnections
  options,      \* per subscription: options, and subTime
  fanOutQueue,  \* the connections that have an element in the fan-out queue
  foc,          \* per element: hadFirstFanOut, lastFanOutTime
  msg,          \* ChannelData.msg: per field, the update that set it
  msgIndex,
  updates,      \* updateMsgBufferElement by messageIndex
  buffer,       \* updateMsgBuffer: the indexes in it, the front being the smallest
  maxFanOutInterval,
  \* history variables, read by properties only
  whole,        \* the connections whose subscription was sent the whole data
  view,         \* per connection: the fields as it last received them
  received,     \* per connection: how often each update was fanned out to it
  repeated,     \* per connection: updates fanned out to it while its interval was 0
  owed,         \* per connection: updates of others handled since its first fan-out
  late,         \* those of them that were handled too late for their window
  dropped       \* updates removed from the buffer

channelVars == <<owner, msg, msgIndex, updates, buffer, maxFanOutInterval>>
subVars     == <<calls, subscribed, options, fanOutQueue, foc>>
tickVars    == <<phase, handled, tickTime, toVisit>>
history     == <<whole, view, received, repeated, owed, late, dropped>>
vars == <<now, stamp, inMsgQueue, tickVars, closing, channelVars, subVars, history>>

NoOptions == [interval |-> 1, delay |-> 0, access |-> "NO", skipSelf |-> TRUE,
              skipFirst |-> FALSE, mask |-> {}, subTime |-> 0]
NoElement == [had |-> FALSE, last |-> 0]
NoUpdate  == [arrivalTime |-> 0, field |-> CHOOSE f \in Fields : TRUE,
              origin |-> None, sender |-> None]

\* The channel has just been created and its data initialised; its owner, if it
\* has one, is not subscribed yet.
Init ==
  /\ now = 0 /\ stamp = [c \in Conns |-> None] /\ inMsgQueue = <<>>
  /\ phase = "messages" /\ handled = FALSE /\ tickTime = 0 /\ toVisit = {}
  /\ closing = {} /\ calls = 0 /\ owner = FirstOwner
  /\ subscribed = {} /\ options = [c \in Conns |-> NoOptions]
  /\ fanOutQueue = {} /\ foc = [c \in Conns |-> NoElement]
  /\ msg = [f \in Fields |-> 0] /\ msgIndex = 0
  /\ updates = [i \in Indexes |-> NoUpdate] /\ buffer = {} /\ maxFanOutInterval = 0
  /\ whole = {} /\ view = [c \in Conns |-> [f \in Fields |-> 0]]
  /\ received = [c \in Conns |-> [i \in Indexes |-> 0]] /\ repeated = [c \in Conns |-> {}]
  /\ owed = [c \in Conns |-> {}] /\ late = [c \in Conns |-> {}] /\ dropped = {}

-----------------------------------------------------------------------------
(* The goroutines of the connections.                                      *)

InFlight == Len(inMsgQueue) + Cardinality({c \in Conns : stamp[c] # None})

\* PutMessage evaluates ch.GetTime() ...
Stamp(c) ==
  /\ stamp[c] = None
  /\ c \in Senders /\ msgIndex + InFlight < MaxUpdates       \* bound
  /\ stamp' = [stamp EXCEPT ![c] = now]
  /\ UNCHANGED <<now, inMsgQueue, tickVars, closing, channelVars, subVars, history>>

\* ... and then sends to the queue: another goroutine may come in between.
Enqueue(c, f) ==
  /\ stamp[c] # None
  /\ inMsgQueue' = Append(inMsgQueue, [conn |-> c, arrivalTime |-> stamp[c], field |-> f])
  /\ stamp' = [stamp EXCEPT ![c] = None]
  /\ UNCHANGED <<now, tickVars, closing, channelVars, subVars, history>>

Close(c) ==
  /\ c \in Closable \ closing
  /\ closing' = closing \cup {c}
  /\ UNCHANGED <<now, stamp, inMsgQueue, tickVars, channelVars, subVars, history>>

-----------------------------------------------------------------------------
(* Subscriptions.  subLock is held by the channel's goroutine from the     *)
(* start of tickData to the end of tickConnections.                        *)

SubLockFree == phase = "messages"

\* SubscribeToChannel tests IsClosing() before it waits for subLock; a connection
\* closed in between is as one closed right after.
MaySubscribe(c) ==
  /\ c \notin closing /\ SubLockFree
  /\ calls < MaxCalls                       \* bound
  /\ calls' = calls + 1

\* The options, and the history, of the subscriptions in S are gone.
ForgetSubscription(S) ==
  /\ options' = [c \in Conns |-> IF c \in S THEN NoOptions ELSE options[c]]
  /\ whole' = whole \ S
  /\ view' = [c \in Conns |-> IF c \in S THEN [f \in Fields |-> 0] ELSE view[c]]
  /\ received' = [c \in Conns |-> IF c \in S THEN [i \in Indexes |-> 0] ELSE received[c]]
  /\ repeated' = [c \in Conns |-> IF c \in S THEN {} ELSE repeated[c]]
  /\ owed' = [c \in Conns |-> IF c \in S THEN {} ELSE owed[c]]
  /\ late' = [c \in Conns |-> IF c \in S THEN {} ELSE late[c]]

\* A new subscription starts with an element whose lastFanOutTime is delayed.
Subscribe(c, o) ==
  /\ MaySubscribe(c) /\ c \notin subscribed
  /\ subscribed' = subscribed \cup {c}
  /\ options' = [options EXCEPT ![c] =
        [interval |-> o.interval, delay |-> o.delay, access |-> o.access,
         skipSelf |-> o.skipSelf, skipFirst |-> o.skipFirst, mask |-> o.mask,
         subTime |-> now]]
  /\ fanOutQueue' = fanOutQueue \cup {c}
  /\ foc' = [foc EXCEPT ![c] = [had |-> o.skipFirst, last |-> now + o.delay]]
  /\ maxFanOutInterval' = IF maxFanOutInterval < o.interval THEN o.interval
                                                            ELSE maxFanOutInterval
  /\ UNCHANGED <<now, stamp, inMsgQueue, tickVars, closing, owner, msg, msgIndex,
                 updates, buffer, history>>

\* Subscribing again merges the options (proto.Merge appends the field masks);
\* maxFanOutIntervalMs is not brought up to date.
Resubscribe(c, o) ==
  /\ MaySubscribe(c) /\ c \in subscribed
  /\ options' = [options EXCEPT ![c] =
        [interval |-> o.interval, delay |-> o.delay, access |-> o.access,
         skipSelf |-> o.skipSelf, skipFirst |-> o.skipFirst,
         mask |-> @.mask \cup o.mask, subTime |-> @.subTime]]
  /\ UNCHANGED <<now, stamp, inMsgQueue, tickVars, closing, channelVars,
                 subscribed, fanOutQueue, foc, history>>

\* UnsubscribeFromChannel, and the reset of the owner that unsubscribes itself
\* (handleUnsubFromChannel); queue is what is left of the fan-out queue.
Leave(c, queue) ==
  /\ SubLockFree /\ c \in subscribed
  /\ subscribed' = subscribed \ {c}
  /\ fanOutQueue' = queue
  /\ ForgetSubscription({c})
  /\ foc' = [foc EXCEPT ![c] = NoElement]
  /\ owner' = IF owner = c /\ c \notin closing THEN None ELSE owner
  /\ UNCHANGED <<now, stamp, inMsgQueue, tickVars, closing, calls, msg, msgIndex,
                 updates, buffer, maxFanOutInterval, dropped>>

\* Mutant of Unsubscribe: the element stays in the fan-out queue.
UnsubscribeKeepElement(c) == Leave(c, fanOutQueue)

Unsubscribe(c) == Leave(c, fanOutQueue \ {c})

-----------------------------------------------------------------------------
(* tickMessages.                                                           *)

\* handleChannelDataUpdate: on whose behalf c updates the data, None if it may
\* not.  A server without write access acts for the channel's owner.
Writer(c) ==
  IF owner = c \/ (c \in subscribed /\ options[c].access = "WRITE") THEN c
  ELSE IF c \in Servers /\ owner # None /\ owner \notin closing THEN owner
  ELSE None

Dequeue ==
  /\ phase = "messages" /\ inMsgQueue # <<>>
  /\ inMsgQueue' = Tail(inMsgQueue)
  /\ handled' = TRUE

DropUpdate ==
  /\ Dequeue
  /\ Writer(Head(inMsgQueue).conn) = None
  /\ UNCHANGED <<now, stamp, phase, tickTime, toVisit, closing, channelVars, subVars, history>>

Oldest(buf) == CHOOSE i \in buf : \A j \in buf : i <= j
Newest(buf) == CHOOSE i \in buf : \A j \in buf : j <= i

\* Mutant of AfterOverflow: the age of the oldest element is not tested.
AfterOverflowAnyAge(buf, ups, t) ==
  IF Cardinality(buf) > BufferSize THEN buf \ {Oldest(buf)} ELSE buf

\* The oldest element goes once the buffer overflows, if every subscriber should
\* have been sent it by the time t.
AfterOverflow(buf, ups, t) ==
  IF Cardinality(buf) > BufferSize /\ ups[Oldest(buf)].arrivalTime + maxFanOutInterval < t
  THEN buf \ {Oldest(buf)} ELSE buf

\* ChannelData.OnUpdate with i as the index of the message and last as the new
\* value of msgIndex.
StoreUpdate(m, w, i, last) ==
  /\ msg' = [msg EXCEPT ![m.field] = i]
  /\ msgIndex' = last
  /\ updates' = [updates EXCEPT ![i] = [arrivalTime |-> m.arrivalTime, field |-> m.field,
                                            origin |-> m.conn, sender |-> w]]
  /\ buffer' = AfterOverflow(buffer \cup {i}, updates', m.arrivalTime)
  /\ dropped' = dropped \cup ((buffer \cup {i}) \ buffer')
  /\ owed' = [c \in Conns |-> IF c \in subscribed /\ foc[c].had /\ c \notin {m.conn, w}
                                  THEN owed[c] \cup {i} ELSE owed[c]]
  /\ late' = [c \in Conns |-> IF i \in owed'[c] /\ m.arrivalTime < foc[c].last
                                  THEN late[c] \cup {i} ELSE late[c]]

\* Mutant of OnUpdate: the message index is not advanced.
OnUpdateSameIndex(m, w) == StoreUpdate(m, w, msgIndex + 1, msgIndex)

OnUpdate(m, w) == StoreUpdate(m, w, msgIndex + 1, msgIndex + 1)

HandleUpdate ==
  /\ Dequeue
  /\ msgIndex < MaxUpdates            \* follows from the bound on Stamp
  /\ LET m == Head(inMsgQueue) IN Writer(m.conn) # None /\ OnUpdate(m, Writer(m.conn))
  /\ UNCHANGED <<now, stamp, phase, tickTime, toVisit, closing, owner, maxFanOutInterval,
                 subVars, whole, view, received, repeated>>

-----------------------------------------------------------------------------
(* tickData.                                                               *)

\* tickMessages ends when the queue is empty, or after any message if the tick
\* interval has elapsed.
StartTickData ==
  /\ phase = "messages" /\ (inMsgQueue = <<>> \/ handled)
  /\ phase' = "data" /\ tickTime' = now /\ toVisit' = fanOutQueue /\ handled' = FALSE
  /\ UNCHANGED <<now, stamp, inMsgQueue, closing, channelVars, subVars, history>>

NextFanOutTime(c) == foc[c].last + options[c].interval
HasAccess(c) == c \in subscribed /\ options[c].access # "NO"
Due(c) == HasAccess(c) /\ tickTime >= NextFanOutTime(c)

\* Mutant of InWindow: the window has no lower end.
InWindowFromStart(c) ==
  {i \in buffer : /\ ~(updates[i].sender = c /\ options[c].skipSelf)
                  /\ updates[i].arrivalTime <= NextFanOutTime(c)}

\* The updates in the window of c that it does not skip as its own.
InWindow(c) ==
  {i \in buffer : /\ ~(updates[i].sender = c /\ options[c].skipSelf)
                  /\ foc[c].last <= updates[i].arrivalTime
                  /\ updates[i].arrivalTime <= NextFanOutTime(c)}

\* Those the loop over the buffer merges: lastUpdateTime follows the arrival
\* times, so that an update stamped before one already merged is passed over.
Selected(c) ==
  {i \in InWindow(c) : \A j \in InWindow(c) :
      j < i => updates[j].arrivalTime <= updates[i].arrivalTime}

DropClosedElement(c) ==
  /\ phase = "data" /\ c \in toVisit /\ c \in closing
  /\ fanOutQueue' = fanOutQueue \ {c}
  /\ foc' = [foc EXCEPT ![c] = NoElement]
  /\ toVisit' = toVisit \ {c}
  /\ UNCHANGED <<now, stamp, inMsgQueue, phase, handled, tickTime, closing, channelVars,
                 calls, subscribed, options, history>>

PassOver(c) ==
  /\ phase = "data" /\ c \in toVisit /\ c \notin closing /\ ~Due(c)
  /\ toVisit' = toVisit \ {c}
  /\ UNCHANGED <<now, stamp, inMsgQueue, phase, handled, tickTime, closing, channelVars,
                 subVars, history>>

Masked(c, data) == [f \in Fields |-> IF options[c].mask = {} \/ f \in options[c].mask
                                     THEN data[f] ELSE 0]

\* The whole data is sent; fanOutDataUpdate filters ch.data.msg itself.
FirstFanOut(c) ==
  /\ phase = "data" /\ c \in toVisit /\ c \notin closing /\ Due(c) /\ ~foc[c].had
  /\ msg' = Masked(c, msg)
  /\ whole' = whole \cup {c} /\ view' = [view EXCEPT ![c] = msg']
  /\ foc' = [foc EXCEPT ![c] = [had |-> TRUE, last |-> tickTime]]
  /\ UNCHANGED <<now, stamp, inMsgQueue, tickVars, closing, owner, msgIndex, updates, buffer,
                 maxFanOutInterval, calls, subscribed, options, fanOutQueue,
                 received, repeated, owed, late, dropped>>

\* Mutant of Merged: the buffer is merged from its back.
MergedBackwards(c, S) ==
  [f \in Fields |-> IF \A i \in S : updates[i].field # f THEN view[c][f]
                    ELSE Oldest({i \in S : updates[i].field = f})]

\* What c holds after it is sent the updates S merged in the order of the buffer.
Merged(c, S) ==
  LET ofField(f) == {i \in S : updates[i].field = f}
      accumulated == [f \in Fields |-> IF ofField(f) = {} THEN 0 ELSE Newest(ofField(f))]
  IN  [f \in Fields |-> IF Masked(c, accumulated)[f] = 0 THEN view[c][f] ELSE accumulated[f]]

\* One window is fanned out; last is the new lastFanOutTime, rest what is left to
\* visit. A window of an interval of 0 is over as soon as it begins: it is fanned
\* out again and again, and tickData does not go on until the connection closes.
FanOutWindow(c, last, rest) ==
  /\ phase = "data" /\ c \in toVisit /\ c \notin closing /\ Due(c) /\ foc[c].had
  /\ view' = [view EXCEPT ![c] = Merged(c, Selected(c))]
  /\ received' = [received EXCEPT ![c] =
        [i \in Indexes |-> IF i \in Selected(c) /\ @[i] < MaxCount THEN @[i] + 1 ELSE @[i]]]
  /\ repeated' = [repeated EXCEPT ![c] =
        IF options[c].interval = 0 THEN @ \cup Selected(c) ELSE @]
  /\ foc' = [foc EXCEPT ![c] = [had |-> TRUE, last |-> last]]
  /\ toVisit' = rest
  /\ UNCHANGED <<now, stamp, inMsgQueue, phase, handled, tickTime, closing, channelVars, calls,
                 subscribed, options, fanOutQueue, whole, owed, late, dropped>>

\* Mutants of FanOut: the subscriber is visited once per tick; the last fan-out
\* time becomes the time of the tick.
FanOutOnce(c) == FanOutWindow(c, NextFanOutTime(c), toVisit \ {c})
FanOutToTickTime(c) == FanOutWindow(c, tickTime, toVisit)

\* The element stays ahead of the cursor: it is visited again in this tick.
FanOut(c) == FanOutWindow(c, NextFanOutTime(c), toVisit)

-----------------------------------------------------------------------------
\* tickConnections, its tests of IsClosing() taken together, and the end of the
\* tick.  Only subscribedConnections is cleaned: the element of a connection that
\* tickData did not meet closed stays in the queue until the next tickData.
TickConnections ==
  /\ phase = "data" /\ toVisit = {}
  /\ LET lost == subscribed \cap closing
     IN  /\ subscribed' = subscribed \ lost
         /\ owner' = IF owner \in lost THEN None ELSE owner
         /\ ForgetSubscription(lost)
  /\ phase' = "messages" /\ tickTime' = 0
  /\ UNCHANGED <<now, stamp, inMsgQueue, handled, toVisit, closing, msg, msgIndex, updates,
                 buffer, maxFanOutInterval, calls, fanOutQueue, foc, dropped>>

-----------------------------------------------------------------------------
Advance ==
  /\ now < MaxTime                          \* bound
  /\ now' = now + 1
  /\ UNCHANGED <<stamp, inMsgQueue, tickVars, closing, channelVars, subVars, history>>

\* The steps of the channel's goroutine.
Tick ==
  \/ DropUpdate \/ HandleUpdate \/ StartTickData
  \/ \E c \in Conns : \/ DropClosedElement(c) \/ PassOver(c) \/ FirstFanOut(c) \/ FanOut(c)
  \/ TickConnections

Environment ==
  \/ Advance
  \/ \E c \in Conns : \/ Stamp(c) \/ Close(c) \/ Unsubscribe(c)
                      \/ \E f \in Fields : Enqueue(c, f)
                      \/ \E o \in SubOptions : Subscribe(c, o) \/ Resubscribe(c, o)

Next == Tick \/ Environment

Spec == Init /\ [][Next]_vars

-----------------------------------------------------------------------------
(* Properties.                                                             *)

\* The type invariant.
TypeOK ==
  /\ now \in Nat /\ tickTime \in Nat
  /\ stamp \in [Conns -> Nat \cup {None}]
  /\ inMsgQueue \in Seq([conn : Conns, arrivalTime : Nat, field : Fields])
  /\ phase \in {"messages", "data"} /\ handled \in BOOLEAN
  /\ calls \in Nat /\ toVisit \subseteq Conns /\ closing \subseteq Conns
  /\ owner \in Conns \cup {None} /\ subscribed \subseteq Conns /\ fanOutQueue \subseteq Conns
  /\ options \in [Conns -> Subscription]
  /\ foc \in [Conns -> [had : BOOLEAN, last : Int]]
  /\ msg \in [Fields -> Nat] /\ msgIndex \in 0 .. MaxUpdates
  /\ updates \in [Indexes -> [arrivalTime : Nat, field : Fields,
                              origin : Conns \cup {None}, sender : Conns \cup {None}]]
  /\ buffer \subseteq 1 .. msgIndex /\ maxFanOutInterval \in Nat
  /\ whole \subseteq Conns /\ view \in [Conns -> [Fields -> Nat]]
  /\ received \in [Conns -> [Indexes -> 0 .. MaxCount]]
  /\ repeated \in [Conns -> SUBSET Indexes]
  /\ owed \in [Conns -> SUBSET Indexes] /\ late \in [Conns -> SUBSET Indexes]
  /\ dropped \subseteq Indexes

\* A live subscriber always has an element in the fan-out queue, and an element
\* without subscription belongs to a closing connection (so tickData drops it):
\* subscribedConnections and fanOutQueue are changed by three different
\* functions, only two of which change both.
SubscriptionHasElement ==
  \A c \in Conns \ closing : c \in subscribed <=> c \in fanOutQueue

\* An update is fanned out at most twice to the same subscription: the windows
\* [last, next] of consecutive fan-outs share their end points and no more. Only
\* one that is in a window of no length, which an interval of 0 makes, is fanned
\* out more often: every turn of tickData's loop sends it again.
ReceivedAtMostTwice ==
  \A c \in subscribed : \A i \in Indexes \ repeated[c] : received[c][i] <= 2

\* An update stamped later than i was handled before it.
Overtaken(i) == \E j \in 1 .. i - 1 : updates[j].arrivalTime > updates[i].arrivalTime

\* What a subscription must have been sent of S by its last fan-out.
ReceivedAllOf(c, S) ==
  \A i \in S : updates[i].arrivalTime < foc[c].last
                 => received[c][i] > 0 \/ i \in dropped \/ Overtaken(i)

\* tickData never skips an update of another connection that was handled before
\* its window was fanned out, whatever catching up, re-subscribing, closing and
\* changes of access happen in between.
OnTimeUpdatesReceived == \A c \in subscribed \ closing : ReceivedAllOf(c, owed[c] \ late[c])

\* After tickData no live subscriber with access is due: one that fell behind has
\* been sent all the windows it missed. (With an interval of 0 it is always due, and
\* tickData does not end before it closes; see EveryTickEnds in FanOutQueue.)
NobodyDueAfterTickData ==
  phase = "data" /\ toVisit = {} => \A c \in fanOutQueue \ closing : ~Due(c)

\* OnUpdate removes an update that some live subscriber has not been sent only if
\* that subscriber's fan-out is overdue (the tick is late), provided that no
\* re-subscription raised an interval above maxFanOutIntervalMs.
DropOnlyWhenOverdue ==
  [][\A i \in dropped' \ dropped : \A c \in subscribed \ closing :
        (/\ i \in owed[c] \ late[c] /\ received[c][i] = 0 /\ ~Overtaken(i) /\ HasAccess(c)
         /\ options[c].interval <= maxFanOutInterval)
           => NextFanOutTime(c) < now]_vars

\* What a live subscriber holds, once it was sent the whole data and all updates
\* owed to it, is the channel's data, its own updates excepted: the full state
\* and the windows after it leave no gap and do not undo each other.
CaughtUp(c) ==
  /\ c \in (subscribed \cap whole) \ closing /\ options[c].mask = {}
  /\ \A i \in owed[c] : received[c][i] > 0
  /\ \A i \in 1 .. msgIndex : ~Overtaken(i)
ViewIsChannelData ==
  \A c \in Conns : CaughtUp(c) =>
    \A f \in Fields : msg[f] # 0 /\ c \notin {updates[msg[f]].sender, updates[msg[f]].origin}
                        => view[c][f] = msg[f]

\* doc/design.md: a modification of the channel data is sent to all subscribed
\* connections.  Not so for an update handled after its window has been fanned out.
EveryUpdateReceived == \A c \in subscribed \ closing : ReceivedAllOf(c, owed[c])

\* The channel's data holds the last update of every field: what one subscriber may
\* see (dataFieldMasks) does not change what the others are sent.
DataHoldsEveryUpdate ==
  \A f \in Fields : \A i \in 1 .. msgIndex : updates[i].field = f => msg[f] >= i
=============================================================================

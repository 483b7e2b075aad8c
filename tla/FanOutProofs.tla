---------------------------- MODULE FanOutProofs ----------------------------
(* Theorems about module FanOut, for every value of its constants.         *)
EXTENDS FanOut, TLAPS, NaturalsInduction, WellFoundedInduction, SequenceTheorems

-----------------------------------------------------------------------------
(* The operators of the model.                                             *)

\* A non-empty set of message indexes has a greatest element: Newest chooses it.
LEMMA NewestInSet ==
  ASSUME NEW n \in Nat, NEW S, S \subseteq 1 .. n, S # {}
  PROVE  Newest(S) \in S /\ \A j \in S : j <= Newest(S)
<1> DEFINE T == {n - i : i \in S}
<1>1. T \subseteq Nat
  OBVIOUS
<1>2. PICK k \in S : TRUE
  OBVIOUS
<1>3. n - k \in T
  BY <1>2
<1>4. PICK x \in T : \A y \in T : ~ (<<y, x>> \in OpToRel(<, Nat))
  <2> HIDE DEF T
  <2> QED
    BY <1>1, <1>3, NatLessThanWellFounded, WFMin
<1>5. \A y \in T : x <= y
  <2> SUFFICES ASSUME NEW y \in T, y < x PROVE FALSE
    BY <1>1
  <2>1. <<y, x>> \in OpToRel(<, Nat)
    <3> HIDE DEF T
    <3> QED
      BY <1>1 DEF OpToRel
  <2> QED
    BY <2>1, <1>4
<1>6. PICK i \in S : x = n - i
  BY <1>4
<1>7. ASSUME NEW j \in S PROVE j <= i
  <2>1. n - j \in T
    OBVIOUS
  <2>2. n - i <= n - j
    BY <2>1, <1>5, <1>6
  <2>3. i \in 1 .. n /\ j \in 1 .. n
    BY <1>6
  <2> HIDE DEF T
  <2> QED
    BY <2>2, <2>3
<1>8. QED
  BY <1>7 DEF Newest

\* What remains of the buffer after an overflow was in it.
LEMMA AfterOverflowShrinks ==
  ASSUME NEW buf, NEW ups, NEW t
  PROVE  AfterOverflow(buf, ups, t) \subseteq buf
BY DEF AfterOverflow

\* The updates selected for a window lie in it.
LEMMA SelectedInWindow ==
  ASSUME NEW c, NEW i \in Selected(c)
  PROVE  /\ i \in buffer
         /\ foc[c].last <= updates[i].arrivalTime
         /\ updates[i].arrivalTime <= NextFanOutTime(c)
BY DEF Selected, InWindow

\* Merging updates into a view yields a view.
LEMMA MergedType ==
  ASSUME TypeOK, NEW c \in Conns, NEW S, S \subseteq buffer
  PROVE  Merged(c, S) \in [Fields -> Nat]
<1>1. ASSUME NEW f \in Fields
      PROVE  {i \in S : updates[i].field = f} = {}
               \/ Newest({i \in S : updates[i].field = f}) \in Nat
  <2> DEFINE U == {i \in S : updates[i].field = f}
  <2> SUFFICES ASSUME U # {} PROVE Newest(U) \in Nat
    OBVIOUS
  <2>1. buffer \subseteq 1 .. msgIndex /\ msgIndex \in Nat
    BY FanOutAssumption DEF TypeOK, FanOutAssumption
  <2>2. Newest(U) \in U
    BY <2>1, NewestInSet
  <2>3. Newest(U) \in 1 .. msgIndex
    BY <2>1, <2>2
  <2> HIDE DEF U
  <2> QED
    BY <2>3
<1>2. view[c] \in [Fields -> Nat]
  BY DEF TypeOK
<1> QED
  BY <1>1, <1>2 DEF Merged, Masked

-----------------------------------------------------------------------------
(* Types.                                                                  *)

\* Forgetting subscriptions keeps the types of the variables it changes.
LEMMA ForgetType ==
  ASSUME FanOutAssumption, TypeOK, NEW S, ForgetSubscription(S)
  PROVE  /\ options' \in [Conns -> Subscription]
         /\ whole' \subseteq Conns /\ view' \in [Conns -> [Fields -> Nat]]
         /\ received' \in [Conns -> [Indexes -> 0 .. MaxCount]]
         /\ repeated' \in [Conns -> SUBSET Indexes]
         /\ owed' \in [Conns -> SUBSET Indexes] /\ late' \in [Conns -> SUBSET Indexes]
<1>1. NoOptions \in Subscription
  BY DEF NoOptions, Subscription
<1>2. 0 \in 0 .. MaxCount
  BY DEF MaxCount
<1> QED
  BY <1>1, <1>2 DEF ForgetSubscription, TypeOK

\* The data pipeline is well typed: in particular buffer holds only messages that
\* have an index, and the clock and the stamps never leave Nat.
THEOREM TypeCorrect == Spec => []TypeOK
<1> USE FanOutAssumption DEF FanOutAssumption
<1>1. Init => TypeOK
  <2> SUFFICES ASSUME Init PROVE TypeOK
    OBVIOUS
  <2>1. NoOptions \in Subscription
    BY DEF NoOptions, Subscription
  <2>2. NoUpdate \in [arrivalTime : Nat, field : Fields,
                      origin : Conns \cup {None}, sender : Conns \cup {None}]
    BY DEF NoUpdate
  <2>3. updates \in [Indexes -> [arrivalTime : Nat, field : Fields,
                      origin : Conns \cup {None}, sender : Conns \cup {None}]]
    BY <2>2 DEF Init
  <2>4. options \in [Conns -> Subscription] /\ foc \in [Conns -> [had : BOOLEAN, last : Int]]
    BY <2>1 DEF Init, NoElement
  <2>5. inMsgQueue \in Seq([conn : Conns, arrivalTime : Nat, field : Fields])
    BY DEF Init
  <2>6. /\ view \in [Conns -> [Fields -> Nat]]
        /\ received \in [Conns -> [Indexes -> 0 .. MaxCount]]
        /\ repeated \in [Conns -> SUBSET Indexes]
        /\ owed \in [Conns -> SUBSET Indexes] /\ late \in [Conns -> SUBSET Indexes]
        /\ stamp \in [Conns -> Nat \cup {None}] /\ msg \in [Fields -> Nat]
    BY DEF Init, MaxCount
  <2>7. msgIndex \in 0 .. MaxUpdates /\ buffer \subseteq 1 .. msgIndex
    BY DEF Init
  <2> QED
    BY <2>3, <2>4, <2>5, <2>6, <2>7 DEF Init, TypeOK
<1>2. TypeOK /\ [Next]_vars => TypeOK'
  <2> SUFFICES ASSUME TypeOK, [Next]_vars PROVE TypeOK'
    OBVIOUS
  <2> USE DEF channelVars, subVars, tickVars, history
  <2>1. CASE UNCHANGED vars
    BY <2>1 DEF vars, TypeOK
  <2>2. CASE Advance
    BY <2>2 DEF Advance, TypeOK
  <2>3. ASSUME NEW c \in Conns, Stamp(c) PROVE TypeOK'
    BY <2>3 DEF Stamp, TypeOK
  <2>4. ASSUME NEW c \in Conns, NEW f \in Fields, Enqueue(c, f) PROVE TypeOK'
    <3>1. stamp[c] \in Nat
      BY <2>4 DEF Enqueue, TypeOK
    <3>2. inMsgQueue' \in Seq([conn : Conns, arrivalTime : Nat, field : Fields])
      BY <2>4, <3>1, AppendProperties DEF Enqueue, TypeOK
    <3> QED
      BY <2>4, <3>2 DEF Enqueue, TypeOK
  <2>5. ASSUME NEW c \in Conns, Close(c) PROVE TypeOK'
    BY <2>5 DEF Close, TypeOK
  <2>6. ASSUME NEW c \in Conns, NEW o \in SubOptions, Subscribe(c, o) PROVE TypeOK'
    <3>1. o \in SubscriptionOptions
      OBVIOUS
    <3>2. now + o.delay \in Int /\ o.skipFirst \in BOOLEAN /\ o.interval \in Nat
      BY <3>1 DEF SubscriptionOptions, TypeOK
    <3>3. options' \in [Conns -> Subscription]
      BY <2>6, <3>1 DEF Subscribe, SubscriptionOptions, Subscription, TypeOK
    <3>4. foc' \in [Conns -> [had : BOOLEAN, last : Int]]
      BY <2>6, <3>2 DEF Subscribe, TypeOK
    <3>5. calls' \in Nat /\ maxFanOutInterval' \in Nat
      BY <2>6, <3>2 DEF Subscribe, MaySubscribe, TypeOK
    <3> QED
      BY <2>6, <3>3, <3>4, <3>5 DEF Subscribe, TypeOK
  <2>7. ASSUME NEW c \in Conns, NEW o \in SubOptions, Resubscribe(c, o) PROVE TypeOK'
    <3>1. o \in SubscriptionOptions
      OBVIOUS
    <3>2. options[c] \in Subscription
      BY DEF TypeOK
    <3>3. [interval |-> o.interval, delay |-> o.delay, access |-> o.access,
           skipSelf |-> o.skipSelf, skipFirst |-> o.skipFirst,
           mask |-> options[c].mask \cup o.mask, subTime |-> options[c].subTime] \in Subscription
      BY <3>1, <3>2 DEF SubscriptionOptions, Subscription
    <3>4. options' \in [Conns -> Subscription]
      BY <2>7, <3>3 DEF Resubscribe, TypeOK
    <3>5. calls' \in Nat
      BY <2>7 DEF Resubscribe, MaySubscribe, TypeOK
    <3> QED
      BY <2>7, <3>4, <3>5 DEF Resubscribe, TypeOK
  <2>8. ASSUME NEW c \in Conns, Unsubscribe(c) PROVE TypeOK'
    <3>1. ForgetSubscription({c})
      BY <2>8 DEF Unsubscribe, Leave
    <3>2. foc' \in [Conns -> [had : BOOLEAN, last : Int]]
      BY <2>8 DEF Unsubscribe, Leave, NoElement, TypeOK
    <3> QED
      BY <2>8, <3>1, <3>2, ForgetType DEF Unsubscribe, Leave, TypeOK
  <2>9. CASE DropUpdate
    <3>1. inMsgQueue' \in Seq([conn : Conns, arrivalTime : Nat, field : Fields])
      BY <2>9, HeadTailProperties DEF DropUpdate, Dequeue, TypeOK
    <3> QED
      BY <2>9, <3>1 DEF DropUpdate, Dequeue, TypeOK
  <2>10. CASE HandleUpdate
    <3> DEFINE m == Head(inMsgQueue)
               w == Writer(m.conn)
               u == [arrivalTime |-> m.arrivalTime, field |-> m.field,
                     origin |-> m.conn, sender |-> w]
    <3>1. /\ inMsgQueue' \in Seq([conn : Conns, arrivalTime : Nat, field : Fields])
          /\ m \in [conn : Conns, arrivalTime : Nat, field : Fields]
      BY <2>10, HeadTailProperties DEF HandleUpdate, Dequeue, TypeOK
    <3>2. w \in Conns
      BY <2>10, <3>1 DEF HandleUpdate, Writer, TypeOK
    <3> HIDE DEF m, w
    <3>3. StoreUpdate(m, w, msgIndex + 1, msgIndex + 1)
      BY <2>10 DEF HandleUpdate, OnUpdate, m, w
    <3>4. msgIndex + 1 \in Indexes /\ msgIndex' \in 0 .. MaxUpdates
      <4>1. msgIndex \in 0 .. MaxUpdates /\ msgIndex < MaxUpdates /\ msgIndex' = msgIndex + 1
        BY <2>10, <3>3 DEF HandleUpdate, StoreUpdate, TypeOK
      <4> QED
        BY <4>1 DEF Indexes
    <3>5. msg' \in [Fields -> Nat]
      BY <3>1, <3>3, <3>4 DEF StoreUpdate, TypeOK, Indexes
    <3>6. updates' \in [Indexes -> [arrivalTime : Nat, field : Fields,
                          origin : Conns \cup {None}, sender : Conns \cup {None}]]
      <4>1. u \in [arrivalTime : Nat, field : Fields,
                   origin : Conns \cup {None}, sender : Conns \cup {None}]
        BY <3>1, <3>2
      <4> QED
        BY <4>1, <3>3, <3>4 DEF StoreUpdate, TypeOK
    <3>7. buffer' \subseteq 1 .. msgIndex'
      <4>1. buffer' \subseteq buffer \cup {msgIndex + 1}
        BY <3>3, AfterOverflowShrinks DEF StoreUpdate
      <4>2. msgIndex' = msgIndex + 1
        BY <3>3 DEF StoreUpdate
      <4>3. msgIndex \in Nat /\ buffer \subseteq 1 .. msgIndex
        BY DEF TypeOK
      <4> QED
        BY <4>1, <4>2, <4>3
    <3>8. dropped' \subseteq Indexes
      <4>1. buffer \subseteq Indexes
        BY DEF TypeOK, Indexes
      <4> QED
        BY <4>1, <3>3, <3>4 DEF StoreUpdate, TypeOK
    <3>9. owed' \in [Conns -> SUBSET Indexes] /\ late' \in [Conns -> SUBSET Indexes]
      BY <3>3, <3>4 DEF StoreUpdate, TypeOK
    <3>10. handled' \in BOOLEAN
      BY <2>10 DEF HandleUpdate, Dequeue
    <3> QED
      BY <2>10, <3>1, <3>4, <3>5, <3>6, <3>7, <3>8, <3>9, <3>10 DEF HandleUpdate, TypeOK
  <2>11. CASE StartTickData
    BY <2>11 DEF StartTickData, TypeOK
  <2>12. ASSUME NEW c \in Conns, DropClosedElement(c) PROVE TypeOK'
    <3>1. foc' \in [Conns -> [had : BOOLEAN, last : Int]]
      BY <2>12 DEF DropClosedElement, NoElement, TypeOK
    <3> QED
      BY <2>12, <3>1 DEF DropClosedElement, TypeOK
  <2>13. ASSUME NEW c \in Conns, PassOver(c) PROVE TypeOK'
    BY <2>13 DEF PassOver, TypeOK
  <2>14. ASSUME NEW c \in Conns, FirstFanOut(c) PROVE TypeOK'
    <3>1. msg' \in [Fields -> Nat]
      BY <2>14 DEF FirstFanOut, Masked, TypeOK
    <3>2. view' \in [Conns -> [Fields -> Nat]] /\ whole' \subseteq Conns
      BY <2>14, <3>1 DEF FirstFanOut, TypeOK
    <3>3. foc' \in [Conns -> [had : BOOLEAN, last : Int]]
      BY <2>14 DEF FirstFanOut, TypeOK
    <3> QED
      BY <2>14, <3>1, <3>2, <3>3 DEF FirstFanOut, TypeOK
  <2>15. ASSUME NEW c \in Conns, FanOut(c) PROVE TypeOK'
    <3>1. FanOutWindow(c, NextFanOutTime(c), toVisit)
      BY <2>15 DEF FanOut
    <3>2. NextFanOutTime(c) \in Int
      BY DEF NextFanOutTime, TypeOK, Subscription
    <3>3. Merged(c, Selected(c)) \in [Fields -> Nat]
      BY MergedType, SelectedInWindow
    <3>4. view' \in [Conns -> [Fields -> Nat]]
      BY <3>1, <3>3 DEF FanOutWindow, TypeOK
    <3>5. received' \in [Conns -> [Indexes -> 0 .. MaxCount]]
      <4> DEFINE r == [i \in Indexes |-> IF i \in Selected(c) /\ received[c][i] < MaxCount
                                         THEN received[c][i] + 1 ELSE received[c][i]]
      <4>1. received' = [received EXCEPT ![c] = r]
        BY <3>1 DEF FanOutWindow
      <4>2. received \in [Conns -> [Indexes -> 0 .. MaxCount]]
        BY DEF TypeOK
      <4>3. r \in [Indexes -> 0 .. MaxCount]
        BY <4>2 DEF MaxCount
      <4> HIDE DEF r
      <4> QED
        BY <4>1, <4>2, <4>3
    <3>7. repeated' \in [Conns -> SUBSET Indexes]
      <4>1. Selected(c) \subseteq Indexes
        <5>1. Selected(c) \subseteq buffer
          BY SelectedInWindow
        <5>2. buffer \subseteq Indexes
          BY DEF TypeOK, Indexes
        <5> QED
          BY <5>1, <5>2
      <4> QED
        BY <3>1, <4>1 DEF FanOutWindow, TypeOK
    <3>6. foc' \in [Conns -> [had : BOOLEAN, last : Int]]
      BY <3>1, <3>2 DEF FanOutWindow, TypeOK
    <3> QED
      BY <3>1, <3>4, <3>5, <3>6, <3>7 DEF FanOutWindow, TypeOK
  <2>16. CASE TickConnections
    <3>1. ForgetSubscription(subscribed \cap closing)
      BY <2>16 DEF TickConnections
    <3> QED
      BY <2>16, <3>1, ForgetType DEF TickConnections, TypeOK
  <2> QED
    BY <2>1, <2>2, <2>3, <2>4, <2>5, <2>6, <2>7, <2>8, <2>9, <2>10, <2>11, <2>12, <2>13,
       <2>14, <2>15, <2>16 DEF Next, Tick, Environment
<1> QED
  BY <1>1, <1>2, PTL DEF Spec

\* What one window adds to the counts: every selected update was received now, and
\* counts as repeated if the window has no length.
LEMMA CountedInWindow ==
  ASSUME FanOutAssumption, TypeOK, NEW c \in Conns, FanOut(c)
  PROVE  /\ \A d \in Conns \ {c} : received'[d] = received[d] /\ repeated'[d] = repeated[d]
         /\ \A i \in Indexes : received[c][i] \in Nat /\ received'[c][i] \in Nat
         /\ \A i \in Indexes \ Selected(c) : received'[c][i] = received[c][i]
         /\ \A i \in Selected(c) :
              i \in Indexes /\ received'[c][i] > 0 /\ received'[c][i] <= received[c][i] + 1
         /\ options[c].interval = 0 => repeated'[c] = repeated[c] \cup Selected(c)
         /\ options[c].interval # 0 => repeated'[c] = repeated[c]
<1>1. FanOutWindow(c, NextFanOutTime(c), toVisit)
  BY DEF FanOut
<1>2. /\ \A i \in Indexes : received'[c][i] =
           IF i \in Selected(c) /\ received[c][i] < MaxCount THEN received[c][i] + 1
                                                             ELSE received[c][i]
      /\ \A d \in Conns \ {c} : received'[d] = received[d]
  BY <1>1 DEF FanOutWindow, TypeOK
<1>3. /\ repeated'[c] = IF options[c].interval = 0 THEN repeated[c] \cup Selected(c)
                                                    ELSE repeated[c]
      /\ \A d \in Conns \ {c} : repeated'[d] = repeated[d]
  BY <1>1 DEF FanOutWindow, TypeOK
<1>4. \A i \in Indexes : received[c][i] \in 0 .. MaxCount
  BY DEF TypeOK
<1>5. Selected(c) \subseteq Indexes
  <2>1. Selected(c) \subseteq buffer
    BY SelectedInWindow
  <2>2. buffer \subseteq Indexes
    BY FanOutAssumption DEF FanOutAssumption, TypeOK, Indexes
  <2> QED
    BY <2>1, <2>2
<1> QED
  BY <1>2, <1>3, <1>4, <1>5 DEF MaxCount

-----------------------------------------------------------------------------
(* The two halves of a subscription.                                       *)

\* Whatever closes, subscribes and unsubscribes while the channel ticks, a live
\* connection is a subscriber exactly when it has an element in the fan-out queue.
THEOREM SubscriptionsHaveElements == Spec => []SubscriptionHasElement
<1>1. Init => SubscriptionHasElement
  BY DEF Init, SubscriptionHasElement
<1>2. SubscriptionHasElement /\ [Next]_vars => SubscriptionHasElement'
  <2> SUFFICES ASSUME SubscriptionHasElement, [Next]_vars,
                      NEW x \in Conns, x \notin closing'
               PROVE  x \in subscribed' <=> x \in fanOutQueue'
    BY DEF SubscriptionHasElement
  <2> USE DEF SubscriptionHasElement, subVars
  <2>1. CASE UNCHANGED vars
    BY <2>1 DEF vars
  <2>2. CASE Advance
    BY <2>2 DEF Advance
  <2>3. ASSUME NEW c \in Conns, Stamp(c) \/ Close(c) \/ \E f \in Fields : Enqueue(c, f)
        PROVE  x \in subscribed' <=> x \in fanOutQueue'
    BY <2>3 DEF Stamp, Close, Enqueue
  <2>4. ASSUME NEW c \in Conns, NEW o \in SubOptions, Subscribe(c, o) \/ Resubscribe(c, o)
        PROVE  x \in subscribed' <=> x \in fanOutQueue'
    BY <2>4 DEF Subscribe, Resubscribe
  <2>5. ASSUME NEW c \in Conns, Unsubscribe(c)
        PROVE  x \in subscribed' <=> x \in fanOutQueue'
    BY <2>5 DEF Unsubscribe, Leave
  <2>6. CASE DropUpdate \/ HandleUpdate \/ StartTickData
    BY <2>6 DEF DropUpdate, HandleUpdate, StartTickData
  <2>7. ASSUME NEW c \in Conns, DropClosedElement(c)
        PROVE  x \in subscribed' <=> x \in fanOutQueue'
    BY <2>7 DEF DropClosedElement
  <2>8. ASSUME NEW c \in Conns, PassOver(c) \/ FirstFanOut(c) \/ FanOut(c)
        PROVE  x \in subscribed' <=> x \in fanOutQueue'
    BY <2>8 DEF PassOver, FirstFanOut, FanOut, FanOutWindow
  <2>9. CASE TickConnections
    BY <2>9 DEF TickConnections
  <2> QED
    BY <2>1, <2>2, <2>3, <2>4, <2>5, <2>6, <2>7, <2>8, <2>9 DEF Next, Tick, Environment
<1> QED
  BY <1>1, <1>2, PTL DEF Spec

-----------------------------------------------------------------------------
(* No update is fanned out more than twice to a subscription, save in      *)
(* windows of no length.                                                   *)

\* tickData looks only at elements of the fan-out queue.
VisitsElements == toVisit \subseteq fanOutQueue /\ (phase = "messages" => toVisit = {})

\* A subscription starts with nothing received.
FreshSubscription == \A c \in Conns \ subscribed : \A i \in Indexes : received[c][i] = 0

\* Where the last fan-out of c stands with respect to update i: an update received
\* lies behind it, one received twice strictly so.  The window of the next fan-out
\* is closed at its lower end, so only an update stamped exactly then can be
\* received again.
BehindLastFanOut(c, i) ==
  /\ received[c][i] > 0 => /\ i <= msgIndex /\ foc[c].had
                           /\ updates[i].arrivalTime <= foc[c].last
  /\ received[c][i] = 2 /\ i \notin repeated[c] => updates[i].arrivalTime < foc[c].last

\* The inductive invariant behind ReceivedAtMostTwice.
WindowInv ==
  /\ VisitsElements
  /\ FreshSubscription
  /\ \A c \in Conns : \A i \in Indexes \ repeated[c] : received[c][i] <= 2
  /\ \A c \in fanOutQueue : \A i \in Indexes : BehindLastFanOut(c, i)

windowVars ==
  <<phase, toVisit, fanOutQueue, subscribed, received, repeated, foc, msgIndex, updates>>

\* One window: an update in it lies at or after the last fan-out, hence was not
\* received twice before, and lies strictly behind the new one if it was received
\* once; in a window of no length it counts as repeated.
LEMMA WindowStep ==
  ASSUME FanOutAssumption, TypeOK, WindowInv, NEW c \in Conns, FanOut(c)
  PROVE  WindowInv'
<1> USE FanOutAssumption DEF FanOutAssumption
<1>1. FanOutWindow(c, NextFanOutTime(c), toVisit)
  BY DEF FanOut
<1>2. /\ phase' = phase /\ toVisit' = toVisit /\ fanOutQueue' = fanOutQueue
      /\ subscribed' = subscribed /\ msgIndex' = msgIndex /\ updates' = updates
      /\ c \in toVisit /\ foc[c].had /\ c \in subscribed
  BY <1>1 DEF FanOutWindow, channelVars, Due, HasAccess
<1>3. foc' = [foc EXCEPT ![c] = [had |-> TRUE, last |-> NextFanOutTime(c)]]
  BY <1>1 DEF FanOutWindow
<1>4. /\ foc[c].last \in Int /\ options[c].interval \in Nat
      /\ NextFanOutTime(c) = foc[c].last + options[c].interval
  BY DEF TypeOK, Subscription, NextFanOutTime
<1>5. ASSUME NEW d \in Conns, d # c
      PROVE  foc'[d] = foc[d] /\ received'[d] = received[d] /\ repeated'[d] = repeated[d]
  <2>1. d \in Conns \ {c}
    BY <1>5
  <2>2. foc'[d] = foc[d]
    BY <1>3, <2>1 DEF TypeOK
  <2>3. received'[d] = received[d] /\ repeated'[d] = repeated[d]
    BY <2>1, CountedInWindow
  <2> QED
    BY <2>2, <2>3
<1>6. foc'[c].had /\ foc'[c].last = NextFanOutTime(c)
  BY <1>3 DEF TypeOK
<1>7. ASSUME NEW i \in Indexes
      PROVE  BehindLastFanOut(c, i)' /\ (i \notin repeated'[c] => received'[c][i] <= 2)
  <2>1. /\ received[c][i] \in Nat /\ received'[c][i] \in Nat
        /\ updates[i].arrivalTime \in Nat /\ msgIndex \in Nat /\ i \in Nat
    <3>1. updates[i].arrivalTime \in Nat /\ msgIndex \in Nat
      BY DEF TypeOK
    <3> QED
      BY <3>1, CountedInWindow DEF Indexes
  <2>2. /\ received[c][i] > 0 => i <= msgIndex /\ updates[i].arrivalTime <= foc[c].last
        /\ i \notin repeated[c] => received[c][i] <= 2
        /\ received[c][i] = 2 /\ i \notin repeated[c] => updates[i].arrivalTime < foc[c].last
    BY <1>2 DEF WindowInv, VisitsElements, BehindLastFanOut
  <2>3. repeated[c] \subseteq repeated'[c]
    BY CountedInWindow
  <2>4. CASE i \notin Selected(c)
    <3>1. received'[c][i] = received[c][i]
      BY <2>4, CountedInWindow
    <3> QED
      BY <1>2, <1>4, <1>6, <2>1, <2>2, <2>3, <3>1 DEF BehindLastFanOut
  <2>5. CASE i \in Selected(c)
    <3>1. received'[c][i] <= received[c][i] + 1
      BY <2>5, CountedInWindow
    <3>2. /\ i \in buffer /\ foc[c].last <= updates[i].arrivalTime
          /\ updates[i].arrivalTime <= NextFanOutTime(c)
      BY <2>5, SelectedInWindow
    <3>3. i <= msgIndex
      BY <3>2 DEF TypeOK
    <3>4. CASE i \in repeated'[c]
      BY <1>2, <1>6, <3>2, <3>3, <3>4 DEF BehindLastFanOut
    <3>5. CASE i \notin repeated'[c]
      <4>1. options[c].interval # 0
        BY <2>5, <3>5, CountedInWindow
      <4>2. received[c][i] <= 2 /\ received[c][i] # 2
        BY <1>4, <2>1, <2>2, <2>3, <3>2, <3>5
      <4>3. received[c][i] = 1 => updates[i].arrivalTime = foc[c].last
        BY <1>4, <2>1, <2>2, <3>2
      <4>4. received'[c][i] = 2 => updates[i].arrivalTime < NextFanOutTime(c)
        BY <1>4, <2>1, <3>1, <4>1, <4>2, <4>3
      <4> QED
        BY <1>2, <1>6, <2>1, <3>1, <3>2, <3>3, <4>2, <4>4 DEF BehindLastFanOut
    <3> QED
      BY <3>4, <3>5
  <2> QED
    BY <2>4, <2>5
<1>8. VisitsElements'
  BY <1>2 DEF WindowInv, VisitsElements
<1>9. FreshSubscription'
  BY <1>2, <1>5 DEF WindowInv, FreshSubscription
<1>10. \A d \in Conns : \A i \in Indexes \ repeated'[d] : received'[d][i] <= 2
  BY <1>5, <1>7 DEF WindowInv
<1>11. \A d \in fanOutQueue' : \A i \in Indexes : BehindLastFanOut(d, i)'
  <2> SUFFICES ASSUME NEW d \in fanOutQueue, NEW i \in Indexes
               PROVE  BehindLastFanOut(d, i)'
    BY <1>2
  <2>1. CASE d = c
    BY <2>1, <1>7
  <2>2. CASE d # c
    <3>1. d \in Conns
      BY DEF TypeOK
    <3>2. BehindLastFanOut(d, i)
      BY DEF WindowInv
    <3> QED
      BY <1>2, <1>5, <2>2, <3>1, <3>2 DEF BehindLastFanOut
  <2> QED
    BY <2>1, <2>2
<1> QED
  BY <1>8, <1>9, <1>10, <1>11 DEF WindowInv

\* WindowInv holds in every state.
LEMMA WindowsKept == Spec => []WindowInv
<1> USE FanOutAssumption DEF FanOutAssumption
<1>1. Init => WindowInv
  BY DEF Init, WindowInv, VisitsElements, FreshSubscription
<1>2. TypeOK /\ WindowInv /\ [Next]_vars => WindowInv'
  <2> SUFFICES ASSUME TypeOK, WindowInv, [Next]_vars PROVE WindowInv'
    OBVIOUS
  <2> USE DEF channelVars, subVars, tickVars, history
  <2>1. ASSUME UNCHANGED windowVars PROVE WindowInv'
    BY <2>1 DEF windowVars, WindowInv, VisitsElements, FreshSubscription, BehindLastFanOut
  <2>2. CASE UNCHANGED vars
    BY <2>1, <2>2 DEF vars, windowVars
  <2>3. CASE Advance \/ DropUpdate
    BY <2>1, <2>3 DEF Advance, DropUpdate, Dequeue, windowVars
  <2>4. ASSUME NEW c \in Conns, \/ Stamp(c) \/ Close(c) \/ \E f \in Fields : Enqueue(c, f)
                                \/ \E o \in SubOptions : Resubscribe(c, o)
        PROVE  WindowInv'
    BY <2>1, <2>4 DEF Stamp, Close, Enqueue, Resubscribe, windowVars
  <2>5. ASSUME NEW c \in Conns, NEW o \in SubOptions, Subscribe(c, o) PROVE WindowInv'
    <3>1. /\ subscribed' = subscribed \cup {c} /\ fanOutQueue' = fanOutQueue \cup {c}
          /\ received' = received /\ msgIndex' = msgIndex /\ updates' = updates
          /\ repeated' = repeated
          /\ phase' = phase /\ toVisit' = toVisit /\ c \notin subscribed
          /\ \A d \in Conns \ {c} : foc'[d] = foc[d]
      BY <2>5 DEF Subscribe, TypeOK
    <3>2. \A i \in Indexes : received[c][i] = 0
      BY <3>1 DEF WindowInv, FreshSubscription
    <3>3. \A i \in Indexes : BehindLastFanOut(c, i)'
      BY <3>1, <3>2 DEF BehindLastFanOut
    <3>4. \A d \in fanOutQueue \ {c} : \A i \in Indexes : BehindLastFanOut(d, i)'
      BY <3>1 DEF WindowInv, BehindLastFanOut, TypeOK
    <3> QED
      BY <3>1, <3>3, <3>4 DEF WindowInv, VisitsElements, FreshSubscription
  <2>6. ASSUME NEW c \in Conns, Unsubscribe(c) PROVE WindowInv'
    <3>1. /\ fanOutQueue' = fanOutQueue \ {c} /\ subscribed' = subscribed \ {c}
          /\ msgIndex' = msgIndex /\ updates' = updates
          /\ phase' = phase /\ toVisit' = toVisit /\ phase = "messages"
      BY <2>6 DEF Unsubscribe, Leave, SubLockFree
    <3>2. /\ \A i \in Indexes : received'[c][i] = 0
          /\ \A d \in Conns \ {c} : /\ received'[d] = received[d] /\ foc'[d] = foc[d]
                                     /\ repeated'[d] = repeated[d]
      BY <2>6 DEF Unsubscribe, Leave, ForgetSubscription, TypeOK
    <3>3. \A d \in fanOutQueue' : \A i \in Indexes : BehindLastFanOut(d, i)'
      BY <3>1, <3>2 DEF WindowInv, BehindLastFanOut, TypeOK
    <3>4. \A d \in Conns : \A i \in Indexes \ repeated'[d] : received'[d][i] <= 2
      BY <3>2 DEF WindowInv
    <3>5. FreshSubscription'
      BY <3>1, <3>2 DEF WindowInv, FreshSubscription
    <3> QED
      BY <3>1, <3>3, <3>4, <3>5 DEF WindowInv, VisitsElements
  <2>7. CASE HandleUpdate
    <3> DEFINE n == msgIndex + 1
    <3>1. /\ msgIndex' = n /\ \A i \in Indexes \ {n} : updates'[i] = updates[i]
          /\ phase' = phase /\ toVisit' = toVisit /\ fanOutQueue' = fanOutQueue
          /\ subscribed' = subscribed /\ received' = received /\ repeated' = repeated
          /\ foc' = foc
      BY <2>7 DEF HandleUpdate, OnUpdate, StoreUpdate, TypeOK
    <3>2. ASSUME NEW d \in fanOutQueue, NEW i \in Indexes PROVE BehindLastFanOut(d, i)'
      <4>1. BehindLastFanOut(d, i) /\ i \in Nat /\ msgIndex \in Nat
        BY DEF WindowInv, Indexes, TypeOK
      <4>2. d \in Conns /\ received[d][i] \in Nat
        BY DEF TypeOK
      <4>3. CASE i = n
        <5>1. ~ (i <= msgIndex)
          BY <4>1, <4>3
        <5>2. received[d][i] = 0
          BY <4>1, <4>2, <5>1 DEF BehindLastFanOut
        <5> QED
          BY <3>1, <5>2 DEF BehindLastFanOut
      <4>4. CASE i # n
        <5>1. updates'[i] = updates[i]
          BY <3>1, <4>4
        <5>2. i <= msgIndex => i <= n
          BY <4>1
        <5> QED
          BY <3>1, <4>1, <5>1, <5>2 DEF BehindLastFanOut
      <4> QED
        BY <4>3, <4>4
    <3> QED
      BY <3>1, <3>2 DEF WindowInv, VisitsElements, FreshSubscription
  <2>8. CASE StartTickData
    BY <2>8 DEF StartTickData, WindowInv, VisitsElements, FreshSubscription, BehindLastFanOut
  <2>9. ASSUME NEW c \in Conns, DropClosedElement(c) PROVE WindowInv'
    <3>1. /\ fanOutQueue' = fanOutQueue \ {c} /\ toVisit' = toVisit \ {c}
          /\ phase' = phase /\ phase = "data" /\ received' = received /\ repeated' = repeated
          /\ subscribed' = subscribed /\ msgIndex' = msgIndex /\ updates' = updates
          /\ \A d \in Conns \ {c} : foc'[d] = foc[d]
      BY <2>9 DEF DropClosedElement, TypeOK
    <3>2. \A d \in fanOutQueue' : \A i \in Indexes : BehindLastFanOut(d, i)'
      BY <3>1 DEF WindowInv, BehindLastFanOut, TypeOK
    <3> QED
      BY <3>1, <3>2 DEF WindowInv, VisitsElements, FreshSubscription
  <2>10. ASSUME NEW c \in Conns, PassOver(c) PROVE WindowInv'
    BY <2>10 DEF PassOver, WindowInv, VisitsElements, FreshSubscription, BehindLastFanOut
  <2>11. ASSUME NEW c \in Conns, FirstFanOut(c) PROVE WindowInv'
    <3>1. /\ fanOutQueue' = fanOutQueue /\ toVisit' = toVisit /\ phase' = phase
          /\ subscribed' = subscribed /\ received' = received /\ repeated' = repeated
          /\ msgIndex' = msgIndex /\ updates' = updates
          /\ \A d \in Conns \ {c} : foc'[d] = foc[d]
          /\ ~foc[c].had /\ c \in toVisit
      BY <2>11 DEF FirstFanOut, TypeOK
    <3>2. ASSUME NEW i \in Indexes PROVE BehindLastFanOut(c, i)'
      <4>1. ~ (received[c][i] > 0) /\ received[c][i] \in Nat
        BY <3>1 DEF WindowInv, VisitsElements, BehindLastFanOut, TypeOK
      <4>2. received'[c][i] = 0
        BY <3>1, <4>1
      <4> QED
        BY <4>2 DEF BehindLastFanOut
    <3>3. \A d \in fanOutQueue \ {c} : \A i \in Indexes : BehindLastFanOut(d, i)'
      BY <3>1 DEF WindowInv, BehindLastFanOut, TypeOK
    <3> QED
      BY <3>1, <3>2, <3>3 DEF WindowInv, VisitsElements, FreshSubscription
  <2>12. ASSUME NEW c \in Conns, FanOut(c) PROVE WindowInv'
    BY <2>12, WindowStep
  <2>13. CASE TickConnections
    <3> DEFINE lost == subscribed \cap closing
    <3>1. /\ subscribed' = subscribed \ lost /\ fanOutQueue' = fanOutQueue
          /\ toVisit = {} /\ toVisit' = toVisit /\ phase' = "messages"
          /\ msgIndex' = msgIndex /\ updates' = updates /\ foc' = foc
      BY <2>13 DEF TickConnections
    <3>2. \A d \in Conns : \A i \in Indexes :
             /\ received'[d][i] = IF d \in lost THEN 0 ELSE received[d][i]
             /\ repeated'[d] = IF d \in lost THEN {} ELSE repeated[d]
      BY <2>13 DEF TickConnections, ForgetSubscription, TypeOK
    <3>3. ASSUME NEW d \in fanOutQueue, NEW i \in Indexes PROVE BehindLastFanOut(d, i)'
      <4>1. d \in Conns /\ BehindLastFanOut(d, i)
        BY DEF WindowInv, TypeOK
      <4>2. \/ received'[d][i] = 0
            \/ received'[d][i] = received[d][i] /\ repeated'[d] = repeated[d]
        BY <4>1, <3>2
      <4> QED
        BY <4>1, <4>2, <3>1 DEF BehindLastFanOut
    <3>4. FreshSubscription'
      BY <3>1, <3>2 DEF WindowInv, FreshSubscription
    <3>5. \A d \in Conns : \A i \in Indexes \ repeated'[d] : received'[d][i] <= 2
      BY <3>2 DEF WindowInv
    <3> QED
      BY <3>1, <3>3, <3>4, <3>5 DEF WindowInv, VisitsElements
  <2> QED
    BY <2>2, <2>3, <2>4, <2>5, <2>6, <2>7, <2>8, <2>9, <2>10, <2>11, <2>12, <2>13
       DEF Next, Tick, Environment
<1> QED
  BY <1>1, <1>2, TypeCorrect, PTL DEF Spec

\* The windows [last, next] of consecutive fan-outs share their end points and no
\* more: however far tickData has fallen behind, whatever is re-subscribed, an
\* update is fanned out at most twice to the same subscription, unless it was in a
\* window of no length, which only an interval of 0 makes.
THEOREM NoUpdateThrice == Spec => []ReceivedAtMostTwice
<1>1. TypeOK /\ WindowInv => ReceivedAtMostTwice
  BY DEF TypeOK, WindowInv, ReceivedAtMostTwice
<1> QED
  BY <1>1, WindowsKept, TypeCorrect, PTL

-----------------------------------------------------------------------------
(* Nobody is left behind by a tick.                                        *)

\* tickData leaves an element only when it is not due, or closed.
VisitedNotDue == phase = "data" => \A c \in fanOutQueue \ (closing \cup toVisit) : ~Due(c)

\* The cursor of tickData stays at an element until it is no longer due, and nobody
\* subscribes or changes options before subLock is given back: at the end of
\* tickData no live subscriber is owed another window.
THEOREM TickLeavesNobodyDue == Spec => []NobodyDueAfterTickData
<1>1. Init => VisitedNotDue
  BY DEF Init, VisitedNotDue
<1>2. TypeOK /\ VisitedNotDue /\ [Next]_vars => VisitedNotDue'
  <2> SUFFICES ASSUME TypeOK, VisitedNotDue, [Next]_vars, phase' = "data",
                      NEW x \in fanOutQueue', x \notin closing', x \notin toVisit'
               PROVE  ~Due(x)'
    BY DEF VisitedNotDue
  <2> USE DEF VisitedNotDue, Due, HasAccess, NextFanOutTime
  <2>1. CASE UNCHANGED vars
    BY <2>1 DEF vars, tickVars, subVars
  <2>2. CASE Advance
    BY <2>2 DEF Advance, tickVars, subVars
  <2>3. ASSUME NEW c \in Conns, Stamp(c) \/ Close(c) \/ \E f \in Fields : Enqueue(c, f)
        PROVE  ~Due(x)'
    BY <2>3 DEF Stamp, Close, Enqueue, tickVars, subVars
  <2>4. ASSUME NEW c \in Conns, NEW o \in SubOptions, Subscribe(c, o) \/ Resubscribe(c, o)
        PROVE  ~Due(x)'
    BY <2>4 DEF Subscribe, Resubscribe, MaySubscribe, SubLockFree, tickVars
  <2>5. ASSUME NEW c \in Conns, Unsubscribe(c) PROVE ~Due(x)'
    BY <2>5 DEF Unsubscribe, Leave, SubLockFree, tickVars
  <2>6. CASE DropUpdate \/ HandleUpdate
    BY <2>6 DEF DropUpdate, HandleUpdate, Dequeue
  <2>7. CASE StartTickData
    BY <2>7 DEF StartTickData, subVars
  <2>8. ASSUME NEW c \in Conns, DropClosedElement(c) PROVE ~Due(x)'
    BY <2>8 DEF DropClosedElement, TypeOK
  <2>9. ASSUME NEW c \in Conns, PassOver(c) PROVE ~Due(x)'
    BY <2>9 DEF PassOver, subVars
  <2>10. ASSUME NEW c \in Conns, FirstFanOut(c) PROVE ~Due(x)'
    BY <2>10 DEF FirstFanOut, tickVars, TypeOK
  <2>11. ASSUME NEW c \in Conns, FanOut(c) PROVE ~Due(x)'
    BY <2>11 DEF FanOut, FanOutWindow, TypeOK
  <2>12. CASE TickConnections
    BY <2>12 DEF TickConnections
  <2> QED
    BY <2>1, <2>2, <2>3, <2>4, <2>5, <2>6, <2>7, <2>8, <2>9, <2>10, <2>11, <2>12
       DEF Next, Tick, Environment
<1>3. VisitedNotDue => NobodyDueAfterTickData
  BY DEF VisitedNotDue, NobodyDueAfterTickData
<1> QED
  BY <1>1, <1>2, <1>3, TypeCorrect, PTL DEF Spec

-----------------------------------------------------------------------------
(* What handling one update does.                                          *)

\* The update m, written on behalf of w, becomes the update n.
Handled(m, w, n) ==
  /\ n = msgIndex + 1 /\ msgIndex' = n /\ n \in Nat /\ msgIndex \in Nat
  /\ inMsgQueue # <<>> /\ m = Head(inMsgQueue) /\ inMsgQueue' = Tail(inMsgQueue)
  /\ updates'[n] = [arrivalTime |-> m.arrivalTime, field |-> m.field,
                    origin |-> m.conn, sender |-> w]
  /\ \A i \in Indexes \ {n} : updates'[i] = updates[i]
  /\ msg'[m.field] = n /\ \A f \in Fields \ {m.field} : msg'[f] = msg[f]
  /\ buffer' = AfterOverflow(buffer \cup {n}, updates', m.arrivalTime)
  /\ dropped' = dropped \cup ((buffer \cup {n}) \ buffer')
  /\ \A c \in Conns :
       /\ owed'[c] = IF c \in subscribed /\ foc[c].had /\ c \notin {m.conn, w}
                     THEN owed[c] \cup {n} ELSE owed[c]
       /\ late'[c] = IF n \in owed'[c] /\ m.arrivalTime < foc[c].last
                     THEN late[c] \cup {n} ELSE late[c]
  /\ phase = "messages"
  /\ UNCHANGED <<now, stamp, phase, tickTime, toVisit, closing, owner,
                 maxFanOutInterval, subVars, whole, view, received>>

LEMMA HandledUpdate ==
  ASSUME FanOutAssumption, TypeOK, HandleUpdate
  PROVE  \E m \in [conn : Conns, arrivalTime : Nat, field : Fields] :
         \E w \in Conns : \E n \in Indexes : Handled(m, w, n)
<1> USE FanOutAssumption DEF FanOutAssumption
<1> DEFINE m == Head(inMsgQueue)
           w == Writer(m.conn)
           n == msgIndex + 1
<1>1. inMsgQueue # <<>> /\ inMsgQueue' = Tail(inMsgQueue) /\ phase = "messages"
  BY DEF HandleUpdate, Dequeue
<1>2. m \in [conn : Conns, arrivalTime : Nat, field : Fields]
  BY <1>1, HeadTailProperties DEF TypeOK
<1>3. w \in Conns
  BY <1>2 DEF HandleUpdate, Writer, TypeOK
<1>4. StoreUpdate(m, w, n, n)
  BY DEF HandleUpdate, OnUpdate
<1>5. n \in Indexes /\ n \in Nat /\ msgIndex \in Nat
  BY DEF HandleUpdate, Indexes, TypeOK
<1>6. UNCHANGED <<now, stamp, phase, tickTime, toVisit, closing, owner,
                  maxFanOutInterval, subVars, whole, view, received>>
  BY DEF HandleUpdate, subVars
<1>7. m = Head(inMsgQueue) /\ n = msgIndex + 1
  OBVIOUS
<1> HIDE DEF m, w, n
<1>8. /\ updates'[n] = [arrivalTime |-> m.arrivalTime, field |-> m.field,
                           origin |-> m.conn, sender |-> w]
      /\ \A i \in Indexes \ {n} : updates'[i] = updates[i]
      /\ msg'[m.field] = n /\ \A f \in Fields \ {m.field} : msg'[f] = msg[f]
  BY <1>2, <1>4, <1>5 DEF StoreUpdate, TypeOK
<1>9. Handled(m, w, n)
  BY <1>1, <1>4, <1>5, <1>6, <1>7, <1>8 DEF StoreUpdate, Handled
<1> QED
  BY <1>2, <1>3, <1>5, <1>9

-----------------------------------------------------------------------------
(* Stamps, and the buffer.                                                 *)

\* No update is stamped later than the present, nor, while tickData runs, later than
\* the time it was called with: the channel's goroutine handles none meanwhile.
StampsInPast ==
  /\ \A c \in Conns : stamp[c] # None => stamp[c] <= now
  /\ \A k \in 1 .. Len(inMsgQueue) : inMsgQueue[k].arrivalTime <= now
  /\ \A i \in 1 .. msgIndex : updates[i].arrivalTime <= now
  /\ phase = "data" => \A i \in 1 .. msgIndex : updates[i].arrivalTime <= tickTime

stampVars == <<now, stamp, inMsgQueue, msgIndex, updates, phase, tickTime>>

\* What a queue loses at its head.
LEMMA TailOfQueue ==
  ASSUME NEW S, NEW q \in Seq(S), q # <<>>
  PROVE  /\ Len(q) \in Nat \ {0} /\ Head(q) = q[1]
         /\ \A k \in 1 .. Len(Tail(q)) : k + 1 \in 1 .. Len(q) /\ Tail(q)[k] = q[k + 1]
<1>1. Len(q) \in Nat \ {0}
  BY EmptySeq
<1>2. Len(Tail(q)) = Len(q) - 1 /\ \A k \in 1 .. Len(Tail(q)) : Tail(q)[k] = q[k + 1]
  BY HeadTailProperties
<1> QED
  BY <1>1, <1>2

\* What is left in the queue of messages was one place further back in it.
LEMMA QueueTail ==
  ASSUME TypeOK, inMsgQueue # <<>>, inMsgQueue' = Tail(inMsgQueue)
  PROVE  /\ Len(inMsgQueue) \in Nat \ {0} /\ Head(inMsgQueue) = inMsgQueue[1]
         /\ \A k \in 1 .. Len(inMsgQueue') : /\ k + 1 \in 1 .. Len(inMsgQueue)
                                             /\ inMsgQueue'[k] = inMsgQueue[k + 1]
<1> DEFINE S == [conn : Conns, arrivalTime : Nat, field : Fields]
<1>1. inMsgQueue \in Seq(S)
  BY DEF TypeOK
<1> HIDE DEF S
<1>2. /\ Len(inMsgQueue) \in Nat \ {0} /\ Head(inMsgQueue) = inMsgQueue[1]
      /\ \A k \in 1 .. Len(Tail(inMsgQueue)) :
           k + 1 \in 1 .. Len(inMsgQueue) /\ Tail(inMsgQueue)[k] = inMsgQueue[k + 1]
  BY <1>1, TailOfQueue
<1> QED
  BY <1>2

\* Reading the clock, queueing and handling are three steps of two goroutines; in
\* whatever order they come, the stamps stay in the past.
LEMMA StampsKept == Spec => []StampsInPast
<1> USE FanOutAssumption DEF FanOutAssumption
<1>1. Init => StampsInPast
  BY DEF Init, StampsInPast
<1>2. TypeOK /\ StampsInPast /\ [Next]_vars => StampsInPast'
  <2> SUFFICES ASSUME TypeOK, StampsInPast, [Next]_vars PROVE StampsInPast'
    OBVIOUS
  <2> USE DEF channelVars, subVars, tickVars, history
  <2>1. ASSUME UNCHANGED stampVars PROVE StampsInPast'
    BY <2>1 DEF stampVars, StampsInPast
  <2>2. CASE UNCHANGED vars
    BY <2>1, <2>2 DEF vars, stampVars
  <2>3. ASSUME NEW c \in Conns,
               \/ Close(c) \/ Unsubscribe(c)
               \/ \E o \in SubOptions : Subscribe(c, o) \/ Resubscribe(c, o)
               \/ DropClosedElement(c) \/ PassOver(c) \/ FirstFanOut(c) \/ FanOut(c)
        PROVE  StampsInPast'
    BY <2>1, <2>3 DEF Close, Unsubscribe, Leave, Subscribe, Resubscribe, DropClosedElement,
                      PassOver, FirstFanOut, FanOut, FanOutWindow, stampVars
  <2>4. CASE Advance
    <3>1. /\ now' = now + 1 /\ now \in Nat
          /\ stamp' = stamp /\ inMsgQueue' = inMsgQueue /\ msgIndex' = msgIndex
          /\ updates' = updates /\ phase' = phase /\ tickTime' = tickTime
      BY <2>4 DEF Advance, TypeOK
    <3>2. \A c \in Conns : stamp[c] # None => stamp[c] \in Nat
      BY DEF TypeOK
    <3>3. \A k \in 1 .. Len(inMsgQueue) : inMsgQueue[k].arrivalTime \in Nat
      <4>1. \A k \in 1 .. Len(inMsgQueue) :
              inMsgQueue[k] \in [conn : Conns, arrivalTime : Nat, field : Fields]
        BY ElementOfSeq DEF TypeOK
      <4> QED
        BY <4>1
    <3>4. \A i \in 1 .. msgIndex : updates[i].arrivalTime \in Nat
      BY DEF TypeOK, Indexes
    <3> QED
      BY <3>1, <3>2, <3>3, <3>4 DEF StampsInPast
  <2>5. ASSUME NEW c \in Conns, Stamp(c) PROVE StampsInPast'
    BY <2>5 DEF Stamp, StampsInPast, TypeOK
  <2>6. ASSUME NEW c \in Conns, NEW f \in Fields, Enqueue(c, f) PROVE StampsInPast'
    <3> DEFINE e == [conn |-> c, arrivalTime |-> stamp[c], field |-> f]
    <3>1. /\ inMsgQueue' = Append(inMsgQueue, e) /\ stamp[c] <= now
          /\ \A d \in Conns : stamp'[d] # None => stamp'[d] = stamp[d]
          /\ now' = now /\ msgIndex' = msgIndex /\ updates' = updates
          /\ phase' = phase /\ tickTime' = tickTime
      BY <2>6 DEF Enqueue, StampsInPast, TypeOK
    <3>2. /\ inMsgQueue \in Seq([conn : Conns, arrivalTime : Nat, field : Fields])
          /\ e \in [conn : Conns, arrivalTime : Nat, field : Fields]
      BY <2>6 DEF Enqueue, TypeOK
    <3>3. \A k \in 1 .. Len(inMsgQueue') : \/ k \in 1 .. Len(inMsgQueue)
                                               /\ inMsgQueue'[k] = inMsgQueue[k]
                                           \/ inMsgQueue'[k] = e
      <4> DEFINE S == [conn : Conns, arrivalTime : Nat, field : Fields]
      <4> HIDE DEF e, S
      <4>1. /\ inMsgQueue' = Append(inMsgQueue, e) /\ inMsgQueue \in Seq(S) /\ e \in S
            /\ Len(inMsgQueue) \in Nat
        BY <3>1, <3>2 DEF S
      <4>2. /\ Len(inMsgQueue') = Len(inMsgQueue) + 1
            /\ \A k \in 1 .. Len(inMsgQueue) : inMsgQueue'[k] = inMsgQueue[k]
            /\ inMsgQueue'[Len(inMsgQueue) + 1] = e
        BY <4>1, AppendProperties
      <4> SUFFICES ASSUME NEW k \in 1 .. Len(inMsgQueue')
                   PROVE  \/ k \in 1 .. Len(inMsgQueue) /\ inMsgQueue'[k] = inMsgQueue[k]
                          \/ inMsgQueue'[k] = e
        OBVIOUS
      <4>3. CASE k = Len(inMsgQueue) + 1
        BY <4>2, <4>3
      <4>4. CASE k # Len(inMsgQueue) + 1
        <5>1. k \in 1 .. Len(inMsgQueue)
          BY <4>1, <4>2, <4>4
        <5> QED
          BY <4>2, <5>1
      <4> QED
        BY <4>3, <4>4
    <3> QED
      BY <3>1, <3>3 DEF StampsInPast
  <2>7. CASE DropUpdate
    <3>1. /\ inMsgQueue # <<>> /\ inMsgQueue' = Tail(inMsgQueue)
          /\ now' = now /\ stamp' = stamp /\ msgIndex' = msgIndex
          /\ updates' = updates /\ phase' = phase /\ tickTime' = tickTime
      BY <2>7 DEF DropUpdate, Dequeue
    <3>2. \A k \in 1 .. Len(inMsgQueue') : /\ k + 1 \in 1 .. Len(inMsgQueue)
                                           /\ inMsgQueue'[k] = inMsgQueue[k + 1]
      BY <3>1, QueueTail
    <3> QED
      BY <3>1, <3>2 DEF StampsInPast
  <2>8. CASE HandleUpdate
    <3>0. PICK m \in [conn : Conns, arrivalTime : Nat, field : Fields], w \in Conns,
               n \in Indexes : Handled(m, w, n)
      BY <2>8, HandledUpdate
    <3>1. /\ inMsgQueue # <<>> /\ m = Head(inMsgQueue) /\ inMsgQueue' = Tail(inMsgQueue)
          /\ n = msgIndex + 1 /\ msgIndex' = n /\ n \in Nat /\ msgIndex \in Nat
          /\ updates'[n].arrivalTime = m.arrivalTime
          /\ \A i \in Indexes \ {n} : updates'[i] = updates[i]
          /\ now' = now /\ stamp' = stamp /\ phase' = phase /\ phase = "messages"
      BY <3>0 DEF Handled
    <3>2. \A k \in 1 .. Len(inMsgQueue') : /\ k + 1 \in 1 .. Len(inMsgQueue)
                                           /\ inMsgQueue'[k] = inMsgQueue[k + 1]
      BY <3>1, QueueTail
    <3>3. m.arrivalTime <= now
      <4>1. Len(inMsgQueue) \in Nat \ {0} /\ m = inMsgQueue[1]
        BY <3>1, QueueTail
      <4> QED
        BY <4>1 DEF StampsInPast
    <3>4. \A i \in 1 .. n : i = n \/ (i \in 1 .. msgIndex /\ i \in Indexes \ {n})
      BY <3>1 DEF Indexes
    <3> QED
      BY <3>1, <3>2, <3>3, <3>4 DEF StampsInPast
  <2>9. CASE StartTickData \/ TickConnections
    BY <2>9 DEF StartTickData, TickConnections, StampsInPast
  <2> QED
    BY <2>2, <2>3, <2>4, <2>5, <2>6, <2>7, <2>8, <2>9 DEF Next, Tick, Environment
<1> QED
  BY <1>1, <1>2, TypeCorrect, PTL DEF Spec


\* The front of a non-empty buffer is its least index.
LEMMA OldestIsLeast ==
  ASSUME NEW S, S \subseteq Nat, S # {}
  PROVE  Oldest(S) \in S /\ \A j \in S : Oldest(S) <= j
<1>1. PICK k \in S : TRUE
  OBVIOUS
<1>2. PICK i \in S : \A j \in S : ~ (<<j, i>> \in OpToRel(<, Nat))
  BY <1>1, NatLessThanWellFounded, WFMin
<1>3. \A j \in S : i <= j
  <2> SUFFICES ASSUME NEW j \in S, j < i PROVE FALSE
    OBVIOUS
  <2> QED
    BY <1>2 DEF OpToRel
<1> QED
  BY <1>3 DEF Oldest

\* Updates leave the buffer in the order of their indexes: behind an update that is
\* in the buffer, all are.
BufferIsSuffix == \A j \in buffer : \A k \in j .. msgIndex : k \in buffer

LEMMA BufferKept == Spec => []BufferIsSuffix
<1> USE FanOutAssumption DEF FanOutAssumption
<1>1. Init => BufferIsSuffix
  BY DEF Init, BufferIsSuffix
<1>2. TypeOK /\ BufferIsSuffix /\ [Next]_vars => BufferIsSuffix'
  <2> SUFFICES ASSUME TypeOK, BufferIsSuffix, [Next]_vars PROVE BufferIsSuffix'
    OBVIOUS
  <2> USE DEF channelVars
  <2>1. ASSUME UNCHANGED <<buffer, msgIndex>> PROVE BufferIsSuffix'
    BY <2>1 DEF BufferIsSuffix
  <2>2. CASE UNCHANGED vars
    BY <2>1, <2>2 DEF vars
  <2>3. ASSUME NEW c \in Conns,
               \/ Stamp(c) \/ Close(c) \/ Unsubscribe(c) \/ \E f \in Fields : Enqueue(c, f)
               \/ \E o \in SubOptions : Subscribe(c, o) \/ Resubscribe(c, o)
               \/ DropClosedElement(c) \/ PassOver(c) \/ FirstFanOut(c) \/ FanOut(c)
        PROVE  BufferIsSuffix'
    BY <2>1, <2>3 DEF Stamp, Close, Unsubscribe, Leave, Enqueue, Subscribe, Resubscribe,
                      DropClosedElement, PassOver, FirstFanOut, FanOut, FanOutWindow
  <2>4. CASE Advance \/ DropUpdate \/ StartTickData \/ TickConnections
    BY <2>1, <2>4 DEF Advance, DropUpdate, StartTickData, TickConnections
  <2>5. CASE HandleUpdate
    <3>0. PICK m \in [conn : Conns, arrivalTime : Nat, field : Fields], w \in Conns,
               n \in Indexes : Handled(m, w, n)
      BY <2>5, HandledUpdate
    <3> DEFINE T == buffer \cup {n}
    <3>1. /\ n = msgIndex + 1 /\ msgIndex' = n /\ n \in Nat /\ msgIndex \in Nat
          /\ buffer' = AfterOverflow(T, updates', m.arrivalTime)
      BY <3>0 DEF Handled
    <3>2. buffer \subseteq Nat
      BY DEF TypeOK
    <3>3. \A j \in T : \A k \in j .. n : k \in T
      <4> SUFFICES ASSUME NEW j \in T, NEW k \in j .. n, k # n PROVE k \in buffer
        OBVIOUS
      <4>1. j # n /\ k \in j .. msgIndex
        BY <3>1, <3>2
      <4> QED
        BY <4>1 DEF BufferIsSuffix
    <3>5. T \subseteq Nat /\ T # {}
      BY <3>1, <3>2
    <3> HIDE DEF T
    <3>4. Oldest(T) \in T /\ \A j \in T : Oldest(T) <= j
      BY <3>5, OldestIsLeast
    <3>6. \A j \in T \ {Oldest(T)} : \A k \in j .. n : k \in T \ {Oldest(T)}
      BY <3>1, <3>3, <3>4, <3>5
    <3>7. buffer' = T \/ buffer' = T \ {Oldest(T)}
      BY <3>1 DEF AfterOverflow
    <3> QED
      BY <3>1, <3>3, <3>6, <3>7 DEF BufferIsSuffix
  <2> QED
    BY <2>2, <2>3, <2>4, <2>5 DEF Next, Tick, Environment
<1> QED
  BY <1>1, <1>2, TypeCorrect, PTL DEF Spec


-----------------------------------------------------------------------------
(* No update is skipped.                                                   *)

\* What is owed to c: updates handled since its first fan-out, of others than c,
\* that are still in the buffer or were dropped; all of them that lie strictly
\* behind the last fan-out and were handled in time were received.
Owed(c) ==
  /\ owed[c] \subseteq (1 .. msgIndex) \cap (buffer \cup dropped)
  /\ \A i \in owed[c] : updates[i].sender # c
  /\ c \notin closing /\ ~(c \in subscribed /\ foc[c].had) => owed[c] = {}
  /\ c \in subscribed \ closing => ReceivedAllOf(c, owed[c] \ late[c])
OwedInv == \A c \in Conns : Owed(c)

owedVars == <<msgIndex, updates, buffer, dropped, owed, late, closing, subscribed, foc, received>>

\* One window of c: what it leaves behind and did not skip for a later stamp is in it.
LEMMA OwedWindow ==
  ASSUME FanOutAssumption, TypeOK, OwedInv, NEW c \in Conns, FanOut(c)
  PROVE  OwedInv'
<1>1. FanOutWindow(c, NextFanOutTime(c), toVisit)
  BY DEF FanOut
<1>2. /\ msgIndex' = msgIndex /\ updates' = updates /\ buffer' = buffer /\ dropped' = dropped
      /\ owed' = owed /\ late' = late /\ closing' = closing /\ subscribed' = subscribed
  BY <1>1 DEF FanOutWindow, channelVars
<1>3. \A d \in Conns \ {c} : foc'[d] = foc[d] /\ received'[d] = received[d]
  BY <1>1, CountedInWindow DEF FanOutWindow, TypeOK
<1>4. /\ foc[c].had /\ foc'[c] = [had |-> TRUE, last |-> NextFanOutTime(c)]
      /\ \A i \in Indexes : received[c][i] > 0 \/ i \in Selected(c) => received'[c][i] > 0
  <2>1. foc[c].had /\ foc'[c] = [had |-> TRUE, last |-> NextFanOutTime(c)]
    BY <1>1 DEF FanOutWindow, TypeOK
  <2> QED
    BY <2>1, CountedInWindow
<1>5. c \in subscribed /\ c \notin closing
  BY <1>1 DEF FanOutWindow, Due, HasAccess
<1>6. ASSUME NEW d \in Conns, d # c PROVE Owed(d)'
  BY <1>2, <1>3, <1>6 DEF OwedInv, Owed, ReceivedAllOf, Overtaken
<1>7. ASSUME NEW i \in owed[c] \ late[c], updates[i].arrivalTime < NextFanOutTime(c)
      PROVE  received'[c][i] > 0 \/ i \in dropped \/ Overtaken(i)
  <2> SUFFICES ASSUME i \notin dropped, ~Overtaken(i) PROVE received'[c][i] > 0
    OBVIOUS
  <2>1. i \in Indexes /\ received[c][i] \in Nat /\ updates[i].arrivalTime \in Nat
    BY DEF TypeOK
  <2>2. i \in buffer /\ i \in 1 .. msgIndex /\ updates[i].sender # c
    BY DEF OwedInv, Owed
  <2>3. foc[c].last \in Int
    BY DEF TypeOK
  <2>4. CASE updates[i].arrivalTime < foc[c].last
    <3>1. received[c][i] > 0
      BY <1>5, <2>4 DEF OwedInv, Owed, ReceivedAllOf
    <3> QED
      BY <1>4, <2>1, <3>1
  <2>5. CASE foc[c].last <= updates[i].arrivalTime
    <3>1. NextFanOutTime(c) \in Int
      BY DEF TypeOK, Subscription, NextFanOutTime
    <3>2. i \in InWindow(c)
      BY <1>7, <2>1, <2>2, <2>5, <3>1 DEF InWindow
    <3>3. \A j \in InWindow(c) : j \in 1 .. msgIndex /\ j \in Indexes
      BY DEF InWindow, TypeOK, Indexes
    <3>4. \A j \in InWindow(c) : j < i => updates[j].arrivalTime <= updates[i].arrivalTime
      <4> SUFFICES ASSUME NEW j \in InWindow(c), j < i
                   PROVE  updates[j].arrivalTime <= updates[i].arrivalTime
        OBVIOUS
      <4>1. j \in 1 .. msgIndex /\ j \in Indexes
        BY <3>3
      <4>2. updates[j].arrivalTime \in Nat /\ msgIndex \in Nat
        BY <4>1 DEF TypeOK
      <4>3. j \in 1 .. i - 1
        BY <2>2, <4>1, <4>2
      <4> QED
        BY <2>1, <4>2, <4>3 DEF Overtaken
    <3>5. i \in Selected(c)
      BY <3>2, <3>4 DEF Selected
    <3> QED
      BY <1>4, <2>1, <3>5
  <2> QED
    BY <2>1, <2>3, <2>4, <2>5
<1>8. Owed(c)'
  <2>1. ReceivedAllOf(c, owed[c] \ late[c])'
    BY <1>2, <1>4, <1>7 DEF ReceivedAllOf, Overtaken
  <2>2. Owed(c)
    BY DEF OwedInv
  <2>3. c \in subscribed' /\ foc'[c].had
    BY <1>2, <1>4, <1>5
  <2>4. (owed[c] \subseteq (1 .. msgIndex) \cap (buffer \cup dropped))'
    BY <1>2, <2>2 DEF Owed
  <2>5. (\A i \in owed[c] : updates[i].sender # c)'
    BY <1>2, <2>2 DEF Owed
  <2> QED
    BY <2>1, <2>3, <2>4, <2>5 DEF Owed
<1> QED
  BY <1>6, <1>8 DEF OwedInv

\* One update handled: it lies at or after the last fan-out of everyone it is owed to,
\* or is late.
LEMMA OwedUpdate ==
  ASSUME FanOutAssumption, TypeOK, OwedInv, HandleUpdate
  PROVE  OwedInv'
<1> SUFFICES ASSUME NEW c \in Conns PROVE Owed(c)'
  BY DEF OwedInv
<1>0. PICK m \in [conn : Conns, arrivalTime : Nat, field : Fields], w \in Conns,
           n \in Indexes : Handled(m, w, n)
  BY HandledUpdate
<1>1. /\ n = msgIndex + 1 /\ n \in Nat /\ msgIndex \in Nat /\ msgIndex' = n
      /\ updates'[n] = [arrivalTime |-> m.arrivalTime, field |-> m.field,
                        origin |-> m.conn, sender |-> w]
      /\ \A i \in Indexes \ {n} : updates'[i] = updates[i]
      /\ dropped' = dropped \cup ((buffer \cup {n}) \ buffer')
      /\ owed'[c] = IF c \in subscribed /\ foc[c].had /\ c \notin {m.conn, w}
                    THEN owed[c] \cup {n} ELSE owed[c]
      /\ late'[c] = IF n \in owed'[c] /\ m.arrivalTime < foc[c].last
                    THEN late[c] \cup {n} ELSE late[c]
  BY <1>0 DEF Handled
<1>2. /\ closing' = closing /\ subscribed' = subscribed /\ foc' = foc /\ received' = received
  BY <1>0 DEF Handled, subVars
<1>3. \A i \in 1 .. msgIndex : i \in Indexes \ {n} /\ updates'[i] = updates[i] /\ i \in 1 .. n
  BY <1>1 DEF Indexes
<1>4. Owed(c)
  BY DEF OwedInv
<1>5. owed'[c] \subseteq 1 .. n
  <2>1. owed[c] \subseteq 1 .. msgIndex
    BY <1>4 DEF Owed
  <2>2. owed[c] \subseteq 1 .. n /\ n \in 1 .. n
    BY <1>1, <1>3, <2>1 DEF Indexes
  <2>3. owed'[c] \subseteq owed[c] \cup {n}
    BY <1>1
  <2> QED
    BY <2>2, <2>3
<1>6. owed'[c] \subseteq buffer' \cup dropped'
  BY <1>1, <1>4 DEF Owed
<1>7. \A i \in owed'[c] : updates'[i].sender # c
  BY <1>1, <1>3, <1>4 DEF Owed
<1>8. c \notin closing' /\ ~(c \in subscribed' /\ foc'[c].had) => owed'[c] = {}
  BY <1>1, <1>2, <1>4 DEF Owed
<1>9. ASSUME c \in subscribed \ closing, NEW i \in owed'[c] \ late'[c],
             updates'[i].arrivalTime < foc[c].last
      PROVE  received[c][i] > 0 \/ i \in dropped' \/ Overtaken(i)'
  <2>1. i # n
    BY <1>1, <1>9
  <2>2. i \in owed[c] \ late[c]
    BY <1>1, <2>1
  <2>3. i \in 1 .. msgIndex /\ updates'[i] = updates[i]
    BY <1>3, <1>4, <2>2 DEF Owed
  <2>4. Overtaken(i) => Overtaken(i)'
    <3>1. \A j \in 1 .. i - 1 : j \in 1 .. msgIndex
      BY <1>1, <2>3
    <3> QED
      BY <1>3, <2>3, <3>1 DEF Overtaken
  <2> QED
    BY <1>1, <1>4, <1>9, <2>2, <2>3, <2>4 DEF Owed, ReceivedAllOf
<1> QED
  BY <1>1, <1>2, <1>5, <1>6, <1>7, <1>8, <1>9 DEF Owed, ReceivedAllOf


\* OwedInv holds in every state.
LEMMA OwedKept == Spec => []OwedInv
<1> USE FanOutAssumption DEF FanOutAssumption
<1>1. Init => OwedInv
  BY DEF Init, OwedInv, Owed, ReceivedAllOf
<1>2. TypeOK /\ OwedInv /\ [Next]_vars => OwedInv'
  <2> SUFFICES ASSUME TypeOK, OwedInv, [Next]_vars PROVE OwedInv'
    OBVIOUS
  <2> USE DEF channelVars, subVars, tickVars, history
  <2>1. ASSUME UNCHANGED owedVars PROVE OwedInv'
    BY <2>1 DEF owedVars, OwedInv, Owed, ReceivedAllOf, Overtaken
  <2>2. CASE UNCHANGED vars
    BY <2>1, <2>2 DEF vars, owedVars
  <2>3. CASE Advance \/ DropUpdate \/ StartTickData
    BY <2>1, <2>3 DEF Advance, DropUpdate, StartTickData, owedVars
  <2>4. ASSUME NEW c \in Conns, \/ Stamp(c) \/ PassOver(c) \/ \E f \in Fields : Enqueue(c, f)
                                \/ \E o \in SubOptions : Resubscribe(c, o)
        PROVE  OwedInv'
    BY <2>1, <2>4 DEF Stamp, PassOver, Enqueue, Resubscribe, owedVars
  <2>5. ASSUME NEW c \in Conns, Close(c) PROVE OwedInv'
    <3>1. /\ closing \subseteq closing' /\ msgIndex' = msgIndex /\ updates' = updates
          /\ buffer' = buffer /\ dropped' = dropped /\ owed' = owed /\ late' = late
          /\ subscribed' = subscribed /\ foc' = foc /\ received' = received
      BY <2>5 DEF Close
    <3> QED
      BY <3>1 DEF OwedInv, Owed, ReceivedAllOf, Overtaken
  <2>6. ASSUME NEW c \in Conns, NEW o \in SubOptions, Subscribe(c, o) PROVE OwedInv'
    <3>1. /\ closing' = closing /\ msgIndex' = msgIndex /\ updates' = updates
          /\ buffer' = buffer /\ dropped' = dropped /\ owed' = owed /\ late' = late
          /\ subscribed' = subscribed \cup {c} /\ received' = received
          /\ c \notin subscribed /\ c \notin closing
          /\ \A d \in Conns \ {c} : foc'[d] = foc[d]
      BY <2>6 DEF Subscribe, MaySubscribe, TypeOK
    <3>2. owed[c] = {}
      BY <3>1 DEF OwedInv, Owed
    <3>3. Owed(c)'
      BY <3>1, <3>2 DEF Owed, ReceivedAllOf
    <3>4. ASSUME NEW d \in Conns, d # c PROVE Owed(d)'
      BY <3>1, <3>4 DEF OwedInv, Owed, ReceivedAllOf, Overtaken
    <3> QED
      BY <3>3, <3>4 DEF OwedInv
  <2>7. ASSUME NEW c \in Conns, Unsubscribe(c) PROVE OwedInv'
    <3>1. /\ closing' = closing /\ msgIndex' = msgIndex /\ updates' = updates
          /\ buffer' = buffer /\ dropped' = dropped /\ subscribed' = subscribed \ {c}
          /\ owed'[c] = {}
          /\ \A d \in Conns \ {c} : /\ foc'[d] = foc[d] /\ received'[d] = received[d]
                                    /\ owed'[d] = owed[d] /\ late'[d] = late[d]
      BY <2>7 DEF Unsubscribe, Leave, ForgetSubscription, TypeOK
    <3>2. Owed(c)'
      BY <3>1 DEF Owed
    <3>3. ASSUME NEW d \in Conns, d # c PROVE Owed(d)'
      BY <3>1, <3>3 DEF OwedInv, Owed, ReceivedAllOf, Overtaken
    <3> QED
      BY <3>2, <3>3 DEF OwedInv
  <2>8. CASE HandleUpdate
    BY <2>8, OwedUpdate
  <2>9. ASSUME NEW c \in Conns, DropClosedElement(c) PROVE OwedInv'
    <3>1. /\ closing' = closing /\ msgIndex' = msgIndex /\ updates' = updates
          /\ buffer' = buffer /\ dropped' = dropped /\ owed' = owed /\ late' = late
          /\ subscribed' = subscribed /\ received' = received /\ c \in closing
          /\ \A d \in Conns \ {c} : foc'[d] = foc[d]
      BY <2>9 DEF DropClosedElement, TypeOK
    <3>2. Owed(c)'
      BY <3>1 DEF OwedInv, Owed
    <3>3. ASSUME NEW d \in Conns, d # c PROVE Owed(d)'
      BY <3>1, <3>3 DEF OwedInv, Owed, ReceivedAllOf, Overtaken
    <3> QED
      BY <3>2, <3>3 DEF OwedInv
  <2>10. ASSUME NEW c \in Conns, FirstFanOut(c) PROVE OwedInv'
    <3>1. /\ closing' = closing /\ msgIndex' = msgIndex /\ updates' = updates
          /\ buffer' = buffer /\ dropped' = dropped /\ owed' = owed /\ late' = late
          /\ subscribed' = subscribed /\ received' = received
          /\ ~foc[c].had /\ c \notin closing
          /\ \A d \in Conns \ {c} : foc'[d] = foc[d]
      BY <2>10 DEF FirstFanOut, TypeOK
    <3>2. owed[c] = {}
      BY <3>1 DEF OwedInv, Owed
    <3>3. Owed(c)'
      BY <3>1, <3>2 DEF Owed, ReceivedAllOf
    <3>4. ASSUME NEW d \in Conns, d # c PROVE Owed(d)'
      BY <3>1, <3>4 DEF OwedInv, Owed, ReceivedAllOf, Overtaken
    <3> QED
      BY <3>3, <3>4 DEF OwedInv
  <2>11. ASSUME NEW c \in Conns, FanOut(c) PROVE OwedInv'
    BY <2>11, OwedWindow
  <2>12. CASE TickConnections
    <3>1. /\ closing' = closing /\ msgIndex' = msgIndex /\ updates' = updates
          /\ buffer' = buffer /\ dropped' = dropped /\ foc' = foc
          /\ subscribed' = subscribed \ (subscribed \cap closing)
      BY <2>12 DEF TickConnections
    <3>2. \A d \in Conns :
            IF d \in subscribed \cap closing
            THEN owed'[d] = {}
            ELSE owed'[d] = owed[d] /\ late'[d] = late[d] /\ received'[d] = received[d]
      BY <2>12 DEF TickConnections, ForgetSubscription
    <3>3. ASSUME NEW d \in Conns PROVE Owed(d)'
      <4>1. CASE d \in subscribed \cap closing
        BY <3>1, <3>2, <4>1 DEF Owed
      <4>2. CASE d \notin subscribed \cap closing
        BY <3>1, <3>2, <4>2 DEF OwedInv, Owed, ReceivedAllOf, Overtaken
      <4> QED
        BY <4>1, <4>2
    <3> QED
      BY <3>3 DEF OwedInv
  <2> QED
    BY <2>2, <2>3, <2>4, <2>5, <2>6, <2>7, <2>8, <2>9, <2>10, <2>11, <2>12
       DEF Next, Tick, Environment
<1> QED
  BY <1>1, <1>2, TypeCorrect, PTL DEF Spec

\* Whatever the intervals, the delays and the lateness of the ticks: an update that
\* was handled in time is never passed over by the windows of a live subscriber.
THEOREM NoUpdateSkipped == Spec => []OnTimeUpdatesReceived
<1>1. TypeOK /\ OwedInv => OnTimeUpdatesReceived
  BY DEF TypeOK, OwedInv, Owed, OnTimeUpdatesReceived
<1> QED
  BY <1>1, OwedKept, TypeCorrect, PTL

\* An update that overflows the buffer is older than maxFanOutInterval, so that a
\* live subscriber that has still to be sent it has a window that ended in the past.
THEOREM DropsAreOverdue == Spec => DropOnlyWhenOverdue
<1> USE FanOutAssumption DEF FanOutAssumption
<1>1. ASSUME TypeOK, StampsInPast, OwedInv, [Next]_vars,
             NEW i \in dropped' \ dropped, NEW c \in subscribed \ closing,
             i \in owed[c] \ late[c], received[c][i] = 0, ~Overtaken(i),
             options[c].interval <= maxFanOutInterval
      PROVE  NextFanOutTime(c) < now
  <2>1. CASE HandleUpdate
    <3>0. PICK m \in [conn : Conns, arrivalTime : Nat, field : Fields], w \in Conns,
               n \in Indexes : Handled(m, w, n)
      BY <1>1, <2>1, HandledUpdate
    <3> DEFINE T == buffer \cup {n}
    <3>1. /\ n = msgIndex + 1 /\ n \in Nat /\ msgIndex \in Nat
          /\ inMsgQueue # <<>> /\ m = Head(inMsgQueue)
          /\ \A j \in Indexes \ {n} : updates'[j] = updates[j]
          /\ buffer' = AfterOverflow(T, updates', m.arrivalTime)
          /\ dropped' = dropped \cup (T \ buffer')
      BY <3>0 DEF Handled
    <3> HIDE DEF T
    <3>2. i \in T /\ i \notin buffer'
      BY <1>1, <3>1
    <3>3. i = Oldest(T) /\ updates'[Oldest(T)].arrivalTime + maxFanOutInterval < m.arrivalTime
      BY <3>1, <3>2 DEF AfterOverflow
    <3>4. m.arrivalTime <= now
      <4>1. Len(inMsgQueue) \in Nat \ {0} /\ m = inMsgQueue[1]
        BY <1>1, <3>1, TailOfQueue DEF TypeOK
      <4> QED
        BY <1>1, <4>1 DEF StampsInPast
    <3>5. c \in Conns /\ Owed(c)
      BY <1>1 DEF TypeOK, OwedInv
    <3>6. i \in 1 .. msgIndex /\ i \in Indexes
      BY <1>1, <3>5 DEF Owed, TypeOK
    <3>7. i # n /\ updates'[i] = updates[i]
      BY <3>1, <3>6
    <3>8. ~(updates[i].arrivalTime < foc[c].last)
      BY <1>1, <3>5 DEF Owed, ReceivedAllOf
    <3>9. /\ foc[c].last \in Int /\ options[c].interval \in Nat /\ updates[i].arrivalTime \in Nat
          /\ maxFanOutInterval \in Nat /\ now \in Nat
      BY <1>1, <3>5, <3>6 DEF TypeOK, Subscription
    <3>10. m.arrivalTime \in Nat
      OBVIOUS
    <3> QED
      BY <1>1, <3>3, <3>4, <3>7, <3>8, <3>9, <3>10 DEF NextFanOutTime
  <2>2. CASE ~HandleUpdate
    <3>1. dropped' = dropped
      <4> USE DEF channelVars, subVars, tickVars, history
      <4>1. CASE UNCHANGED vars
        BY <4>1 DEF vars
      <4>2. CASE Advance \/ DropUpdate \/ StartTickData \/ TickConnections
        BY <4>2 DEF Advance, DropUpdate, StartTickData, TickConnections
      <4>3. ASSUME NEW d \in Conns,
                   \/ Stamp(d) \/ Close(d) \/ Unsubscribe(d) \/ \E f \in Fields : Enqueue(d, f)
                   \/ \E o \in SubOptions : Subscribe(d, o) \/ Resubscribe(d, o)
                   \/ DropClosedElement(d) \/ PassOver(d) \/ FirstFanOut(d) \/ FanOut(d)
            PROVE  dropped' = dropped
        BY <4>3 DEF Stamp, Close, Unsubscribe, Leave, Enqueue, Subscribe, Resubscribe,
                    DropClosedElement, PassOver, FirstFanOut, FanOut, FanOutWindow
      <4> QED
        BY <1>1, <2>2, <4>1, <4>2, <4>3 DEF Next, Tick, Environment
    <3> QED
      BY <1>1, <3>1
  <2> QED
    BY <2>1, <2>2
<1>2. TypeOK /\ StampsInPast /\ OwedInv /\ [Next]_vars =>
        [\A i \in dropped' \ dropped : \A c \in subscribed \ closing :
           (/\ i \in owed[c] \ late[c] /\ received[c][i] = 0 /\ ~Overtaken(i) /\ HasAccess(c)
            /\ options[c].interval <= maxFanOutInterval)
              => NextFanOutTime(c) < now]_vars
  BY <1>1
<1> QED
  BY <1>2, TypeCorrect, StampsKept, OwedKept, PTL DEF Spec, DropOnlyWhenOverdue

-----------------------------------------------------------------------------
(* What a subscriber sees.                                                 *)

\* A field of the channel data is unset or holds the newest update of it.
MsgIsNewest ==
  \A f \in Fields : msg[f] # 0 =>
    /\ msg[f] \in 1 .. msgIndex /\ updates[msg[f]].field = f
    /\ \A j \in 1 .. msgIndex : updates[j].field = f => j <= msg[f]

LEMMA NewestKept == Spec => []MsgIsNewest
<1> USE FanOutAssumption DEF FanOutAssumption
<1>1. Init => MsgIsNewest
  BY DEF Init, MsgIsNewest
<1>2. TypeOK /\ MsgIsNewest /\ [Next]_vars => MsgIsNewest'
  <2> SUFFICES ASSUME TypeOK, MsgIsNewest, [Next]_vars PROVE MsgIsNewest'
    OBVIOUS
  <2> USE DEF channelVars
  <2>1. ASSUME UNCHANGED <<msg, msgIndex, updates>> PROVE MsgIsNewest'
    BY <2>1 DEF MsgIsNewest
  <2>2. CASE UNCHANGED vars
    BY <2>1, <2>2 DEF vars
  <2>3. ASSUME NEW c \in Conns,
               \/ Stamp(c) \/ Close(c) \/ Unsubscribe(c) \/ \E f \in Fields : Enqueue(c, f)
               \/ \E o \in SubOptions : Subscribe(c, o) \/ Resubscribe(c, o)
               \/ DropClosedElement(c) \/ PassOver(c) \/ FanOut(c)
        PROVE  MsgIsNewest'
    BY <2>1, <2>3 DEF Stamp, Close, Unsubscribe, Leave, Enqueue, Subscribe, Resubscribe,
                      DropClosedElement, PassOver, FanOut, FanOutWindow
  <2>4. CASE Advance \/ DropUpdate \/ StartTickData \/ TickConnections
    BY <2>1, <2>4 DEF Advance, DropUpdate, StartTickData, TickConnections
  <2>5. ASSUME NEW c \in Conns, FirstFanOut(c) PROVE MsgIsNewest'
    BY <2>5 DEF FirstFanOut, Masked, MsgIsNewest
  <2>6. CASE HandleUpdate
    <3>0. PICK m \in [conn : Conns, arrivalTime : Nat, field : Fields], w \in Conns,
               n \in Indexes : Handled(m, w, n)
      BY <2>6, HandledUpdate
    <3>1. /\ n = msgIndex + 1 /\ n \in Nat /\ msgIndex \in Nat /\ msgIndex' = n
          /\ updates'[n].field = m.field /\ m.field \in Fields
          /\ \A j \in Indexes \ {n} : updates'[j] = updates[j]
          /\ msg'[m.field] = n /\ \A f \in Fields \ {m.field} : msg'[f] = msg[f]
      BY <3>0 DEF Handled
    <3>2. \A j \in 1 .. msgIndex : j \in 1 .. n /\ updates'[j] = updates[j]
      BY <3>1 DEF Indexes
    <3>3. \A j \in 1 .. n : j = n \/ j \in 1 .. msgIndex
      BY <3>1
    <3>4. ASSUME NEW f \in Fields, f # m.field, msg[f] # 0
          PROVE  /\ msg'[f] \in 1 .. n /\ updates'[msg'[f]].field = f
                 /\ \A j \in 1 .. n : updates'[j].field = f => j <= msg'[f]
      <4>1. msg'[f] = msg[f]
        BY <3>1, <3>4
      <4>2. /\ msg[f] \in 1 .. msgIndex /\ updates[msg[f]].field = f
            /\ \A j \in 1 .. msgIndex : updates[j].field = f => j <= msg[f]
        BY <3>4 DEF MsgIsNewest
      <4> QED
        BY <3>1, <3>2, <3>3, <3>4, <4>1, <4>2
    <3>5. /\ msg'[m.field] \in 1 .. n /\ updates'[msg'[m.field]].field = m.field
          /\ \A j \in 1 .. n : updates'[j].field = m.field => j <= msg'[m.field]
      BY <3>1
    <3> QED
      BY <3>1, <3>4, <3>5 DEF MsgIsNewest
  <2> QED
    BY <2>2, <2>3, <2>4, <2>5, <2>6 DEF Next, Tick, Environment
<1> QED
  BY <1>1, <1>2, TypeCorrect, PTL DEF Spec

\* What merging S leaves in a field: its newest update in S, or what was there.
LEMMA MergedField ==
  ASSUME TypeOK, NEW c \in Conns, NEW S, S \subseteq buffer, NEW f \in Fields,
         options[c].mask = {}
  PROVE  /\ (\A j \in S : updates[j].field # f) => Merged(c, S)[f] = view[c][f]
         /\ \A i \in S : (/\ updates[i].field = f
                          /\ \A j \in S : updates[j].field = f => j <= i)
                         => Merged(c, S)[f] = i
<1> DEFINE U == {j \in S : updates[j].field = f}
           acc == [g \in Fields |-> IF {j \in S : updates[j].field = g} = {} THEN 0
                                    ELSE Newest({j \in S : updates[j].field = g})]
<1>1. acc[f] = IF U = {} THEN 0 ELSE Newest(U)
  OBVIOUS
<1>2. Merged(c, S)[f] = IF acc[f] = 0 THEN view[c][f] ELSE acc[f]
  BY DEF Merged, Masked
<1>3. (\A j \in S : updates[j].field # f) => U = {}
  OBVIOUS
<1>4. ASSUME NEW i \in S, updates[i].field = f,
             \A j \in S : updates[j].field = f => j <= i
      PROVE  Merged(c, S)[f] = i
  <2>1. i \in U /\ \A j \in U : j <= i
    BY <1>4
  <2>2. U \subseteq 1 .. msgIndex /\ msgIndex \in Nat
    <3>1. buffer \subseteq 1 .. msgIndex /\ msgIndex \in Nat
      BY FanOutAssumption DEF TypeOK, FanOutAssumption
    <3> QED
      BY <3>1
  <2> HIDE DEF U, acc
  <2>3. Newest(U) \in U /\ \A j \in U : j <= Newest(U)
    BY <2>1, <2>2, NewestInSet
  <2>4. Newest(U) \in 1 .. msgIndex /\ i \in 1 .. msgIndex
    BY <2>1, <2>2, <2>3
  <2>5. Newest(U) = i /\ i # 0
    BY <2>1, <2>2, <2>3, <2>4
  <2> QED
    BY <1>1, <1>2, <2>1, <2>5
<1> QED
  BY <1>1, <1>2, <1>3, <1>4

\* No update was handled before one stamped earlier.
InOrder == \A i \in 1 .. msgIndex : ~Overtaken(i)

\* The channel's value i of field f is one that c must hold: c is sent the whole data
\* and did not write i itself, and it was sent i since or with the whole data.
MustHold(c, f) ==
  /\ c \in whole \ closing /\ options[c].mask = {} /\ InOrder /\ msg[f] # 0
  /\ c \notin {updates[msg[f]].sender, updates[msg[f]].origin}
  /\ msg[f] \notin owed[c] \/ received[c][msg[f]] > 0
Holds(c, f) == view[c][f] = msg[f] /\ updates[msg[f]].arrivalTime <= foc[c].last

\* The inductive invariant behind ViewIsChannelData.
ViewInv ==
  /\ whole \subseteq subscribed
  /\ \A c \in whole \ closing : foc[c].had
  /\ \A c \in Conns : \A f \in Fields : MustHold(c, f) => Holds(c, f)

viewVars == <<whole, subscribed, closing, foc, view, msg, msgIndex, updates, owed, received>>

\* One window: with the newest update of a field it holds, so an older one in the
\* window, which is stamped at the last fan-out too, does not undo it.
LEMMA ViewWindow ==
  ASSUME FanOutAssumption, TypeOK, BufferIsSuffix, MsgIsNewest, ViewInv,
         NEW c \in Conns, FanOut(c)
  PROVE  ViewInv'
<1>1. FanOutWindow(c, NextFanOutTime(c), toVisit)
  BY DEF FanOut
<1>2. /\ msgIndex' = msgIndex /\ updates' = updates /\ msg' = msg /\ owed' = owed
      /\ closing' = closing /\ subscribed' = subscribed /\ whole' = whole /\ options' = options
  BY <1>1 DEF FanOutWindow, channelVars
<1>3. \A d \in Conns \ {c} : foc'[d] = foc[d] /\ received'[d] = received[d] /\ view'[d] = view[d]
  BY <1>1, CountedInWindow DEF FanOutWindow, TypeOK
<1>4. /\ foc'[c] = [had |-> TRUE, last |-> NextFanOutTime(c)]
      /\ view'[c] = Merged(c, Selected(c))
      /\ \A i \in Indexes \ Selected(c) : received'[c][i] = received[c][i]
  <2>1. foc'[c] = [had |-> TRUE, last |-> NextFanOutTime(c)] /\ view'[c] = Merged(c, Selected(c))
    BY <1>1 DEF FanOutWindow, TypeOK
  <2> QED
    BY <2>1, CountedInWindow
<1>5. ASSUME NEW d \in Conns, d # c, NEW f \in Fields, MustHold(d, f)' PROVE Holds(d, f)'
  BY <1>2, <1>3, <1>5 DEF ViewInv, MustHold, Holds, InOrder, Overtaken
<1>6. ASSUME NEW f \in Fields, MustHold(c, f)' PROVE Holds(c, f)'
  <2> DEFINE i == msg[f]
  <2>0. i = msg[f]
    OBVIOUS
  <2> HIDE DEF i
  <2>1. /\ i \in 1 .. msgIndex /\ updates[i].field = f
        /\ \A j \in 1 .. msgIndex : updates[j].field = f => j <= i
        /\ InOrder /\ options[c].mask = {} /\ c # updates[i].sender
        /\ c \in whole \ closing
        /\ i \notin owed[c] \/ received'[c][i] > 0
    BY <1>2, <1>6, <2>0 DEF MsgIsNewest, MustHold, InOrder, Overtaken
  <2>2. /\ i \in Indexes /\ updates[i].arrivalTime \in Nat /\ msgIndex \in Nat
        /\ foc[c].last \in Int /\ options[c].interval \in Nat
    <3>1. i \in Indexes /\ msgIndex \in Nat
      BY <2>1 DEF TypeOK, Indexes
    <3> QED
      BY <3>1 DEF TypeOK, Subscription
  <2>3. \A j \in InWindow(c) : /\ j \in buffer /\ j \in 1 .. msgIndex /\ j \in Indexes
                               /\ updates[j].arrivalTime \in Nat
                               /\ foc[c].last <= updates[j].arrivalTime
    <3>1. \A j \in InWindow(c) : j \in buffer /\ foc[c].last <= updates[j].arrivalTime
      BY DEF InWindow
    <3>2. buffer \subseteq 1 .. msgIndex /\ buffer \subseteq Indexes
      BY DEF TypeOK, Indexes
    <3>3. \A j \in Indexes : updates[j].arrivalTime \in Nat
      BY DEF TypeOK
    <3> QED
      BY <3>1, <3>2, <3>3
  <2>4. Selected(c) \subseteq InWindow(c)
    BY DEF Selected
  <2>5. i \in Selected(c) => view'[c][f] = i
    BY <1>4, <2>1, <2>3, <2>4, MergedField
  <2>6. i \in Selected(c) => updates[i].arrivalTime <= NextFanOutTime(c)
    BY SelectedInWindow
  <2>7. CASE i \in Selected(c)
    BY <1>2, <1>4, <2>0, <2>5, <2>6, <2>7 DEF Holds
  <2>8. CASE i \notin Selected(c)
    <3>1. received'[c][i] = received[c][i]
      BY <1>4, <2>2, <2>8
    <3>2. view[c][f] = i /\ updates[i].arrivalTime <= foc[c].last
      BY <1>2, <1>6, <2>0, <2>1, <3>1 DEF ViewInv, MustHold, Holds
    <3>3. ASSUME NEW j \in Selected(c), updates[j].field = f PROVE FALSE
      <4>1. /\ j \in buffer /\ j \in 1 .. msgIndex /\ j <= i
            /\ updates[j].arrivalTime \in Nat
            /\ foc[c].last <= updates[j].arrivalTime
        BY <2>1, <2>3, <2>4, <3>3
      <4>2. i \in buffer
        BY <2>1, <2>2, <4>1 DEF BufferIsSuffix
      <4>3. \A k \in 1 .. msgIndex : (k < i /\ updates[k].arrivalTime \in Nat)
               => updates[k].arrivalTime <= updates[i].arrivalTime
        <5> SUFFICES ASSUME NEW k \in 1 .. msgIndex, k < i, updates[k].arrivalTime \in Nat
                     PROVE  updates[k].arrivalTime <= updates[i].arrivalTime
          OBVIOUS
        <5>1. ~Overtaken(i)
          BY <2>1 DEF InOrder
        <5>2. k \in 1 .. i - 1
          BY <2>1, <2>2
        <5> QED
          BY <2>2, <5>1, <5>2 DEF Overtaken
      <4>4. updates[i].arrivalTime = foc[c].last
        <5>1. j = i \/ j < i
          BY <2>1, <2>2, <4>1
        <5>2. updates[j].arrivalTime <= updates[i].arrivalTime
          BY <2>2, <4>1, <4>3, <5>1
        <5> QED
          BY <2>2, <3>2, <4>1, <5>2
      <4>5. i \in InWindow(c)
        BY <2>1, <2>2, <4>2, <4>4 DEF InWindow, NextFanOutTime
      <4>6. i \in Selected(c)
        BY <2>3, <4>3, <4>5 DEF Selected
      <4> QED
        BY <2>8, <4>6
    <3>4. view'[c][f] = view[c][f]
      <4>1. Selected(c) \subseteq buffer
        BY <2>3, <2>4
      <4> QED
        BY <1>4, <2>1, <3>3, <4>1, MergedField
    <3>5. updates[i].arrivalTime <= NextFanOutTime(c)
      BY <2>2, <3>2 DEF NextFanOutTime
    <3> QED
      BY <1>2, <1>4, <2>0, <3>2, <3>4, <3>5 DEF Holds
  <2> QED
    BY <2>7, <2>8
<1>7. whole' \subseteq subscribed' /\ \A d \in whole' \ closing' : foc'[d].had
  <2>1. subscribed \subseteq Conns
    BY DEF TypeOK
  <2> QED
    BY <1>2, <1>3, <1>4, <2>1 DEF ViewInv
<1> QED
  BY <1>5, <1>6, <1>7 DEF ViewInv


\* ViewInv holds in every state.
LEMMA ViewKept == Spec => []ViewInv
<1> USE FanOutAssumption DEF FanOutAssumption
<1>1. Init => ViewInv
  BY DEF Init, ViewInv, MustHold
<1>2. /\ TypeOK /\ StampsInPast /\ BufferIsSuffix /\ MsgIsNewest /\ WindowInv
      /\ SubscriptionHasElement /\ ViewInv /\ [Next]_vars
      => ViewInv'
  <2> SUFFICES ASSUME TypeOK, StampsInPast, BufferIsSuffix, MsgIsNewest, WindowInv,
                      SubscriptionHasElement, ViewInv, [Next]_vars
               PROVE  ViewInv'
    OBVIOUS
  <2> USE DEF channelVars, subVars, tickVars, history
  <2>0. whole \subseteq subscribed /\ subscribed \subseteq Conns
    BY DEF ViewInv, TypeOK
  <2>1. ASSUME UNCHANGED <<viewVars, options>> PROVE ViewInv'
    BY <2>1 DEF viewVars, ViewInv, MustHold, Holds, InOrder, Overtaken
  <2>2. CASE UNCHANGED vars
    BY <2>1, <2>2 DEF vars, viewVars
  <2>3. CASE Advance \/ DropUpdate \/ StartTickData
    BY <2>1, <2>3 DEF Advance, DropUpdate, StartTickData, viewVars
  <2>4. ASSUME NEW c \in Conns, Stamp(c) \/ PassOver(c) \/ \E f \in Fields : Enqueue(c, f)
        PROVE  ViewInv'
    BY <2>1, <2>4 DEF Stamp, PassOver, Enqueue, viewVars
  <2>5. ASSUME NEW c \in Conns, Close(c) PROVE ViewInv'
    <3>1. closing \subseteq closing' /\ UNCHANGED <<whole, subscribed, foc, view, msg, msgIndex,
                                                    updates, owed, received, options>>
      BY <2>5 DEF Close
    <3> QED
      BY <3>1 DEF ViewInv, MustHold, Holds, InOrder, Overtaken
  <2>6. ASSUME NEW c \in Conns, NEW o \in SubOptions, Resubscribe(c, o) PROVE ViewInv'
    <3>1. /\ UNCHANGED viewVars
          /\ \A d \in Conns : options'[d].mask = {} => options[d].mask = {}
      BY <2>6 DEF Resubscribe, viewVars, TypeOK
    <3> QED
      BY <3>1 DEF viewVars, ViewInv, MustHold, Holds, InOrder, Overtaken
  <2>7. ASSUME NEW c \in Conns, NEW o \in SubOptions, Subscribe(c, o) PROVE ViewInv'
    <3>1. /\ UNCHANGED <<whole, closing, view, msg, msgIndex, updates, owed, received>>
          /\ subscribed' = subscribed \cup {c} /\ c \notin subscribed
          /\ \A d \in Conns \ {c} : foc'[d] = foc[d] /\ options'[d] = options[d]
      BY <2>7 DEF Subscribe, TypeOK
    <3> QED
      BY <2>0, <3>1 DEF ViewInv, MustHold, Holds, InOrder, Overtaken
  <2>8. ASSUME NEW c \in Conns, Unsubscribe(c) PROVE ViewInv'
    <3>1. /\ UNCHANGED <<closing, msg, msgIndex, updates>>
          /\ subscribed' = subscribed \ {c} /\ whole' = whole \ {c}
          /\ \A d \in Conns \ {c} :
               /\ foc'[d] = foc[d] /\ options'[d] = options[d] /\ view'[d] = view[d]
               /\ owed'[d] = owed[d] /\ received'[d] = received[d]
      BY <2>8 DEF Unsubscribe, Leave, ForgetSubscription, TypeOK
    <3> QED
      BY <2>0, <3>1 DEF ViewInv, MustHold, Holds, InOrder, Overtaken
  <2>9. CASE HandleUpdate
    <3>0. PICK m \in [conn : Conns, arrivalTime : Nat, field : Fields], w \in Conns,
               n \in Indexes : Handled(m, w, n)
      BY <2>9, HandledUpdate
    <3>1. /\ n = msgIndex + 1 /\ n \in Nat /\ msgIndex \in Nat /\ msgIndex' = n
          /\ updates'[n] = [arrivalTime |-> m.arrivalTime, field |-> m.field,
                            origin |-> m.conn, sender |-> w]
          /\ \A j \in Indexes \ {n} : updates'[j] = updates[j]
          /\ msg'[m.field] = n /\ \A f \in Fields \ {m.field} : msg'[f] = msg[f]
          /\ \A d \in Conns :
               owed'[d] = IF d \in subscribed /\ foc[d].had /\ d \notin {m.conn, w}
                          THEN owed[d] \cup {n} ELSE owed[d]
          /\ UNCHANGED <<whole, subscribed, closing, foc, view, received, options>>
      BY <3>0 DEF Handled, subVars
    <3>2. \A j \in 1 .. msgIndex : /\ j \in 1 .. n /\ j # n /\ updates'[j] = updates[j]
                                   /\ \A k \in 1 .. j - 1 : k \in 1 .. msgIndex
      BY <3>1 DEF Indexes
    <3>3. InOrder' => InOrder
      BY <3>1, <3>2 DEF InOrder, Overtaken
    <3>4. ASSUME NEW c \in Conns, MustHold(c, m.field)' PROVE FALSE
      <4>1. c \in whole \ closing /\ c \notin {m.conn, w}
        BY <3>1, <3>4 DEF MustHold
      <4>2. n \in owed'[c]
        BY <2>0, <3>1, <4>1 DEF ViewInv
      <4>3. received[c][n] > 0
        BY <3>1, <3>4, <4>2 DEF MustHold
      <4>4. BehindLastFanOut(c, n)
        BY <2>0, <4>1 DEF SubscriptionHasElement, WindowInv
      <4> QED
        BY <3>1, <4>3, <4>4 DEF BehindLastFanOut
    <3>5. ASSUME NEW c \in Conns, NEW f \in Fields, f # m.field, MustHold(c, f)'
          PROVE  Holds(c, f)'
      <4>1. msg'[f] = msg[f] /\ msg[f] # 0
        BY <3>1, <3>5 DEF MustHold
      <4>2. msg[f] \in 1 .. msgIndex
        BY <4>1 DEF MsgIsNewest
      <4>3. updates'[msg[f]] = updates[msg[f]] /\ msg[f] # n
        BY <3>2, <4>2
      <4>4. msg[f] \in owed[c] => msg[f] \in owed'[c]
        BY <3>1
      <4>5. MustHold(c, f)
        BY <3>1, <3>3, <3>5, <4>1, <4>3, <4>4 DEF MustHold
      <4> QED
        BY <3>1, <4>1, <4>3, <4>5 DEF ViewInv, Holds
    <3> QED
      BY <3>1, <3>4, <3>5 DEF ViewInv
  <2>10. ASSUME NEW c \in Conns, DropClosedElement(c) PROVE ViewInv'
    <3>1. /\ UNCHANGED <<whole, subscribed, closing, view, msg, msgIndex, updates, owed,
                         received, options>>
          /\ c \in closing /\ \A d \in Conns \ {c} : foc'[d] = foc[d]
      BY <2>10 DEF DropClosedElement, TypeOK
    <3> QED
      BY <2>0, <3>1 DEF ViewInv, MustHold, Holds, InOrder, Overtaken
  <2>11. ASSUME NEW c \in Conns, FirstFanOut(c) PROVE ViewInv'
    <3>1. /\ UNCHANGED <<subscribed, closing, msgIndex, updates, owed, received, options>>
          /\ phase = "data" /\ c \in subscribed /\ whole' = whole \cup {c}
          /\ foc'[c] = [had |-> TRUE, last |-> tickTime] /\ view'[c] = msg'
          /\ \A d \in Conns \ {c} : foc'[d] = foc[d] /\ view'[d] = view[d]
      BY <2>11 DEF FirstFanOut, Due, HasAccess, TypeOK
    <3>2. \A f \in Fields : msg'[f] \in {msg[f], 0}
      BY <2>11 DEF FirstFanOut, Masked
    <3>3. ASSUME NEW d \in Conns, d # c, NEW f \in Fields, MustHold(d, f)' PROVE Holds(d, f)'
      <4>1. msg'[f] = msg[f]
        BY <3>2, <3>3 DEF MustHold
      <4>2. MustHold(d, f)
        BY <3>1, <3>3, <4>1 DEF MustHold, InOrder, Overtaken
      <4> QED
        BY <3>1, <3>3, <4>1, <4>2 DEF ViewInv, Holds
    <3>4. ASSUME NEW f \in Fields, MustHold(c, f)' PROVE Holds(c, f)'
      <4>1. msg'[f] = msg[f] /\ msg[f] # 0
        BY <3>2, <3>4 DEF MustHold
      <4>2. msg[f] \in 1 .. msgIndex
        BY <4>1 DEF MsgIsNewest
      <4>3. updates[msg[f]].arrivalTime <= tickTime
        BY <3>1, <4>2 DEF StampsInPast
      <4> QED
        BY <3>1, <4>1, <4>3 DEF Holds
    <3> QED
      BY <2>0, <3>1, <3>3, <3>4 DEF ViewInv
  <2>12. ASSUME NEW c \in Conns, FanOut(c) PROVE ViewInv'
    BY <2>12, ViewWindow
  <2>13. CASE TickConnections
    <3>1. /\ UNCHANGED <<closing, foc, msg, msgIndex, updates>>
          /\ subscribed' = subscribed \ (subscribed \cap closing)
          /\ whole' = whole \ (subscribed \cap closing)
          /\ \A d \in Conns \ (subscribed \cap closing) :
               /\ options'[d] = options[d] /\ view'[d] = view[d]
               /\ owed'[d] = owed[d] /\ received'[d] = received[d]
      BY <2>13 DEF TickConnections, ForgetSubscription
    <3> QED
      BY <2>0, <3>1 DEF ViewInv, MustHold, Holds, InOrder, Overtaken
  <2> QED
    BY <2>2, <2>3, <2>4, <2>5, <2>6, <2>7, <2>8, <2>9, <2>10, <2>11, <2>12, <2>13
       DEF Next, Tick, Environment
<1> QED
  BY <1>1, <1>2, TypeCorrect, StampsKept, BufferKept, NewestKept, WindowsKept,
     SubscriptionsHaveElements, PTL DEF Spec

\* A live subscriber that was sent the whole data and everything owed to it since
\* holds the channel's data, its own updates excepted: full state and windows leave
\* no gap, and a window that repeats an old update does not undo a newer one.
THEOREM CaughtUpHoldsData == Spec => []ViewIsChannelData
<1>1. ViewInv => ViewIsChannelData
  <2> SUFFICES ASSUME ViewInv, NEW c \in Conns, CaughtUp(c), NEW f \in Fields,
                      msg[f] # 0, c \notin {updates[msg[f]].sender, updates[msg[f]].origin}
               PROVE  view[c][f] = msg[f]
    BY DEF ViewIsChannelData
  <2>1. MustHold(c, f)
    BY DEF CaughtUp, MustHold, InOrder
  <2> QED
    BY <2>1 DEF ViewInv, Holds
<1> QED
  BY <1>1, ViewKept, PTL
=============================================================================

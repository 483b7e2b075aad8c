------------------------- MODULE FanOutQueueProofs -------------------------
(* Theorems about module FanOutQueue, for every value of its constants.    *)
EXTENDS FanOutQueue, FanOutProofs

-----------------------------------------------------------------------------
(* Lists.                                                                  *)

\* A list has each element once.
Distinct(q) == \A i, j \in DOMAIN q : q[i] = q[j] => i = j

\* q without the element at position p; q with c, at position a, moved to position k.
RemoveAt(q, p) == SubSeq(q, 1, p - 1) \o SubSeq(q, p + 1, Len(q))
MoveTo(q, a, k, c) ==
  SubSeq(q, 1, a - 1) \o SubSeq(q, a + 1, k) \o <<c>> \o SubSeq(q, k + 1, Len(q))

\* What is where after an element is removed.
LEMMA Removed ==
  ASSUME NEW S, NEW q \in Seq(S), NEW p \in 1 .. Len(q)
  PROVE  /\ RemoveAt(q, p) \in Seq(S) /\ Len(RemoveAt(q, p)) = Len(q) - 1
         /\ \A i \in 1 .. Len(q) - 1 : RemoveAt(q, p)[i] = IF i < p THEN q[i] ELSE q[i + 1]
<1> DEFINE r == RemoveAt(q, p)
           s == SubSeq(q, 1, p - 1)
           t == SubSeq(q, p + 1, Len(q))
<1>1. Len(q) \in Nat /\ p \in Int /\ \A i \in 1 .. Len(q) : q[i] \in S
  BY LenProperties, ElementOfSeq
<1>2. /\ s \in Seq(S) /\ Len(s) = p - 1
      /\ \A i \in 1 .. p - 1 : s[i] = q[i]
  <2>1. \A i \in 1 .. p - 1 : q[i] \in S
    BY <1>1
  <2>2. /\ s \in Seq(S) /\ Len(s) = IF 1 <= p - 1 THEN p - 1 - 1 + 1 ELSE 0
        /\ \A i \in 1 .. p - 1 - 1 + 1 : s[i] = q[1 + i - 1]
    BY <1>1, <2>1, SubSeqProperties
  <2> QED
    BY <1>1, <2>2
<1>3. /\ t \in Seq(S) /\ Len(t) = Len(q) - p
      /\ \A i \in 1 .. Len(q) - p : t[i] = q[p + i]
  <2>1. \A i \in p + 1 .. Len(q) : q[i] \in S
    BY <1>1
  <2>2. /\ t \in Seq(S)
        /\ Len(t) = IF p + 1 <= Len(q) THEN Len(q) - (p + 1) + 1 ELSE 0
        /\ \A i \in 1 .. Len(q) - (p + 1) + 1 : t[i] = q[p + 1 + i - 1]
    BY <1>1, <2>1, SubSeqProperties
  <2> QED
    BY <1>1, <2>2
<1> HIDE DEF s, t
<1>4. /\ s \o t \in Seq(S) /\ Len(s \o t) = Len(s) + Len(t)
      /\ \A i \in 1 .. Len(s) + Len(t) : (s \o t)[i] = IF i <= Len(s) THEN s[i] ELSE t[i - Len(s)]
  BY <1>2, <1>3, ConcatProperties
<1>5. r = s \o t
  BY DEF RemoveAt, s, t
<1> HIDE DEF r
<1>6. Len(r) = Len(q) - 1
  BY <1>1, <1>2, <1>3, <1>4, <1>5
<1>7. ASSUME NEW i \in 1 .. Len(q) - 1 PROVE r[i] = IF i < p THEN q[i] ELSE q[i + 1]
  <2>1. CASE i < p
    BY <1>1, <1>2, <1>3, <1>4, <1>5, <1>6, <2>1
  <2>2. CASE ~(i < p)
    <3>1. r[i] = t[i - (p - 1)]
      BY <1>1, <1>2, <1>3, <1>4, <1>5, <1>6, <2>2
    <3>2. i - (p - 1) \in 1 .. Len(q) - p /\ p + (i - (p - 1)) = i + 1
      BY <1>1, <1>6, <2>2
    <3> QED
      BY <1>3, <2>2, <3>1, <3>2
  <2> QED
    BY <2>1, <2>2
<1> QED
  BY <1>4, <1>5, <1>6, <1>7 DEF r

\* What is where after an element is moved.
LEMMA Moved ==
  ASSUME NEW S, NEW q \in Seq(S), NEW a \in 1 .. Len(q), NEW k \in a .. Len(q), NEW c \in S
  PROVE  /\ MoveTo(q, a, k, c) \in Seq(S) /\ Len(MoveTo(q, a, k, c)) = Len(q)
         /\ \A i \in 1 .. Len(q) :
              MoveTo(q, a, k, c)[i] = IF i < a \/ i > k THEN q[i]
                                      ELSE IF i = k THEN c ELSE q[i + 1]
<1> DEFINE r == MoveTo(q, a, k, c)
           s == SubSeq(q, 1, a - 1)
           t == SubSeq(q, a + 1, k)
           u == SubSeq(q, k + 1, Len(q))
           st == s \o t
           stc == st \o <<c>>
<1>1. /\ Len(q) \in Nat /\ a \in Int /\ k \in Int /\ 1 <= a /\ a <= k /\ k <= Len(q)
      /\ \A i \in 1 .. Len(q) : q[i] \in S
  BY LenProperties, ElementOfSeq
<1>2. /\ s \in Seq(S) /\ Len(s) = a - 1
      /\ \A i \in 1 .. a - 1 : s[i] = q[i]
  <2>1. \A i \in 1 .. a - 1 : q[i] \in S
    BY <1>1
  <2>2. /\ s \in Seq(S) /\ Len(s) = IF 1 <= a - 1 THEN a - 1 - 1 + 1 ELSE 0
        /\ \A i \in 1 .. a - 1 - 1 + 1 : s[i] = q[1 + i - 1]
    BY <1>1, <2>1, SubSeqProperties
  <2> QED
    BY <1>1, <2>2
<1>3. /\ t \in Seq(S) /\ Len(t) = k - a
      /\ \A i \in 1 .. k - a : t[i] = q[a + i]
  <2>1. \A i \in a + 1 .. k : q[i] \in S
    BY <1>1
  <2>2. /\ t \in Seq(S) /\ Len(t) = IF a + 1 <= k THEN k - (a + 1) + 1 ELSE 0
        /\ \A i \in 1 .. k - (a + 1) + 1 : t[i] = q[a + 1 + i - 1]
    BY <1>1, <2>1, SubSeqProperties
  <2> QED
    BY <1>1, <2>2
<1>4. /\ u \in Seq(S) /\ Len(u) = Len(q) - k
      /\ \A i \in 1 .. Len(q) - k : u[i] = q[k + i]
  <2>1. \A i \in k + 1 .. Len(q) : q[i] \in S
    BY <1>1
  <2>2. /\ u \in Seq(S)
        /\ Len(u) = IF k + 1 <= Len(q) THEN Len(q) - (k + 1) + 1 ELSE 0
        /\ \A i \in 1 .. Len(q) - (k + 1) + 1 : u[i] = q[k + 1 + i - 1]
    BY <1>1, <2>1, SubSeqProperties
  <2> QED
    BY <1>1, <2>2
<1>5. <<c>> \in Seq(S) /\ Len(<<c>>) = 1 /\ <<c>>[1] = c
  OBVIOUS
<1>6. r = stc \o u
  BY DEF MoveTo
<1> HIDE DEF r, s, t, u
<1>7. /\ st \in Seq(S) /\ Len(st) = k - 1
      /\ \A i \in 1 .. k - 1 : st[i] = IF i < a THEN q[i] ELSE q[i + 1]
  <2>1. /\ st \in Seq(S) /\ Len(st) = Len(s) + Len(t)
        /\ \A i \in 1 .. Len(s) + Len(t) : st[i] = IF i <= Len(s) THEN s[i] ELSE t[i - Len(s)]
    BY <1>2, <1>3, ConcatProperties
  <2> HIDE DEF st
  <2>2. Len(st) = k - 1
    BY <1>1, <1>2, <1>3, <2>1
  <2>3. ASSUME NEW i \in 1 .. k - 1 PROVE st[i] = IF i < a THEN q[i] ELSE q[i + 1]
    <3>1. CASE i < a
      BY <1>1, <1>2, <1>3, <2>1, <3>1
    <3>2. CASE ~(i < a)
      <4>1. st[i] = t[i - (a - 1)]
        BY <1>1, <1>2, <1>3, <2>1, <3>2
      <4>2. i - (a - 1) \in 1 .. k - a /\ a + (i - (a - 1)) = i + 1
        BY <1>1, <3>2
      <4> QED
        BY <1>3, <3>2, <4>1, <4>2
    <3> QED
      BY <3>1, <3>2
  <2> QED
    BY <2>1, <2>2, <2>3
<1> HIDE DEF st
<1>8. /\ stc \in Seq(S) /\ Len(stc) = k
      /\ \A i \in 1 .. k - 1 : stc[i] = st[i]
      /\ stc[k] = c
  <2>1. /\ stc \in Seq(S) /\ Len(stc) = Len(st) + Len(<<c>>)
        /\ \A i \in 1 .. Len(st) + Len(<<c>>) :
              stc[i] = IF i <= Len(st) THEN st[i] ELSE <<c>>[i - Len(st)]
    BY <1>5, <1>7, ConcatProperties
  <2> QED
    BY <1>1, <1>5, <1>7, <2>1
<1> HIDE DEF stc
<1>9. /\ r \in Seq(S) /\ Len(r) = Len(stc) + Len(u)
      /\ \A i \in 1 .. Len(stc) + Len(u) : r[i] = IF i <= Len(stc) THEN stc[i] ELSE u[i - Len(stc)]
  BY <1>4, <1>6, <1>8, ConcatProperties
<1>10. Len(r) = Len(q)
  BY <1>1, <1>4, <1>8, <1>9
<1>11. ASSUME NEW i \in 1 .. Len(q)
       PROVE  r[i] = IF i < a \/ i > k THEN q[i] ELSE IF i = k THEN c ELSE q[i + 1]
  <2>1. CASE i < k
    <3>1. r[i] = st[i] /\ i \in 1 .. k - 1
      BY <1>1, <1>8, <1>9, <1>10, <2>1
    <3> QED
      BY <1>1, <1>7, <2>1, <3>1
  <2>2. CASE i = k
    BY <1>1, <1>8, <1>9, <1>10, <2>2
  <2>3. CASE i > k
    <3>1. r[i] = u[i - k]
      BY <1>1, <1>4, <1>8, <1>9, <1>10, <2>3
    <3>2. i - k \in 1 .. Len(q) - k /\ k + (i - k) = i
      BY <1>1, <1>10, <2>3
    <3> QED
      BY <1>4, <2>3, <3>1, <3>2
  <2> QED
    BY <1>1, <2>1, <2>2, <2>3
<1> QED
  BY <1>9, <1>10, <1>11 DEF r

\* What is where after an element is added in front.
LEMMA Pushed ==
  ASSUME NEW S, NEW q \in Seq(S), NEW c \in S
  PROVE  /\ <<c>> \o q \in Seq(S) /\ Len(<<c>> \o q) = Len(q) + 1
         /\ \A i \in 1 .. Len(q) + 1 : (<<c>> \o q)[i] = IF i = 1 THEN c ELSE q[i - 1]
<1> DEFINE e == <<c>>
           r == e \o q
<1>1. e \in Seq(S) /\ Len(e) = 1 /\ e[1] = c /\ Len(q) \in Nat
  BY LenProperties
<1> HIDE DEF e
<1>2. /\ r \in Seq(S) /\ Len(r) = Len(e) + Len(q)
      /\ \A i \in 1 .. Len(e) + Len(q) : r[i] = IF i <= Len(e) THEN e[i] ELSE q[i - Len(e)]
  BY <1>1, ConcatProperties
<1> HIDE DEF r
<1>3. /\ Len(r) = Len(q) + 1
      /\ \A i \in 1 .. Len(q) + 1 : r[i] = IF i = 1 THEN c ELSE q[i - 1]
  BY <1>1, <1>2
<1> QED
  BY <1>2, <1>3 DEF r, e

\* The elements from position b on.
From(q, b) == {q[i] : i \in b .. Len(q)}

\* Removing an element removes nothing else, before or behind any position up to it.
LEMMA RemovedCovers ==
  ASSUME NEW S, NEW q \in Seq(S), Distinct(q), NEW p \in 1 .. Len(q)
  PROVE  /\ Distinct(RemoveAt(q, p))
         /\ \A b \in 1 .. p : From(RemoveAt(q, p), b) = From(q, b) \ {q[p]}
<1> DEFINE r == RemoveAt(q, p)
<1>1. /\ r \in Seq(S) /\ Len(r) = Len(q) - 1
      /\ \A i \in 1 .. Len(q) - 1 : r[i] = IF i < p THEN q[i] ELSE q[i + 1]
  BY Removed
<1> HIDE DEF r
<1>2. /\ Len(q) \in Nat /\ DOMAIN q = 1 .. Len(q) /\ DOMAIN r = 1 .. Len(q) - 1
      /\ 1 <= p /\ p <= Len(q) /\ p \in Int
  BY <1>1, LenProperties
<1>3. \A i, j \in 1 .. Len(q) : q[i] = q[j] => i = j
  BY <1>2 DEF Distinct
<1>4. Distinct(r)
  <2> SUFFICES ASSUME NEW i \in 1 .. Len(q) - 1, NEW j \in 1 .. Len(q) - 1, r[i] = r[j]
               PROVE  i = j
    BY <1>2 DEF Distinct
  <2> DEFINE x == IF i < p THEN i ELSE i + 1
             y == IF j < p THEN j ELSE j + 1
  <2>1. x \in 1 .. Len(q) /\ y \in 1 .. Len(q)
    BY <1>2
  <2>2. r[i] = q[x] /\ r[j] = q[y]
    BY <1>1
  <2>3. x = y
    <3> HIDE DEF x, y
    <3> QED
      BY <1>3, <2>1, <2>2
  <2> QED
    BY <1>2, <2>3
<1>5. ASSUME NEW b \in 1 .. p PROVE From(r, b) = From(q, b) \ {q[p]}
  <2>1. ASSUME NEW i \in b .. Len(r) PROVE r[i] \in From(q, b) \ {q[p]}
    <3> DEFINE x == IF i < p THEN i ELSE i + 1
    <3>1. x \in b .. Len(q) /\ x \in 1 .. Len(q) /\ x # p /\ i \in 1 .. Len(q) - 1
      BY <1>1, <1>2
    <3>2. r[i] = q[x]
      BY <1>1, <3>1
    <3> HIDE DEF x
    <3>3. q[x] # q[p]
      BY <1>3, <3>1
    <3> QED
      BY <3>1, <3>2, <3>3 DEF From
  <2>2. ASSUME NEW i \in b .. Len(q), i # p PROVE \E j \in b .. Len(r) : r[j] = q[i]
    <3> DEFINE x == IF i < p THEN i ELSE i - 1
    <3>1. x \in b .. Len(r) /\ x \in 1 .. Len(q) - 1
      BY <1>1, <1>2, <2>2
    <3>2. r[x] = q[i]
      <4>1. CASE i < p
        BY <1>1, <3>1, <4>1
      <4>2. CASE ~(i < p)
        <5>1. x = i - 1 /\ ~(x < p) /\ x + 1 = i
          BY <1>2, <2>2, <4>2
        <5> HIDE DEF x
        <5> QED
          BY <1>1, <3>1, <5>1
      <4> QED
        BY <4>1, <4>2
    <3> HIDE DEF x
    <3> QED
      BY <3>1, <3>2
  <2> QED
    BY <2>1, <2>2 DEF From
<1> QED
  BY <1>4, <1>5 DEF r

\* Moving an element back changes neither the elements nor what lies at or behind
\* its old place.
LEMMA MovedCovers ==
  ASSUME NEW S, NEW q \in Seq(S), Distinct(q), NEW a \in 1 .. Len(q), NEW k \in a .. Len(q),
         NEW c \in S, q[a] = c
  PROVE  /\ Distinct(MoveTo(q, a, k, c))
         /\ \A b \in 1 .. a : From(MoveTo(q, a, k, c), b) = From(q, b)
<1> DEFINE r == MoveTo(q, a, k, c)
<1>2. /\ r \in Seq(S) /\ Len(r) = Len(q)
      /\ \A i \in 1 .. Len(q) : r[i] = IF i < a \/ i > k THEN q[i]
                                       ELSE IF i = k THEN c ELSE q[i + 1]
  BY Moved
<1> HIDE DEF r
<1>3. /\ Len(q) \in Nat /\ DOMAIN q = 1 .. Len(q) /\ DOMAIN r = 1 .. Len(q)
      /\ 1 <= a /\ a <= k /\ k <= Len(q) /\ a \in Int /\ k \in Int
  BY <1>2, LenProperties
<1>4. \A i, j \in 1 .. Len(q) : q[i] = q[j] => i = j
  BY <1>3 DEF Distinct
<1> DEFINE x(i) == IF i < a \/ i > k THEN i ELSE IF i = k THEN a ELSE i + 1
<1>5. \A i \in 1 .. Len(q) : x(i) \in 1 .. Len(q) /\ r[i] = q[x(i)]
  BY <1>2, <1>3
<1>6. \A i, j \in 1 .. Len(q) : x(i) = x(j) => i = j
  BY <1>3
<1>7. \A b \in 1 .. a : \A i \in b .. Len(q) : x(i) \in b .. Len(q) /\ i \in 1 .. Len(q)
  BY <1>3
<1>8. \A b \in 1 .. a : \A i \in b .. Len(q) : \E j \in b .. Len(q) : x(j) = i
  <2> SUFFICES ASSUME NEW b \in 1 .. a, NEW i \in b .. Len(q)
               PROVE  \E j \in b .. Len(q) : x(j) = i
    OBVIOUS
  <2>1. CASE i < a \/ i > k
    BY <2>1
  <2>2. CASE i = a
    <3>1. k \in b .. Len(q) /\ x(k) = i
      BY <1>3, <2>2
    <3> QED
      BY <3>1
  <2>3. CASE a < i /\ i <= k
    <3>1. i - 1 \in b .. Len(q) /\ x(i - 1) = i
      BY <1>3, <2>3
    <3> QED
      BY <3>1
  <2> QED
    BY <1>3, <2>1, <2>2, <2>3
<1> HIDE DEF x
<1>9. Distinct(r)
  BY <1>3, <1>4, <1>5, <1>6 DEF Distinct
<1>10. \A b \in 1 .. a : From(r, b) = From(q, b)
  <2> SUFFICES ASSUME NEW b \in 1 .. a PROVE From(r, b) = From(q, b)
    OBVIOUS
  <2>1. \A i \in b .. Len(q) : r[i] = q[x(i)] /\ x(i) \in b .. Len(q)
    BY <1>5, <1>7
  <2>2. ASSUME NEW i \in b .. Len(q) PROVE \E j \in b .. Len(q) : r[j] = q[i]
    <3>1. PICK j \in b .. Len(q) : x(j) = i
      BY <1>8
    <3>2. r[j] = q[i]
      BY <1>5, <1>7, <3>1
    <3> QED
      BY <3>2
  <2>3. From(r, b) \subseteq From(q, b)
    BY <1>2, <2>1 DEF From
  <2>4. From(q, b) \subseteq From(r, b)
    <3> SUFFICES ASSUME NEW i \in b .. Len(q) PROVE q[i] \in From(r, b)
      BY DEF From
    <3>1. PICK j \in b .. Len(q) : r[j] = q[i]
      BY <2>2
    <3>2. j \in b .. Len(r)
      BY <1>2
    <3> QED
      BY <3>1, <3>2 DEF From
  <2> QED
    BY <2>3, <2>4
<1> QED
  BY <1>9, <1>10 DEF r

-----------------------------------------------------------------------------
(* The walk.                                                               *)

\* The list instead of the set: every step of the walk is a step of FanOut, so that
\* all theorems about FanOut hold for it too.
LEMMA WalkIsFanOut == QueueSpec => Spec
<1>1. QueueInit => Init
  BY DEF QueueInit
<1>2. [QueueNext]_<<vars, queueVars>> => [Next]_vars
  <2> SUFFICES ASSUME [QueueNext]_<<vars, queueVars>> PROVE [Next]_vars
    OBVIOUS
  <2>1. CASE UNCHANGED <<vars, queueVars>>
    BY <2>1
  <2>2. CASE QueueTick
    BY <2>2 DEF QueueTick, QueueStart, QueueEnd, QueueDropClosed, QueuePassOver,
                QueueFirstFanOut, QueueFanOut, Next, Tick
  <2>3. CASE QueueEnvironment
    BY <2>3 DEF QueueEnvironment, QueueSubscribe, QueueUnsubscribe, Next, Environment
  <2> QED
    BY <2>1, <2>2, <2>3 DEF QueueNext
<1> QED
  BY <1>1, <1>2, PTL DEF QueueSpec, Spec

\* A subscription without an element is one of a closed connection whose element this
\* tickData has dropped.
SubscribersQueued ==
  \A c \in subscribed : c \in fanOutQueue \/ (phase = "data" /\ c \in closing)

LEMMA QueuedKept == Spec => []SubscribersQueued
<1>1. Init => SubscribersQueued
  BY DEF Init, SubscribersQueued
<1>2. SubscribersQueued /\ [Next]_vars => SubscribersQueued'
  <2> SUFFICES ASSUME SubscribersQueued, [Next]_vars PROVE SubscribersQueued'
    OBVIOUS
  <2> USE DEF SubscribersQueued, subVars, tickVars
  <2>1. CASE UNCHANGED vars
    BY <2>1 DEF vars
  <2>2. CASE Advance \/ DropUpdate \/ HandleUpdate \/ StartTickData
    BY <2>2 DEF Advance, DropUpdate, HandleUpdate, Dequeue, StartTickData
  <2>3. ASSUME NEW c \in Conns, \/ Stamp(c) \/ Close(c) \/ \E f \in Fields : Enqueue(c, f)
                                \/ \E o \in SubOptions : Subscribe(c, o) \/ Resubscribe(c, o)
        PROVE  SubscribersQueued'
    BY <2>3 DEF Stamp, Close, Enqueue, Subscribe, Resubscribe
  <2>4. ASSUME NEW c \in Conns, Unsubscribe(c) PROVE SubscribersQueued'
    BY <2>4 DEF Unsubscribe, Leave
  <2>5. ASSUME NEW c \in Conns, DropClosedElement(c) PROVE SubscribersQueued'
    BY <2>5 DEF DropClosedElement
  <2>6. ASSUME NEW c \in Conns, PassOver(c) \/ FirstFanOut(c) \/ FanOut(c)
        PROVE  SubscribersQueued'
    BY <2>6 DEF PassOver, FirstFanOut, FanOut, FanOutWindow
  <2>7. CASE TickConnections
    BY <2>7 DEF TickConnections
  <2> QED
    BY <2>1, <2>2, <2>3, <2>4, <2>5, <2>6, <2>7 DEF Next, Tick, Environment
<1> QED
  BY <1>1, <1>2, PTL DEF Spec

\* The element moves to a place at or behind the cursor.
LEMMA PlaceIsBehind ==
  ASSUME queue \in Seq(Conns), foc' \in [Conns -> [had : BOOLEAN, last : Int]],
         NEW c \in Conns, AtCursor(c)
  PROVE  LastNotLater(c) \in cursor .. Len(queue)
<1> DEFINE P == {i \in 1 .. Len(queue) : foc'[queue[i]].last <= foc'[c].last}
<1>1. /\ Len(queue) \in Nat /\ DOMAIN queue = 1 .. Len(queue)
      /\ \A i \in 1 .. Len(queue) : queue[i] \in Conns
  BY LenProperties, ElementOfSeq
<1>2. \A i \in 1 .. Len(queue) : foc'[queue[i]].last \in Int /\ foc'[c].last \in Int
  BY <1>1
<1>3. cursor \in 1 .. Len(queue) /\ queue[cursor] = c
  BY <1>1 DEF AtCursor
<1>4. cursor \in P /\ P \subseteq 1 .. Len(queue)
  BY <1>2, <1>3
<1>5. PICK k \in P : \A j \in P : j <= k
  <2> HIDE DEF P
  <2> QED
    BY <1>1, <1>4, NewestInSet
<1>6. /\ k \in DOMAIN queue /\ foc'[queue[k]].last <= foc'[c].last
      /\ \A j \in k + 1 .. Len(queue) : foc'[queue[j]].last > foc'[c].last
  <2>1. k \in 1 .. Len(queue) /\ foc'[queue[k]].last <= foc'[c].last
    BY <1>4, <1>5
  <2>2. ASSUME NEW j \in k + 1 .. Len(queue) PROVE foc'[queue[j]].last > foc'[c].last
    <3>1. j \in 1 .. Len(queue) /\ ~(j <= k)
      BY <1>1, <2>1
    <3>2. j \notin P
      BY <1>5, <3>1
    <3> QED
      BY <1>2, <3>1, <3>2
  <2> QED
    BY <1>1, <2>1, <2>2
<1> DEFINE m == LastNotLater(c)
<1>7. /\ m \in DOMAIN queue
      /\ \A j \in m + 1 .. Len(queue) : foc'[queue[j]].last > foc'[c].last
  BY <1>6 DEF LastNotLater
<1> HIDE DEF m, P
<1>8. ~(cursor \in m + 1 .. Len(queue))
  <2>1. ~(foc'[queue[cursor]].last > foc'[c].last)
    BY <1>2, <1>3
  <2> QED
    BY <1>7, <2>1
<1> QED
  BY <1>1, <1>3, <1>7, <1>8 DEF m

\* WalkCoversQueue with the place of the cursor.
ListInv ==
  /\ queue \in Seq(Conns)
  /\ phase = "data" => cursor \in 1 .. Len(queue) + 1
  /\ Distinct(queue) /\ fanOutQueue = From(queue, 1)
  /\ phase = "data" => toVisit = From(queue, cursor)

listVars == <<phase, toVisit, fanOutQueue, queueVars>>

\* A fan-out moves its element back and leaves the cursor where it was.
LEMMA MoveBackKeeps ==
  ASSUME ListInv, TypeOK', NEW c \in Conns, AtCursor(c), MoveBack(c), phase = "data",
         phase' = phase, toVisit' = toVisit, fanOutQueue' = fanOutQueue
  PROVE  ListInv'
<1> DEFINE k == LastNotLater(c)
<1>1. queue \in Seq(Conns) /\ Distinct(queue) /\ cursor \in 1 .. Len(queue) + 1
  BY DEF ListInv
<1>2. k \in cursor .. Len(queue)
  BY <1>1, PlaceIsBehind DEF TypeOK
<1>3. cursor \in 1 .. Len(queue) /\ queue[cursor] = c
  BY <1>1, LenProperties DEF AtCursor
<1>4. queue' = MoveTo(queue, cursor, k, c) /\ cursor' = cursor
  BY DEF MoveBack, MoveTo
<1> HIDE DEF k
<1>5. /\ queue' \in Seq(Conns) /\ Len(queue') = Len(queue)
  BY <1>1, <1>2, <1>3, <1>4, Moved
<1>6. Distinct(queue') /\ \A b \in 1 .. cursor : From(queue', b) = From(queue, b)
  BY <1>1, <1>2, <1>3, <1>4, MovedCovers
<1>7. 1 \in 1 .. cursor /\ cursor \in 1 .. cursor
  BY <1>3
<1> QED
  BY <1>1, <1>4, <1>5, <1>6, <1>7 DEF ListInv

\* Where an element of the list is.
LEMMA PositionFound ==
  ASSUME queue \in Seq(Conns), Distinct(queue), NEW c \in From(queue, 1)
  PROVE  PositionOf(c) \in 1 .. Len(queue) /\ queue[PositionOf(c)] = c
<1>1. DOMAIN queue = 1 .. Len(queue)
  BY LenProperties
<1>2. PICK i \in DOMAIN queue : queue[i] = c
  BY <1>1 DEF From
<1> QED
  BY <1>1, <1>2 DEF PositionOf

\* However the last fan-out times lie, and whatever comes and goes meanwhile: moving
\* elements behind the cursor makes the walk of tickData neither skip an element nor
\* look for one that is gone, and no element gets into the list twice.
THEOREM WalkCovers == QueueSpec => []WalkCoversQueue
<1> USE FanOutAssumption DEF FanOutAssumption
<1>1. QueueInit => ListInv
  BY DEF QueueInit, Init, ListInv, Distinct, From
<1>2. /\ TypeOK /\ TypeOK' /\ SubscriptionHasElement /\ SubscribersQueued /\ VisitsElements
      /\ ListInv /\ [QueueNext]_<<vars, queueVars>>
      => ListInv'
  <2> SUFFICES ASSUME TypeOK, TypeOK', SubscriptionHasElement, SubscribersQueued,
                      VisitsElements, ListInv, [QueueNext]_<<vars, queueVars>>
               PROVE  ListInv'
    OBVIOUS
  <2> USE DEF channelVars, subVars, tickVars, history
  <2>0. /\ queue \in Seq(Conns) /\ Len(queue) \in Nat /\ DOMAIN queue = 1 .. Len(queue)
        /\ Distinct(queue) /\ fanOutQueue = From(queue, 1)
    BY LenProperties DEF ListInv
  <2>1. ASSUME UNCHANGED listVars PROVE ListInv'
    BY <2>1 DEF listVars, queueVars, ListInv, From, Distinct
  <2>2. CASE UNCHANGED <<vars, queueVars>>
    BY <2>1, <2>2 DEF vars, listVars
  <2>3. CASE (Advance \/ DropUpdate \/ HandleUpdate) /\ UNCHANGED queueVars
    BY <2>1, <2>3 DEF Advance, DropUpdate, HandleUpdate, Dequeue, listVars
  <2>4. ASSUME NEW c \in Conns, UNCHANGED queueVars,
               \/ Stamp(c) \/ Close(c) \/ \E f \in Fields : Enqueue(c, f)
               \/ \E o \in SubOptions : Resubscribe(c, o)
        PROVE  ListInv'
    BY <2>1, <2>4 DEF Stamp, Close, Enqueue, Resubscribe, listVars
  <2>5. ASSUME NEW c \in Conns, NEW o \in SubOptions, QueueSubscribe(c, o) PROVE ListInv'
    <3>1. /\ phase = "messages" /\ phase' = phase /\ c \notin fanOutQueue
          /\ fanOutQueue' = fanOutQueue \cup {c} /\ queue' = <<c>> \o queue
      BY <2>5 DEF QueueSubscribe, Subscribe, MaySubscribe, SubLockFree, SubscriptionHasElement
    <3> DEFINE q == <<c>> \o queue
    <3>3. /\ q \in Seq(Conns) /\ Len(q) = Len(queue) + 1
          /\ \A i \in 1 .. Len(queue) + 1 : q[i] = IF i = 1 THEN c ELSE queue[i - 1]
      BY <2>0, Pushed
    <3>4. queue' = q
      BY <3>1
    <3> HIDE DEF q
    <3>5. DOMAIN q = 1 .. Len(queue) + 1
      BY <3>3, LenProperties
    <3>6. \A i \in 1 .. Len(queue) : queue[i] # c
      BY <2>0, <3>1 DEF From
    <3>7. Distinct(q)
      <4> SUFFICES ASSUME NEW i \in 1 .. Len(queue) + 1, NEW j \in 1 .. Len(queue) + 1,
                          q[i] = q[j]
                   PROVE  i = j
        BY <3>5 DEF Distinct
      <4>1. CASE i = 1 /\ j = 1
        BY <4>1
      <4>2. CASE i = 1 /\ j # 1
        BY <2>0, <3>3, <3>6, <4>2
      <4>3. CASE i # 1 /\ j = 1
        BY <2>0, <3>3, <3>6, <4>3
      <4>4. CASE i # 1 /\ j # 1
        <5>1. i - 1 \in DOMAIN queue /\ j - 1 \in DOMAIN queue /\ queue[i - 1] = queue[j - 1]
          BY <2>0, <3>3, <4>4
        <5>2. i - 1 = j - 1
          BY <2>0, <5>1 DEF Distinct
        <5> QED
          BY <2>0, <5>2
      <4> QED
        BY <4>1, <4>2, <4>3, <4>4
    <3>8. From(q, 1) = From(queue, 1) \cup {c}
      <4>1. \A i \in 1 .. Len(queue) + 1 : i # 1 => i - 1 \in 1 .. Len(queue)
        BY <2>0
      <4>2. From(q, 1) \subseteq From(queue, 1) \cup {c}
        BY <3>3, <4>1 DEF From
      <4>3. ASSUME NEW i \in 1 .. Len(queue) PROVE queue[i] \in From(q, 1)
        <5>1. i + 1 \in 1 .. Len(q) /\ q[i + 1] = queue[i]
          BY <2>0, <3>3
        <5> QED
          BY <5>1 DEF From
      <4>4. c \in From(q, 1)
        <5>1. 1 \in 1 .. Len(q) /\ q[1] = c
          BY <2>0, <3>3
        <5> QED
          BY <5>1 DEF From
      <4> QED
        BY <4>2, <4>3, <4>4 DEF From
    <3> QED
      BY <2>0, <3>1, <3>3, <3>4, <3>7, <3>8 DEF ListInv
  <2>6. ASSUME NEW c \in Conns, QueueUnsubscribe(c) PROVE ListInv'
    <3>1. /\ phase = "messages" /\ phase' = phase /\ c \in fanOutQueue
          /\ fanOutQueue' = fanOutQueue \ {c} /\ queue' = RemoveAt(queue, PositionOf(c))
      BY <2>6 DEF QueueUnsubscribe, Unsubscribe, Leave, SubLockFree, SubscribersQueued,
                  Without, RemoveAt
    <3> DEFINE p == PositionOf(c)
    <3>2. p \in 1 .. Len(queue) /\ queue[p] = c
      BY <2>0, <3>1, PositionFound
    <3> HIDE DEF p
    <3>3. queue' \in Seq(Conns)
      BY <2>0, <3>1, <3>2, Removed DEF p
    <3>4. Distinct(queue') /\ From(queue', 1) = From(queue, 1) \ {c}
      <4>1. 1 \in 1 .. p
        BY <3>2
      <4>2. queue' = RemoveAt(queue, p)
        BY <3>1 DEF p
      <4> QED
        BY <2>0, <3>2, <4>1, <4>2, RemovedCovers
    <3> QED
      BY <2>0, <3>1, <3>3, <3>4 DEF ListInv
  <2>7. CASE QueueStart
    <3>1. /\ phase' = "data" /\ toVisit' = fanOutQueue /\ fanOutQueue' = fanOutQueue
          /\ cursor' = 1 /\ queue' = queue
      BY <2>7 DEF QueueStart, StartTickData
    <3> QED
      BY <2>0, <3>1 DEF ListInv, From, Distinct
  <2>8. ASSUME NEW c \in Conns, QueueDropClosed(c) PROVE ListInv'
    <3>1. /\ phase = "data" /\ phase' = phase
          /\ fanOutQueue' = fanOutQueue \ {c} /\ toVisit' = toVisit \ {c}
          /\ queue' = RemoveAt(queue, PositionOf(c)) /\ cursor' = cursor
          /\ cursor \in 1 .. Len(queue) /\ queue[cursor] = c
      BY <2>0, <2>8 DEF QueueDropClosed, DropClosedElement, Without, RemoveAt, AtCursor
    <3>2. PositionOf(c) = cursor
      <4>1. c \in From(queue, 1)
        BY <2>0, <3>1 DEF From
      <4>2. PositionOf(c) \in 1 .. Len(queue) /\ queue[PositionOf(c)] = c
        BY <2>0, <4>1, PositionFound
      <4> QED
        BY <2>0, <3>1, <4>2 DEF Distinct
    <3>3. queue' \in Seq(Conns) /\ Len(queue') = Len(queue) - 1
      BY <2>0, <3>1, <3>2, Removed
    <3>4. /\ Distinct(queue') /\ From(queue', 1) = From(queue, 1) \ {c}
          /\ From(queue', cursor) = From(queue, cursor) \ {c}
      <4>1. 1 \in 1 .. cursor /\ cursor \in 1 .. cursor
        BY <3>1
      <4>2. queue' = RemoveAt(queue, cursor)
        BY <3>1, <3>2
      <4> QED
        BY <2>0, <3>1, <4>1, <4>2, RemovedCovers
    <3>5. cursor' \in 1 .. Len(queue') + 1
      BY <2>0, <3>1, <3>3
    <3>6. toVisit = From(queue, cursor)
      BY <3>1 DEF ListInv
    <3> QED
      BY <2>0, <3>1, <3>3, <3>4, <3>5, <3>6 DEF ListInv
  <2>9. ASSUME NEW c \in Conns, QueuePassOver(c) PROVE ListInv'
    <3>1. /\ phase = "data" /\ phase' = phase
          /\ fanOutQueue' = fanOutQueue /\ toVisit' = toVisit \ {c}
          /\ queue' = queue /\ cursor' = cursor + 1
          /\ cursor \in 1 .. Len(queue) /\ queue[cursor] = c
      BY <2>0, <2>9 DEF QueuePassOver, PassOver, AtCursor
    <3>2. toVisit = From(queue, cursor)
      BY <3>1 DEF ListInv
    <3>3. From(queue, cursor + 1) = From(queue, cursor) \ {c}
      <4>1. \A i \in cursor .. Len(queue) : i = cursor \/ i \in cursor + 1 .. Len(queue)
        BY <2>0, <3>1
      <4>2. \A i \in cursor + 1 .. Len(queue) : i \in cursor .. Len(queue) /\ queue[i] # c
        <5>1. \A i \in cursor + 1 .. Len(queue) : i \in 1 .. Len(queue) /\ i # cursor
          BY <2>0, <3>1
        <5>2. \A i \in cursor + 1 .. Len(queue) : queue[i] # queue[cursor]
          BY <2>0, <3>1, <5>1 DEF Distinct
        <5> QED
          BY <2>0, <3>1, <5>1, <5>2
      <4> QED
        BY <3>1, <4>1, <4>2 DEF From
    <3>4. cursor' \in 1 .. Len(queue') + 1
      BY <2>0, <3>1
    <3>5. From(queue', cursor') = From(queue, cursor + 1) /\ From(queue', 1) = From(queue, 1)
      BY <3>1 DEF From
    <3> QED
      BY <2>0, <3>1, <3>2, <3>3, <3>4, <3>5 DEF ListInv, Distinct
  <2>10. ASSUME NEW c \in Conns, QueueFirstFanOut(c) PROVE ListInv'
    <3>1. /\ AtCursor(c) /\ MoveBack(c) /\ phase = "data" /\ phase' = phase
          /\ toVisit' = toVisit /\ fanOutQueue' = fanOutQueue
      BY <2>10 DEF QueueFirstFanOut, FirstFanOut
    <3> QED
      BY <3>1, MoveBackKeeps
  <2>11. ASSUME NEW c \in Conns, QueueFanOut(c) PROVE ListInv'
    <3>1. /\ AtCursor(c) /\ MoveBack(c) /\ phase = "data" /\ phase' = phase
          /\ toVisit' = toVisit /\ fanOutQueue' = fanOutQueue
      BY <2>11 DEF QueueFanOut, FanOut, FanOutWindow
    <3> QED
      BY <3>1, MoveBackKeeps
  <2>12. CASE QueueEnd
    <3>1. phase' = "messages" /\ fanOutQueue' = fanOutQueue /\ queue' = queue
      BY <2>12 DEF QueueEnd, TickConnections
    <3> QED
      BY <2>0, <3>1 DEF ListInv, From, Distinct
  <2> QED
    BY <2>2, <2>3, <2>4, <2>5, <2>6, <2>7, <2>8, <2>9, <2>10, <2>11, <2>12
       DEF QueueNext, QueueTick, QueueEnvironment
<1>3. ListInv => WalkCoversQueue
  <2> SUFFICES ASSUME ListInv PROVE WalkCoversQueue
    OBVIOUS
  <2>1. DOMAIN queue = 1 .. Len(queue)
    BY LenProperties DEF ListInv
  <2> QED
    BY <2>1 DEF ListInv, WalkCoversQueue, Distinct, From
<1>4. WindowInv => VisitsElements
  BY DEF WindowInv
<1> QED
  BY <1>1, <1>2, <1>3, <1>4, WalkIsFanOut, TypeCorrect, SubscriptionsHaveElements, QueuedKept,
     WindowsKept, PTL DEF QueueSpec
=============================================================================

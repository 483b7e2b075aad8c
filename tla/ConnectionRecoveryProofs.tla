---------------------- MODULE ConnectionRecoveryProofs ----------------------
(* Theorems about module ConnectionRecovery, for every value of its        *)
(* constants.                                                              *)
EXTENDS ConnectionRecovery, TLAPS

-----------------------------------------------------------------------------
(* Type correctness.  That a Restore or a GiveUp finds a record, and not   *)
(* None, under the key it looks at is not a matter of types: it follows    *)
(* from the walk over the keys, which nothing else may disturb.            *)

\* The keys tickRecoverableSubscriptions has still to look at have an entry, and
\* there are none outside the walk.
WalkInv ==
  \A ch \in Channels :
    /\ \A p \in left[ch] : saved[ch][p] # None
    /\ ch \notin ticking => left[ch] = {}

RecoveryInv == TypeOK /\ WalkInv

\* Removing a subscription, with or without keeping it.
LEMMA RemoveClosedStep ==
  ASSUME RecoveryAssumption, RecoveryInv, NEW ch \in Channels, NEW c \in Conns,
         RemoveClosed(ch, c)
  PROVE  RecoveryInv'
<1> USE RecoveryAssumption DEF RecoveryAssumption, Handles, Pits
<1> DEFINE keep == recoverHandle[c] # None
           entry == [handle |-> recoverHandle[c], isOwner |-> owner[ch] = c]
<1>1. RemoveSubscription(ch, c, keep)
  BY DEF RemoveClosed
<1>2. /\ ch \notin ticking
      /\ subscribed' = [subscribed EXCEPT ![ch] = @ \ {c}]
      /\ saved' = IF keep THEN [saved EXCEPT ![ch][pit[c]] = entry] ELSE saved
      /\ owner' = IF owner[ch] = c THEN [owner EXCEPT ![ch] = None] ELSE owner
      /\ removing' \subseteq removing \cup {ch}
      /\ UNCHANGED <<connVars, pcs, handleVars, clocks, left, ticking, ticked>>
  BY <1>1 DEF RemoveSubscription
<1>3. subscribed' \in [Channels -> SUBSET Conns] /\ owner' \in [Channels -> Conns \cup {None}]
  BY <1>2 DEF RecoveryInv, TypeOK
<1>4. saved' \in [Channels -> [Pits -> [handle : Handles, isOwner : BOOLEAN] \cup {None}]]
  <2>1. saved \in [Channels -> [Pits -> [handle : Handles, isOwner : BOOLEAN] \cup {None}]]
    BY DEF RecoveryInv, TypeOK
  <2>2. CASE ~keep
    BY <1>2, <2>1, <2>2
  <2>3. CASE keep
    <3>1. entry \in [handle : Handles, isOwner : BOOLEAN]
      BY <2>3 DEF RecoveryInv, TypeOK
    <3>2. pit[c] \in Pits
      BY DEF RecoveryInv, TypeOK
    <3>3. saved' = [saved EXCEPT ![ch] = [saved[ch] EXCEPT ![pit[c]] = entry]]
      BY <1>2, <2>1, <2>3
    <3> HIDE DEF entry, Pits, Handles
    <3> QED
      BY <2>1, <3>1, <3>2, <3>3
  <2> QED
    BY <2>2, <2>3
<1>5. TypeOK'
  BY <1>2, <1>3, <1>4 DEF RecoveryInv, TypeOK, connVars, pcs, handleVars, clocks
<1>6. WalkInv'
  <2> SUFFICES ASSUME NEW d \in Channels
               PROVE  /\ \A p \in left'[d] : saved'[d][p] # None
                      /\ d \notin ticking' => left'[d] = {}
    BY DEF WalkInv
  <2>1. left' = left /\ ticking' = ticking
    BY <1>2
  <2>2. CASE d = ch
    BY <1>2, <2>1, <2>2 DEF RecoveryInv, WalkInv
  <2>3. CASE d # ch
    <3>1. saved'[d] = saved[d]
      BY <1>2, <2>3 DEF RecoveryInv, TypeOK
    <3> QED
      BY <2>1, <3>1 DEF RecoveryInv, WalkInv
  <2> QED
    BY <2>2, <2>3
<1> QED
  BY <1>5, <1>6 DEF RecoveryInv

\* Giving a subscription back: the entry is there, so its handle is one.
LEMMA RestoreStep ==
  ASSUME RecoveryAssumption, RecoveryInv, NEW ch \in Channels, NEW p \in Pits, Restore(ch, p)
  PROVE  RecoveryInv'
<1> USE RecoveryAssumption DEF RecoveryAssumption, Handles
<1> DEFINE h == saved[ch][p].handle
           c == newConn[h]
           toOwner == saved[ch][p].isOwner /\ ~HasOwner(ch)
<1>1. ch \in ticking /\ p \in left[ch] /\ GiveBack(ch, p, toOwner)
  BY DEF Restore, AtEntry
<1>2. h \in Handles
  <2>1. saved[ch][p] # None /\ saved[ch][p] \in [handle : Handles, isOwner : BOOLEAN] \cup {None}
    BY <1>1 DEF RecoveryInv, TypeOK, WalkInv
  <2> QED
    BY <2>1
<1>3. /\ c # None
      /\ owner' = IF toOwner THEN [owner EXCEPT ![ch] = c] ELSE owner
      /\ subscribed' = [subscribed EXCEPT ![ch] = IF Closing(c) THEN @ ELSE @ \cup {c}]
      /\ saved' = [saved EXCEPT ![ch][p] = None]
      /\ left' = [left EXCEPT ![ch] = @ \ {p}]
      /\ UNCHANGED <<connVars, pcs, handleVars, clocks, removing, ticking, ticked>>
  BY <1>1 DEF GiveBack
<1>4. c \in Conns
  BY <1>2, <1>3 DEF RecoveryInv, TypeOK
<1> HIDE DEF c, h, toOwner
<1>5. owner' \in [Channels -> Conns \cup {None}] /\ subscribed' \in [Channels -> SUBSET Conns]
  BY <1>3, <1>4 DEF RecoveryInv, TypeOK
<1>6. saved' = [saved EXCEPT ![ch] = [saved[ch] EXCEPT ![p] = None]]
  BY <1>3 DEF RecoveryInv, TypeOK
<1>7. /\ saved' \in [Channels -> [Pits -> [handle : Handles, isOwner : BOOLEAN] \cup {None}]]
      /\ left' \in [Channels -> SUBSET Pits]
  BY <1>3, <1>6 DEF RecoveryInv, TypeOK
<1>8. TypeOK'
  BY <1>3, <1>5, <1>7 DEF RecoveryInv, TypeOK, connVars, pcs, handleVars, clocks
<1>9. WalkInv'
  <2> SUFFICES ASSUME NEW d \in Channels
               PROVE  /\ \A q \in left'[d] : saved'[d][q] # None
                      /\ d \notin ticking' => left'[d] = {}
    BY DEF WalkInv
  <2>1. CASE d = ch
    <3>1. left'[d] = left[d] \ {p} /\ saved'[d] = [saved[d] EXCEPT ![p] = None]
      BY <1>3, <1>6, <2>1 DEF RecoveryInv, TypeOK
    <3>2. left[d] \subseteq Pits /\ saved[d] \in [Pits -> [handle : Handles, isOwner : BOOLEAN] \cup {None}]
      BY DEF RecoveryInv, TypeOK
    <3> QED
      BY <1>1, <1>3, <2>1, <3>1, <3>2 DEF RecoveryInv, WalkInv
  <2>2. CASE d # ch
    <3>1. left'[d] = left[d] /\ saved'[d] = saved[d] /\ ticking' = ticking
      BY <1>3, <1>6, <2>2 DEF RecoveryInv, TypeOK
    <3> QED
      BY <3>1 DEF RecoveryInv, WalkInv
  <2> QED
    BY <2>1, <2>2
<1> QED
  BY <1>8, <1>9 DEF RecoveryInv

\* The other steps of a channel's tick.
LEMMA WalkStep ==
  ASSUME RecoveryAssumption, RecoveryInv, NEW ch \in Channels,
         BeginRecoverable(ch) \/ EndTick(ch) \/ \E p \in Pits : GiveUp(ch, p) \/ KeepWaiting(ch, p)
  PROVE  RecoveryInv'
<1> USE RecoveryAssumption DEF RecoveryAssumption
<1>1. CASE BeginRecoverable(ch)
  <2>1. /\ ticking' = ticking \cup {ch}
        /\ left' = [left EXCEPT ![ch] = {p \in Pits : saved[ch][p] # None}]
        /\ UNCHANGED <<connVars, pcs, handleVars, clocks, owner, subscribed, saved, removing,
                       ticked>>
    BY <1>1 DEF BeginRecoverable
  <2>2. TypeOK'
    BY <2>1 DEF RecoveryInv, TypeOK, connVars, pcs, handleVars, clocks
  <2>3. WalkInv'
    BY <2>1 DEF RecoveryInv, TypeOK, WalkInv
  <2> QED
    BY <2>2, <2>3 DEF RecoveryInv
<1>2. CASE EndTick(ch)
  <2>1. /\ left[ch] = {} /\ ticking' = ticking \ {ch} /\ ticked' = ticked \cup {ch}
        /\ UNCHANGED <<connVars, pcs, handleVars, clocks, owner, subscribed, saved, removing,
                       left>>
    BY <1>2 DEF EndTick
  <2>2. TypeOK'
    BY <2>1 DEF RecoveryInv, TypeOK, connVars, pcs, handleVars, clocks
  <2>3. WalkInv'
    BY <2>1 DEF RecoveryInv, TypeOK, WalkInv
  <2> QED
    BY <2>2, <2>3 DEF RecoveryInv
<1>3. ASSUME NEW p \in Pits, GiveUp(ch, p) PROVE RecoveryInv'
  <2>1. /\ saved' = [saved EXCEPT ![ch] = NothingSaved]
        /\ left' = [left EXCEPT ![ch] = {}]
        /\ removing' \subseteq removing \cup {ch}
        /\ UNCHANGED <<connVars, pcs, handleVars, clocks, owner, subscribed, ticking, ticked>>
    BY <1>3 DEF GiveUp
  <2>2. NothingSaved \in [Pits -> [handle : Handles, isOwner : BOOLEAN] \cup {None}]
    BY DEF NothingSaved
  <2>3. TypeOK'
    BY <2>1, <2>2 DEF RecoveryInv, TypeOK, connVars, pcs, handleVars, clocks
  <2>4. WalkInv'
    BY <2>1 DEF RecoveryInv, TypeOK, WalkInv
  <2> QED
    BY <2>3, <2>4 DEF RecoveryInv
<1>4. ASSUME NEW p \in Pits, KeepWaiting(ch, p) PROVE RecoveryInv'
  <2>1. /\ left' = [left EXCEPT ![ch] = @ \ {p}]
        /\ UNCHANGED <<connVars, pcs, handleVars, clocks, owner, subscribed, saved, removing,
                       ticking, ticked>>
    BY <1>4 DEF KeepWaiting
  <2>2. TypeOK'
    BY <2>1 DEF RecoveryInv, TypeOK, connVars, pcs, handleVars, clocks
  <2>3. WalkInv'
    BY <2>1 DEF RecoveryInv, TypeOK, WalkInv
  <2> QED
    BY <2>2, <2>3 DEF RecoveryInv
<1> QED
  BY <1>1, <1>2, <1>3, <1>4

\* The goroutine that closes a connection.
LEMMA CloseStep ==
  ASSUME RecoveryAssumption, TypeOK, NEW c \in Conns,
         Close(c) \/ \E unexpected \in BOOLEAN : BeginClose(c, unexpected)
  PROVE  TypeOK' /\ UNCHANGED <<left, saved, ticking>>
<1> USE RecoveryAssumption DEF RecoveryAssumption, TypeOK, Handles, connVars, pcs, handleVars,
        clocks, channelVars
<1>1. ASSUME NEW unexpected \in BOOLEAN, BeginClose(c, unexpected)
      PROVE  TypeOK' /\ UNCHANGED <<left, saved, ticking>>
  <2>1. /\ closing' = [closing EXCEPT ![c] = "close"]
        /\ UNCHANGED <<state, id, pit, allConnections, auth, deleting, panicked, newConn,
                       sinceStart, channelVars>>
    BY <1>1 DEF BeginClose
  <2>2. /\ handles' \in [Pits -> Handles \cup {None}]
        /\ recoverHandle' \in [Conns -> Handles \cup {None}]
        /\ prevConnId' \in [Handles -> Ids \cup {None}]
        /\ sinceDisconn' \in [Handles -> Ages]
    <3>1. CASE unexpected
      <4>1. /\ handles' = [handles EXCEPT ![pit[c]] = c]
            /\ recoverHandle' = [recoverHandle EXCEPT ![c] = c]
            /\ prevConnId' = [prevConnId EXCEPT ![c] = id[c]]
            /\ sinceDisconn' = [sinceDisconn EXCEPT ![c] = 0]
        BY <1>1, <3>1 DEF BeginClose
      <4>2. 0 \in Ages
        BY DEF Ages
      <4> QED
        BY <4>1, <4>2
    <3>2. CASE ~unexpected
      BY <1>1, <3>2 DEF BeginClose
    <3> QED
      BY <3>1, <3>2
  <2> QED
    BY <2>1, <2>2
<1>2. CASE CloseState(c)
  BY <1>2 DEF CloseState
<1>3. CASE EndClose(c)
  BY <1>3 DEF EndClose
<1> QED
  BY <1>1, <1>2, <1>3 DEF Close

\* The goroutine that completes an authentication.
LEMMA RecoverStep ==
  ASSUME RecoveryAssumption, TypeOK, NEW c \in Conns,
         OnAuthenticated(c) \/ Recover(c) \/ \E i \in Ids : AddConnection(c, i)
  PROVE  TypeOK' /\ UNCHANGED <<left, saved, ticking>>
<1> USE RecoveryAssumption DEF RecoveryAssumption, TypeOK, Handles, connVars, pcs, handleVars,
        clocks, channelVars
<1>1. ASSUME NEW i \in Ids, AddConnection(c, i)
      PROVE  TypeOK' /\ UNCHANGED <<left, saved, ticking>>
  BY <1>1 DEF AddConnection
<1>2. CASE OnAuthenticated(c)
  <2>1. PitOf[c] \in Pits
    BY DEF Pits
  <2> QED
    BY <1>2, <2>1 DEF OnAuthenticated, Authenticated
<1>3. CASE ClaimPrevId(c)
  <2> DEFINE i == prevConnId[auth[c]]
  <2>1. /\ auth[c] \in Conns
        /\ UNCHANGED <<state, pit, closing, deleting, panicked, handleVars, clocks,
                       channelVars>>
    BY <1>3 DEF ClaimPrevId
  <2>2. CASE allConnections[i] # None
    <3>1. /\ allConnections' = [allConnections EXCEPT ![i] = None]
          /\ auth' = [auth EXCEPT ![c] = "done"] /\ UNCHANGED <<id, recoverHandle>>
      BY <1>3, <2>2 DEF ClaimPrevId
    <3> QED
      BY <2>1, <3>1
  <2>3. CASE allConnections[i] = None
    <3>1. /\ allConnections' = [allConnections EXCEPT ![i] = c]
          /\ id' = [id EXCEPT ![c] = i]
          /\ recoverHandle' = [recoverHandle EXCEPT ![c] = auth[c]]
          /\ auth' = [auth EXCEPT ![c] = "link"]
      BY <1>3, <2>3 DEF ClaimPrevId
    <3>2. i \in Ids \cup {None}
      BY <2>1
    <3> QED
      BY <2>1, <3>1, <3>2
  <2> QED
    BY <2>2, <2>3
<1>4. CASE SetNewConn(c)
  BY <1>4 DEF SetNewConn
<1>5. CASE SetStartRecoveryTime(c)
  <2>1. /\ auth' = [auth EXCEPT ![c] = "done"]
        /\ UNCHANGED <<connVars, closing, deleting, handleVars, sinceDisconn, channelVars>>
    BY <1>5 DEF SetStartRecoveryTime
  <2>2. sinceStart' \in [Handles -> Ages] /\ panicked' \in BOOLEAN
    <3>1. CASE recoverHandle[c] = None
      BY <1>5, <3>1 DEF SetStartRecoveryTime
    <3>2. CASE recoverHandle[c] # None
      <4>1. sinceStart' = [sinceStart EXCEPT ![recoverHandle[c]] = 0]
        BY <1>5, <3>2 DEF SetStartRecoveryTime
      <4>2. 0 \in Ages
        BY DEF Ages
      <4>3. panicked' = panicked
        BY <1>5, <3>2 DEF SetStartRecoveryTime
      <4> QED
        BY <4>1, <4>2, <4>3
    <3> QED
      BY <3>1, <3>2
  <2> QED
    BY <2>1, <2>2
<1> QED
  BY <1>1, <1>2, <1>3, <1>4, <1>5 DEF Recover

\* tickConnectionRecovery, and time.
LEMMA PollStep ==
  ASSUME RecoveryAssumption, TypeOK, Poll \/ Advance
  PROVE  TypeOK' /\ UNCHANGED <<left, saved, ticking>>
<1> USE RecoveryAssumption DEF RecoveryAssumption, TypeOK, Handles, connVars, pcs, handleVars,
        clocks, channelVars
<1>1. ASSUME NEW p \in Pits, TickConnectionRecovery(p)
      PROVE  TypeOK' /\ UNCHANGED <<left, saved, ticking>>
  BY <1>1 DEF TickConnectionRecovery, ResetHandle
<1>2. CASE DeleteHandle
  BY <1>2 DEF DeleteHandle
<1>3. CASE Advance
  <2>1. /\ sinceDisconn' \in [Handles -> Ages] /\ sinceStart' \in [Handles -> Ages]
    <3>1. ASSUME NEW age \in Ages, NEW last \in Nat PROVE Grow(age, last) \in Ages
      BY DEF Grow, Ages
    <3> QED
      BY <1>3, <3>1 DEF Advance
  <2> QED
    BY <1>3, <2>1 DEF Advance
<1> QED
  BY <1>1, <1>2, <1>3 DEF Poll

\* The messages a channel handles.
LEMMA HandlerStep ==
  ASSUME RecoveryAssumption, TypeOK, NEW ch \in Channels, NEW c \in Conns,
         Possess(ch, c) \/ SubscribeToChannel(ch, c)
  PROVE  TypeOK' /\ UNCHANGED <<left, saved, ticking>>
<1> USE DEF TypeOK, connVars, pcs, handleVars, clocks, channelVars
<1>1. CASE Possess(ch, c)
  BY <1>1 DEF Possess
<1>2. CASE SubscribeToChannel(ch, c)
  BY <1>2 DEF SubscribeToChannel
<1> QED
  BY <1>1, <1>2

\* At start nothing is kept and nobody walks.
LEMMA RecoveryInvInit == ASSUME RecoveryAssumption, Init PROVE RecoveryInv
<1>1. TypeOK
  BY DEF RecoveryAssumption, Init, TypeOK, Ages, Pits, NothingSaved
<1>2. WalkInv
  BY DEF Init, WalkInv
<1> QED
  BY <1>1, <1>2 DEF RecoveryInv

\* The invariant is inductive: every step of every goroutine keeps it.
LEMMA RecoveryInvInductive ==
  ASSUME RecoveryAssumption, RecoveryInv, [Next]_vars
  PROVE  RecoveryInv'
<1>1. ASSUME TypeOK', UNCHANGED <<left, saved, ticking>> PROVE RecoveryInv'
  BY <1>1 DEF RecoveryInv, WalkInv
<1>2. ASSUME NEW c \in Conns,
             \/ \E i \in Ids : AddConnection(c, i)
             \/ \E unexpected \in BOOLEAN : BeginClose(c, unexpected)
             \/ OnAuthenticated(c) \/ Close(c) \/ Recover(c)
      PROVE  RecoveryInv'
  BY <1>1, <1>2, CloseStep, RecoverStep DEF RecoveryInv
<1>3. ASSUME NEW c \in Conns, NEW ch \in Channels, Possess(ch, c) \/ SubscribeToChannel(ch, c)
      PROVE  RecoveryInv'
  BY <1>1, <1>3, HandlerStep DEF RecoveryInv
<1>4. CASE Poll \/ Advance
  BY <1>1, <1>4, PollStep DEF RecoveryInv
<1>5. ASSUME NEW ch \in Channels, Tick(ch) PROVE RecoveryInv'
  BY <1>5, RemoveClosedStep, RestoreStep, WalkStep DEF Tick, WalkOn
<1>6. CASE UNCHANGED vars
  BY <1>1, <1>6 DEF vars, connVars, pcs, handleVars, clocks, channelVars, RecoveryInv, TypeOK
<1> QED
  BY <1>2, <1>3, <1>4, <1>5, <1>6 DEF Next

\* Type correctness: whatever order closing, authenticating, ticking and polling are
\* interleaved in, no handle, saved subscription or table entry is malformed, and no
\* channel gives back what it has not kept.
THEOREM RecoveryTypeCorrect == Spec => []TypeOK
<1>1. Init => RecoveryInv
  BY RecoveryInvInit, RecoveryAssumption
<1>2. RecoveryInv /\ [Next]_vars => RecoveryInv'
  BY RecoveryInvInductive, RecoveryAssumption
<1>3. RecoveryInv => TypeOK
  BY DEF RecoveryInv
<1> QED
  BY <1>1, <1>2, <1>3, PTL DEF Spec

-----------------------------------------------------------------------------
(* Ownership.                                                              *)

\* A step changes the owner of a channel only when it has no live one.
LEMMA OwnerStep ==
  ASSUME RecoveryInv, [Next]_vars, NEW ch \in Channels, HasOwner(ch)
  PROVE  owner'[ch] = owner[ch]
<1>1. DOMAIN owner = Channels
  BY DEF RecoveryInv, TypeOK
<1>2. CASE owner' = owner
  BY <1>2
<1>3. ASSUME NEW d \in Channels, NEW c \in Conns, Possess(d, c) PROVE owner'[ch] = owner[ch]
  BY <1>1, <1>3 DEF Possess
<1>4. ASSUME NEW d \in Channels, NEW c \in Conns, RemoveClosed(d, c)
      PROVE  owner'[ch] = owner[ch]
  BY <1>1, <1>4 DEF RemoveClosed, RemoveSubscription, HasOwner
<1>5. ASSUME NEW d \in Channels, NEW p \in Pits, Restore(d, p) PROVE owner'[ch] = owner[ch]
  BY <1>1, <1>5 DEF Restore, GiveBack
<1>6. ASSUME NEW c \in Conns,
             \/ \E i \in Ids : AddConnection(c, i)
             \/ \E unexpected \in BOOLEAN : BeginClose(c, unexpected)
             \/ OnAuthenticated(c) \/ Close(c) \/ Recover(c)
             \/ \E d \in Channels : SubscribeToChannel(d, c)
      PROVE  owner' = owner
  BY <1>6 DEF AddConnection, BeginClose, OnAuthenticated, Authenticated, Close, CloseState,
              EndClose, Recover, ClaimPrevId, SetNewConn, SetStartRecoveryTime,
              SubscribeToChannel, channelVars
<1>7. CASE Poll \/ Advance
  BY <1>7 DEF Poll, TickConnectionRecovery, DeleteHandle, Advance, channelVars
<1>8. ASSUME NEW d \in Channels,
             \/ BeginRecoverable(d) \/ EndTick(d)
             \/ \E p \in Pits : GiveUp(d, p) \/ KeepWaiting(d, p)
      PROVE  owner' = owner
  BY <1>8 DEF BeginRecoverable, EndTick, GiveUp, KeepWaiting
<1>9. CASE UNCHANGED vars
  BY <1>9 DEF vars, channelVars
<1> QED
  BY <1>2, <1>3, <1>4, <1>5, <1>6, <1>7, <1>8, <1>9 DEF Next, Tick, WalkOn

\* Giving an ownership back never displaces a live owner, and neither does anything
\* else: neither tickRecoverableSubscriptions, nor tickConnections, nor a server that
\* possesses the channel.
THEOREM LiveOwnersKept == Spec => LiveOwnerKept
<1>1. Init => RecoveryInv
  BY RecoveryInvInit, RecoveryAssumption
<1>2. RecoveryInv /\ [Next]_vars => RecoveryInv'
  BY RecoveryInvInductive, RecoveryAssumption
<1>3. RecoveryInv /\ [Next]_vars => [\A ch \in Channels : HasOwner(ch) => owner'[ch] = owner[ch]]_vars
  BY OwnerStep
<1> QED
  BY <1>1, <1>2, <1>3, PTL DEF Spec, LiveOwnerKept

-----------------------------------------------------------------------------
(* What becomes of the data of a server whose connection broke down:        *)
(* RECOVERY_END is sent after the data, and a subscription that is neither  *)
(* kept nor given back was lost in one of the known ways.                   *)

-----------------------------------------------------------------------------
(* What both theorems rest on: how far every connection and every handle   *)
(* has come.                                                               *)

\* The handle was made: its connection broke down.
Made(h) == sinceDisconn[h] # None

\* The state, the id and the PIT of a connection follow from where its authentication
\* and its Close are.
PhaseInv ==
  \A c \in Conns :
    /\ state[c] = "none" <=> id[c] = None
    /\ state[c] = "none" => closing[c] = "open"
    /\ auth[c] = "idle" => pit[c] = NoPit /\ state[c] # "authenticated"
    /\ auth[c] # "idle" => pit[c] = PitOf[c] /\ state[c] \in {"authenticated", "closing"}
    /\ Closing(c) <=> closing[c] \in {"delete", "closed"}

\* Every handle that is referred to was made, which a connection does once at most,
\* when it begins to close; its prevConnId is then set for good.
MadeInv ==
  /\ \A h \in Handles :
       /\ prevConnId[h] # None <=> Made(h)
       /\ Made(h) => closing[h] # "open"
       /\ newConn[h] # None \/ sinceStart[h] # None \/ h \in ended => Made(h)
  /\ \A c \in Conns : /\ auth[c] \in Handles => Made(auth[c])
                      /\ recoverHandle[c] # None => Made(recoverHandle[c])
  /\ \A p \in Pits : handles[p] # None => Made(handles[p])
  /\ \A ch \in Channels : \A p \in Pits : saved[ch][p] # None => Made(saved[ch][p].handle)

\* A connection that is linked to the handle of another one has that one's id.
TakeOverInv ==
  \A c \in Conns :
    /\ auth[c] \in Handles \cup {"idle"} => recoverHandle[c] \in {None, c}
    /\ recoverHandle[c] \notin {None, c} => id[c] = prevConnId[recoverHandle[c]]
    /\ \A h \in Handles : newConn[h] = c =>
         /\ auth[c] \in {"start", "done"}
         /\ recoverHandle[c] \in {h, c, None}
         /\ h # c => id[c] = prevConnId[h]

\* A handle is in the table under one PIT at most, and leaves it once it has ended.
PollInv ==
  /\ \A p, q \in Pits : handles[p] = handles[q] => p = q \/ handles[p] = None
  /\ \A h \in Handles : sinceStart[h] # None => h \in early \/ newConn[h] # None
  /\ ended \subseteq Handles
  /\ \A h \in ended : \A p \in Pits : handles[p] = h => deleting = p

Basics == RecoveryInv /\ PhaseInv /\ MadeInv /\ TakeOverInv /\ PollInv

-----------------------------------------------------------------------------
(* The steps, grouped by the goroutine that takes them.                    *)

\* A connection opens, closes, or authenticates.
ConnStep(c) ==
  \/ \E i \in Ids : AddConnection(c, i)
  \/ \E unexpected \in BOOLEAN : BeginClose(c, unexpected)
  \/ CloseState(c) \/ EndClose(c) \/ OnAuthenticated(c)
  \/ ClaimPrevId(c) \/ SetNewConn(c) \/ SetStartRecoveryTime(c)

\* A message to a channel is handled, or the channel ticks.
ChannelStep(ch) ==
  \/ \E c \in Conns : Possess(ch, c) \/ SubscribeToChannel(ch, c) \/ RemoveClosed(ch, c)
  \/ BeginRecoverable(ch) \/ EndTick(ch)
  \/ \E p \in Pits : GiveUp(ch, p) \/ KeepWaiting(ch, p) \/ Restore(ch, p)

\* The steps of the program are those, the poll for ended recoveries, and time.
LEMMA StepCases ==
  ASSUME [Next]_vars
  PROVE  \/ \E c \in Conns : ConnStep(c)
         \/ Poll \/ Advance
         \/ \E ch \in Channels : ChannelStep(ch)
         \/ UNCHANGED vars
BY DEF Next, ConnStep, ChannelStep, Close, Recover, Tick, WalkOn

-----------------------------------------------------------------------------
(* The steps keep the basics.                                              *)

\* PhaseInv, when a connection takes a step ...
LEMMA PhaseStep ==
  ASSUME RecoveryAssumption, Basics, NEW c \in Conns, ConnStep(c)
  PROVE  PhaseInv'
<1> USE RecoveryAssumption
    DEF Basics, RecoveryAssumption, Handles, Closing, RecoveryInv, TypeOK, PhaseInv
<1>1. ASSUME NEW i \in Ids, AddConnection(c, i) PROVE PhaseInv'
  BY <1>1 DEF AddConnection, pcs
<1>2. ASSUME NEW u \in BOOLEAN, BeginClose(c, u) PROVE PhaseInv'
  BY <1>2 DEF BeginClose
<1>3. CASE CloseState(c)
  BY <1>3 DEF CloseState
<1>4. CASE EndClose(c)
  BY <1>4 DEF EndClose
<1>5. CASE OnAuthenticated(c)
  <2>1. PitOf[c] \in Pits
    BY DEF Pits
  <2>2. \E next \in Handles \cup {"done"} : Authenticated(c, next)
    BY <1>5, <2>1 DEF OnAuthenticated
  <2> QED
    BY <2>2 DEF Authenticated
<1>6. CASE ClaimPrevId(c)
  BY <1>6 DEF ClaimPrevId, MadeInv
<1>7. CASE SetNewConn(c)
  BY <1>7 DEF SetNewConn, connVars
<1>8. CASE SetStartRecoveryTime(c)
  BY <1>8 DEF SetStartRecoveryTime, connVars
<1> QED
  BY <1>1, <1>2, <1>3, <1>4, <1>5, <1>6, <1>7, <1>8 DEF ConnStep

\* ... MadeInv ...
LEMMA MadeConnStep ==
  ASSUME RecoveryAssumption, Basics, NEW c \in Conns, ConnStep(c)
  PROVE  MadeInv'
<1> USE RecoveryAssumption
    DEF Basics, RecoveryAssumption, Handles, RecoveryInv, TypeOK, MadeInv, Made
<1>1. ASSUME NEW i \in Ids, AddConnection(c, i) PROVE MadeInv'
  BY <1>1 DEF AddConnection, pcs, handleVars, clocks, channelVars, history
<1>2. ASSUME NEW u \in BOOLEAN, BeginClose(c, u) PROVE MadeInv'
  <2>1. CASE u
    <3>1. /\ closing[c] = "open" /\ closing' = [closing EXCEPT ![c] = "close"]
          /\ handles' = [handles EXCEPT ![pit[c]] = c]
          /\ recoverHandle' = [recoverHandle EXCEPT ![c] = c]
          /\ prevConnId' = [prevConnId EXCEPT ![c] = id[c]]
          /\ sinceDisconn' = [sinceDisconn EXCEPT ![c] = 0]
          /\ UNCHANGED <<auth, newConn, sinceStart, saved, ended>>
      BY <1>2, <2>1 DEF BeginClose, channelVars
    <3>2. \A h \in Handles : Made(h)' <=> Made(h) \/ h = c
      BY <3>1
    <3>3. id[c] # None
      BY <1>2 DEF BeginClose, PhaseInv
    <3>4. \A h \in Handles : prevConnId'[h] # None <=> prevConnId[h] # None \/ h = c
      BY <3>1, <3>3
    <3> QED
      BY <3>1, <3>2, <3>4
  <2>2. CASE ~u
    BY <1>2, <2>2 DEF BeginClose, channelVars
  <2> QED
    BY <2>1, <2>2
<1>3. CASE CloseState(c)
  BY <1>3 DEF CloseState, handleVars, clocks, channelVars, history
<1>4. CASE EndClose(c)
  BY <1>4 DEF EndClose, handleVars, clocks, channelVars, history
<1>5. CASE OnAuthenticated(c)
  <2>1. PitOf[c] \in Pits
    BY DEF Pits
  <2> QED
    BY <1>5, <2>1 DEF OnAuthenticated, Authenticated, handleVars, clocks, channelVars, history
<1>6. CASE ClaimPrevId(c)
  <2>1. /\ auth[c] \in Handles
        /\ \/ /\ auth' = [auth EXCEPT ![c] = "done"] /\ UNCHANGED recoverHandle
           \/ /\ auth' = [auth EXCEPT ![c] = "link"]
              /\ recoverHandle' = [recoverHandle EXCEPT ![c] = auth[c]]
    BY <1>6 DEF ClaimPrevId
  <2>2. UNCHANGED <<closing, handleVars, clocks, channelVars, history>>
    BY <1>6 DEF ClaimPrevId
  <2>3. \A d \in Conns : /\ auth'[d] \in Handles => auth'[d] = auth[d]
                        /\ recoverHandle'[d] \in {recoverHandle[d], auth[c]}
    BY <2>1
  <2> QED
    BY <2>1, <2>2, <2>3 DEF handleVars, clocks, channelVars, history
<1>7. CASE SetNewConn(c)
  BY <1>7 DEF SetNewConn, connVars, clocks, channelVars, history
<1>8. CASE SetStartRecoveryTime(c)
  BY <1>8 DEF SetStartRecoveryTime, connVars, handleVars, channelVars
<1> QED
  BY <1>1, <1>2, <1>3, <1>4, <1>5, <1>6, <1>7, <1>8 DEF ConnStep

\* ... TakeOverInv ...
LEMMA TakeOverConnStep ==
  ASSUME RecoveryAssumption, Basics, NEW c \in Conns, ConnStep(c)
  PROVE  TakeOverInv'
<1> USE RecoveryAssumption DEF Basics, RecoveryAssumption, Handles, RecoveryInv, TypeOK, TakeOverInv
<1>1. ASSUME NEW i \in Ids, AddConnection(c, i) PROVE TakeOverInv'
  <2>1. auth[c] = "idle" /\ UNCHANGED <<auth, recoverHandle, newConn, prevConnId>>
    BY <1>1 DEF AddConnection, pcs, handleVars, PhaseInv
  <2>2. recoverHandle[c] \in {None, c} /\ \A h \in Handles : newConn[h] # c
    BY <2>1
  <2>3. \A d \in Conns \ {c} : id'[d] = id[d]
    BY <1>1 DEF AddConnection
  <2> QED
    BY <2>1, <2>2, <2>3
<1>2. ASSUME NEW u \in BOOLEAN, BeginClose(c, u) PROVE TakeOverInv'
  BY <1>2 DEF BeginClose, MadeInv
<1>3. CASE CloseState(c)
  BY <1>3 DEF CloseState, handleVars
<1>4. CASE EndClose(c)
  BY <1>4 DEF EndClose, handleVars
<1>5. CASE OnAuthenticated(c)
  <2>1. PitOf[c] \in Pits
    BY DEF Pits
  <2>2. \E next \in Handles \cup {"done"} : Authenticated(c, next)
    BY <1>5, <2>1 DEF OnAuthenticated
  <2> QED
    BY <2>2 DEF Authenticated, handleVars
<1>6. CASE ClaimPrevId(c)
  BY <1>6 DEF ClaimPrevId, handleVars
<1>7. CASE SetNewConn(c)
  BY <1>7 DEF SetNewConn, connVars
<1>8. CASE SetStartRecoveryTime(c)
  BY <1>8 DEF SetStartRecoveryTime, connVars, handleVars
<1> QED
  BY <1>1, <1>2, <1>3, <1>4, <1>5, <1>6, <1>7, <1>8 DEF ConnStep

\* ... and PollInv.
LEMMA PollConnStep ==
  ASSUME RecoveryAssumption, Basics, NEW c \in Conns, ConnStep(c)
  PROVE  PollInv'
<1> USE RecoveryAssumption DEF Basics, RecoveryAssumption, Handles, RecoveryInv, TypeOK, PollInv
<1>1. ASSUME NEW i \in Ids, AddConnection(c, i) PROVE PollInv'
  BY <1>1 DEF AddConnection, pcs, handleVars, clocks, history
<1>2. ASSUME NEW u \in BOOLEAN, BeginClose(c, u) PROVE PollInv'
  BY <1>2 DEF BeginClose, MadeInv
<1>3. CASE CloseState(c)
  BY <1>3 DEF CloseState, handleVars, clocks, history
<1>4. CASE EndClose(c)
  BY <1>4 DEF EndClose, handleVars, clocks, history
<1>5. CASE OnAuthenticated(c)
  BY <1>5 DEF OnAuthenticated, Authenticated, handleVars, clocks, history
<1>6. CASE ClaimPrevId(c)
  BY <1>6 DEF ClaimPrevId, handleVars, clocks, history
<1>7. CASE SetNewConn(c)
  BY <1>7 DEF SetNewConn, clocks, history
<1>8. CASE SetStartRecoveryTime(c)
  BY <1>8 DEF SetStartRecoveryTime, connVars, handleVars, channelVars
<1> QED
  BY <1>1, <1>2, <1>3, <1>4, <1>5, <1>6, <1>7, <1>8 DEF ConnStep

\* The poll forgets handles and resets recoverHandle; it links nothing.
LEMMA BasicsPollStep ==
  ASSUME RecoveryAssumption, Basics, Poll \/ Advance
  PROVE  PhaseInv' /\ MadeInv' /\ TakeOverInv' /\ PollInv'
<1> USE RecoveryAssumption DEF Basics, RecoveryAssumption, Handles, RecoveryInv, TypeOK
<1>1. ASSUME NEW p \in Pits, TickConnectionRecovery(p)
      PROVE  PhaseInv' /\ MadeInv' /\ TakeOverInv' /\ PollInv'
  <2> DEFINE h == handles[p]
             c == newConn[h]
  <2>1. /\ h \in Handles /\ deleting = None /\ deleting' = p
        /\ UNCHANGED <<state, id, pit, allConnections, closing, auth, panicked, handleVars,
                       clocks, channelVars, lost, restored, overdue>>
    BY <1>1 DEF TickConnectionRecovery
  <2>2. \/ UNCHANGED <<recoverHandle, ended, early>>
        \/ /\ c \in Conns /\ recoverHandle' = [recoverHandle EXCEPT ![c] = None]
           /\ ended' \in {ended, ended \cup {h}} /\ early' \in {early, early \cup {h}}
    BY <1>1, <2>1 DEF TickConnectionRecovery, ResetHandle
  <2>3. \A d \in Conns : recoverHandle'[d] \in {recoverHandle[d], None}
    BY <2>2
  <2>4. PhaseInv'
    BY <2>1 DEF PhaseInv, Closing
  <2>5. MadeInv'
    BY <2>1, <2>2, <2>3 DEF MadeInv, Made, handleVars, clocks, channelVars
  <2>6. TakeOverInv'
    BY <2>1, <2>3 DEF TakeOverInv, handleVars
  <2>7. PollInv'
    <3>1. \A q \in Pits : handles[q] = h => q = p
      BY <2>1 DEF PollInv
    <3>2. \A g \in ended : \A q \in Pits : handles[q] # g
      BY <2>1 DEF PollInv, Pits
    <3>3. \A g \in ended' : g \in ended \/ g = h
      BY <2>2
    <3>4. \A g \in ended' : \A q \in Pits : handles'[q] = g => deleting' = q
      BY <2>1, <3>1, <3>2, <3>3 DEF handleVars
    <3>5. \A g \in Handles : sinceStart'[g] # None => g \in early' \/ newConn'[g] # None
      BY <2>1, <2>2 DEF PollInv, handleVars, clocks
    <3> QED
      BY <2>1, <3>3, <3>4, <3>5 DEF PollInv, handleVars
  <2> QED
    BY <2>4, <2>5, <2>6, <2>7
<1>2. CASE DeleteHandle
  <2>1. /\ deleting \in Pits /\ handles' = [handles EXCEPT ![deleting] = None]
        /\ UNCHANGED <<connVars, closing, auth, panicked, prevConnId, newConn, clocks,
                       channelVars, history>>
    BY <1>2 DEF DeleteHandle
  <2>2. PhaseInv' /\ TakeOverInv'
    BY <2>1 DEF PhaseInv, Closing, TakeOverInv, connVars
  <2>3. MadeInv'
    BY <2>1 DEF MadeInv, Made, connVars, clocks, channelVars, history
  <2>4. PollInv'
    BY <2>1 DEF PollInv, clocks, history
  <2> QED
    BY <2>2, <2>3, <2>4
<1>3. CASE Advance
  <2>1. /\ sinceDisconn' = [h \in Handles |-> Grow(sinceDisconn[h], RecoverTimeout)]
        /\ sinceStart' = [h \in Handles |-> Grow(sinceStart[h], 1)]
        /\ UNCHANGED <<connVars, pcs, handleVars, owner, subscribed, saved, history>>
    BY <1>3 DEF Advance
  <2>2. \A age \in Ages : \A last \in Nat : Grow(age, last) # None <=> age # None
    BY DEF Grow, Ages
  <2>3. \A h \in Handles : (sinceDisconn'[h] # None <=> sinceDisconn[h] # None)
                           /\ (sinceStart'[h] # None <=> sinceStart[h] # None)
    BY <2>1, <2>2
  <2>4. PhaseInv' /\ TakeOverInv'
    BY <2>1 DEF PhaseInv, Closing, TakeOverInv, connVars, handleVars, pcs
  <2>5. MadeInv'
    BY <2>1, <2>3 DEF MadeInv, Made, connVars, pcs, handleVars, history
  <2>6. PollInv'
    BY <2>1, <2>3 DEF PollInv, pcs, handleVars, history
  <2> QED
    BY <2>4, <2>5, <2>6
<1> QED
  BY <1>1, <1>2, <1>3 DEF Poll

\* A channel only copies handles into what it keeps.
LEMMA BasicsChannelStep ==
  ASSUME RecoveryAssumption, Basics, NEW ch \in Channels, ChannelStep(ch)
  PROVE  PhaseInv' /\ MadeInv' /\ TakeOverInv' /\ PollInv'
<1>1. UNCHANGED <<connVars, pcs, handleVars, clocks, ended, early>>
  BY DEF ChannelStep, Possess, SubscribeToChannel, RemoveClosed, RemoveSubscription,
         BeginRecoverable, EndTick, GiveUp, KeepWaiting, Restore, GiveBack, history
<1>2. \A d \in Channels : \A p \in Pits :
        saved'[d][p] # None => \/ saved'[d][p] = saved[d][p]
                               \/ \E c \in Conns : /\ recoverHandle[c] # None
                                                   /\ saved'[d][p].handle = recoverHandle[c]
  <2> USE DEF Basics, RecoveryInv, TypeOK
  <2>1. ASSUME NEW c \in Conns, RemoveClosed(ch, c), NEW d \in Channels, NEW p \in Pits
        PROVE  \/ saved'[d][p] = saved[d][p]
               \/ \E e \in Conns : /\ recoverHandle[e] # None
                                   /\ saved'[d][p].handle = recoverHandle[e]
    <3>1. CASE recoverHandle[c] # None
      <4> DEFINE entry == [handle |-> recoverHandle[c], isOwner |-> owner[ch] = c]
      <4>1. saved' = [saved EXCEPT ![ch][pit[c]] = entry]
        BY <2>1, <3>1 DEF RemoveClosed, RemoveSubscription
      <4>2. entry.handle = recoverHandle[c]
        OBVIOUS
      <4> HIDE DEF entry
      <4> QED
        BY <3>1, <4>1, <4>2
    <3>2. CASE recoverHandle[c] = None
      BY <2>1, <3>2 DEF RemoveClosed, RemoveSubscription
    <3> QED
      BY <3>1, <3>2
  <2>2. ASSUME NEW p \in Pits, GiveUp(ch, p), NEW d \in Channels, NEW q \in Pits
        PROVE  saved'[d][q] \in {saved[d][q], None}
    BY <2>2 DEF GiveUp, NothingSaved
  <2>3. ASSUME NEW p \in Pits, Restore(ch, p), NEW d \in Channels, NEW q \in Pits
        PROVE  saved'[d][q] \in {saved[d][q], None}
    BY <2>3 DEF Restore, GiveBack
  <2>4. \/ UNCHANGED saved
        \/ \E c \in Conns : RemoveClosed(ch, c)
        \/ \E p \in Pits : GiveUp(ch, p) \/ Restore(ch, p)
    BY DEF ChannelStep, Possess, SubscribeToChannel, BeginRecoverable, EndTick, KeepWaiting
  <2>5. CASE UNCHANGED saved
    BY <2>5
  <2> QED
    BY <2>1, <2>2, <2>3, <2>4, <2>5
<1>3. PhaseInv' /\ TakeOverInv' /\ PollInv'
  BY <1>1 DEF Basics, PhaseInv, Closing, TakeOverInv, PollInv, connVars, pcs, handleVars, clocks
<1>4. MadeInv'
  BY <1>1, <1>2 DEF Basics, MadeInv, Made, connVars, pcs, handleVars, clocks
<1> QED
  BY <1>3, <1>4

\* Every step keeps them.
LEMMA BasicsInductive ==
  ASSUME RecoveryAssumption, Basics, [Next]_vars
  PROVE  Basics'
<1>1. RecoveryInv'
  BY RecoveryInvInductive DEF Basics
<1>2. CASE UNCHANGED vars
  BY <1>1, <1>2 DEF Basics, PhaseInv, Closing, MadeInv, Made, TakeOverInv, PollInv, vars,
     connVars, pcs, handleVars, clocks, channelVars, history
<1> QED
  BY <1>1, <1>2, StepCases, PhaseStep, MadeConnStep, TakeOverConnStep, PollConnStep, BasicsPollStep,
     BasicsChannelStep DEF Basics

\* What a connection's step leaves alone: all that the channels keep, and ages but a
\* new startRecoveryTime.
LEMMA ConnFrame ==
  ASSUME RecoveryAssumption, Basics, NEW c \in Conns, ConnStep(c)
  PROVE  /\ UNCHANGED <<subscribed, saved, removing, left, ticking, ticked, ended, deleting>>
         /\ early \subseteq early'
         /\ \A d \in Conns : Closing(d) => Closing(d)'
         /\ \A h \in Handles : sinceStart'[h] = sinceStart[h] \/ sinceStart'[h] = 0
         /\ \A h \in Handles : \A p \in Pits :
              handles'[p] = h /\ handles[p] # h => sinceStart'[h] = None
<1> USE RecoveryAssumption DEF Basics, RecoveryAssumption, Handles, RecoveryInv, TypeOK, Closing
<1>1. ASSUME NEW i \in Ids, AddConnection(c, i)
      PROVE  /\ UNCHANGED <<channelVars, handleVars, clocks, ended, early, deleting>>
             /\ \A d \in Conns : Closing(d) => Closing(d)'
  BY <1>1 DEF AddConnection, history, pcs
<1>2. ASSUME NEW u \in BOOLEAN, BeginClose(c, u)
      PROVE  /\ UNCHANGED <<channelVars, state, sinceStart, ended, early, deleting>>
             /\ \A h \in Handles : \A p \in Pits :
                  handles'[p] = h /\ handles[p] # h => sinceStart'[h] = None
  BY <1>2 DEF BeginClose, MadeInv
<1>3. CASE CloseState(c)
  BY <1>3 DEF CloseState, handleVars, clocks, channelVars, history
<1>4. CASE EndClose(c) \/ OnAuthenticated(c) \/ ClaimPrevId(c)
  <2>1. /\ UNCHANGED <<channelVars, handleVars, clocks, ended, early, deleting>>
        /\ \A d \in Conns : Closing(d) => Closing(d)'
    BY <1>4 DEF EndClose, OnAuthenticated, Authenticated, ClaimPrevId, history
  <2> QED
    BY <2>1 DEF channelVars, handleVars, clocks
<1>5. CASE SetNewConn(c)
  BY <1>5 DEF SetNewConn, connVars, clocks, channelVars, history
<1>6. CASE SetStartRecoveryTime(c)
  BY <1>6 DEF SetStartRecoveryTime, connVars, handleVars, channelVars
<1> QED
  BY <1>1, <1>2, <1>3, <1>4, <1>5, <1>6 DEF ConnStep, channelVars, handleVars, clocks

\* Only an authenticated connection is subscribed.
SubInv == \A ch \in Channels : \A c \in subscribed[ch] : auth[c] # "idle"

\* Initially.
LEMMA BasicsAtInit ==
  ASSUME RecoveryAssumption, Init
  PROVE  Basics /\ SubInv
<1> USE RecoveryAssumption DEF RecoveryAssumption, Init, Handles
<1>1. RecoveryInv
  BY RecoveryInvInit
<1>2. PhaseInv
  BY DEF PhaseInv, Closing
<1>3. MadeInv
  BY DEF MadeInv, Made, NothingSaved
<1>4. TakeOverInv /\ PollInv
  BY DEF TakeOverInv, PollInv
<1>5. SubInv
  BY DEF SubInv
<1> QED
  BY <1>1, <1>2, <1>3, <1>4, <1>5 DEF Basics

\* Every step keeps that: a subscriber was authenticated, or is someone's new connection.
LEMMA SubInvInductive ==
  ASSUME RecoveryAssumption, Basics, SubInv, [Next]_vars
  PROVE  SubInv'
<1> USE RecoveryAssumption DEF RecoveryAssumption, Handles, Basics, RecoveryInv, TypeOK
<1>1. ASSUME NEW c \in Conns, ConnStep(c) PROVE SubInv'
  <2>1. UNCHANGED subscribed
    BY <1>1, ConnFrame
  <2>2. \A d \in Conns : auth[d] # "idle" => auth'[d] # "idle"
    <3>1. CASE OnAuthenticated(c)
      <4>1. PitOf[c] \in Pits
        BY DEF Pits
      <4>2. \E next \in Handles \cup {"done"} : Authenticated(c, next)
        BY <3>1, <4>1 DEF OnAuthenticated
      <4> QED
        BY <4>2 DEF Authenticated
    <3>2. CASE ~OnAuthenticated(c)
      BY <1>1, <3>2 DEF ConnStep, AddConnection, BeginClose, CloseState, EndClose,
         ClaimPrevId, SetNewConn, SetStartRecoveryTime, pcs
    <3> QED
      BY <3>1, <3>2
  <2> QED
    BY <2>1, <2>2 DEF SubInv
<1>2. CASE Poll \/ Advance
  BY <1>2 DEF Poll, TickConnectionRecovery, DeleteHandle, Advance, SubInv, channelVars, pcs
<1>3. ASSUME NEW ch \in Channels, ChannelStep(ch) PROVE SubInv'
  <2>1. UNCHANGED auth
    BY <1>3 DEF ChannelStep, Possess, SubscribeToChannel, RemoveClosed, RemoveSubscription,
         BeginRecoverable, EndTick, GiveUp, KeepWaiting, Restore, GiveBack, pcs
  <2>2. ASSUME NEW c \in Conns, Possess(ch, c) \/ SubscribeToChannel(ch, c) PROVE SubInv'
    <3>1. \A d \in Channels : \A e \in subscribed'[d] :
            e \in subscribed[d] \/ (e = c /\ state[c] = "authenticated")
      <4>1. CASE Possess(ch, c)
        BY <4>1 DEF Possess, Closing
      <4>2. CASE SubscribeToChannel(ch, c)
        BY <4>2 DEF SubscribeToChannel
      <4> QED
        BY <2>2, <4>1, <4>2
    <3>2. state[c] = "authenticated" => auth[c] # "idle"
      BY DEF PhaseInv
    <3> QED
      BY <2>1, <3>1, <3>2 DEF SubInv
  <2>3. ASSUME NEW c \in Conns, RemoveClosed(ch, c) PROVE SubInv'
    BY <2>1, <2>3 DEF RemoveClosed, RemoveSubscription, SubInv
  <2>4. ASSUME NEW p \in Pits, Restore(ch, p) PROVE SubInv'
    <3> DEFINE h == saved[ch][p].handle
               c == newConn[h]
    <3>1. saved[ch][p] # None
      BY <2>4 DEF Restore, AtEntry, WalkInv
    <3>2. h \in Handles
      BY <3>1
    <3>3. /\ c \in Conns
          /\ subscribed' = [subscribed EXCEPT ![ch] = IF Closing(c) THEN @ ELSE @ \cup {c}]
      BY <2>4, <3>2 DEF Restore, GiveBack
    <3>4. auth[c] # "idle"
      BY <3>2, <3>3 DEF TakeOverInv
    <3> HIDE DEF h, c
    <3> QED
      BY <2>1, <3>3, <3>4 DEF SubInv
  <2>5. CASE \/ BeginRecoverable(ch) \/ EndTick(ch)
             \/ \E p \in Pits : GiveUp(ch, p) \/ KeepWaiting(ch, p)
    BY <2>1, <2>5 DEF BeginRecoverable, EndTick, GiveUp, KeepWaiting, SubInv
  <2> QED
    BY <1>3, <2>2, <2>3, <2>4, <2>5 DEF ChannelStep
<1>4. CASE UNCHANGED vars
  BY <1>4 DEF vars, SubInv, channelVars, pcs
<1> QED
  BY <1>1, <1>2, <1>3, <1>4, StepCases

-----------------------------------------------------------------------------
(* RECOVERY_END comes after the data.  DataTimeOut is a matter of ages: the *)
(* argument goes through what every tick of the channels in between has    *)
(* done.  In the time unit after startRecoveryTime every channel completes *)
(* a tick, which looks at every entry it has kept; an entry of a handle    *)
(* with a new connection is given back by it, and no other is made.        *)

\* Nothing of the handle is in ch, but what an heir that closed has left ...
NothingIn(ch, h) ==
  /\ h \notin subscribed[ch]
  /\ \A p \in Pits : saved[ch][p] # None /\ saved[ch][p].handle = h => HeirClosed(h)

\* ... or nothing but what the walk over ch has still to look at.
PassedIn(ch, h) ==
  /\ h \notin subscribed[ch]
  /\ \A p \in Pits \ left[ch] : saved[ch][p] # None /\ saved[ch][p].handle = h => HeirClosed(h)

\* The wait of a handle that is still in the table is over.
Waited(h) == sinceStart[h] \notin {None, 0, 1} /\ \E p \in Pits : handles[p] = h /\ deleting # p

\* Nothing is left in any channel once the wait is over or has ended, and in the time
\* unit before nothing in the channels that have completed their tick.
AfterInv ==
  \A h \in Handles \ early :
    /\ h \in ended \/ Waited(h) =>
         /\ Closing(h)
         /\ \A ch \in Channels \ removing : NothingIn(ch, h)
    /\ sinceStart[h] = 1 =>
         /\ Closing(h)
         /\ \A ch \in ticked \ removing : NothingIn(ch, h)
         /\ \A ch \in ticking \ removing : PassedIn(ch, h)

\* An heir that closed remains one, unless the poll resets its handle.
LEMMA HeirStays ==
  ASSUME RecoveryAssumption, Basics, NEW c \in Conns, ConnStep(c), NEW h \in Handles, HeirClosed(h)
  PROVE  HeirClosed(h)'
<1> USE RecoveryAssumption DEF Basics, RecoveryAssumption, Handles, RecoveryInv, TypeOK
<1>1. PICK d \in Conns \ {h} : recoverHandle[d] = h /\ Closing(d)
  BY DEF HeirClosed
<1>2. recoverHandle'[d] = h
  <2>1. CASE \/ \E i \in Ids : AddConnection(c, i)
             \/ CloseState(c) \/ EndClose(c) \/ OnAuthenticated(c)
             \/ SetNewConn(c) \/ SetStartRecoveryTime(c)
    <3>1. UNCHANGED recoverHandle
      BY <2>1 DEF AddConnection, CloseState, EndClose, OnAuthenticated, Authenticated,
                  SetNewConn, SetStartRecoveryTime, connVars
    <3> QED
      BY <1>1, <3>1
  <2>2. CASE ClaimPrevId(c)
    BY <1>1, <2>2 DEF ClaimPrevId, TakeOverInv
  <2>3. ASSUME NEW u \in BOOLEAN, BeginClose(c, u) PROVE recoverHandle'[d] = h
    BY <1>1, <2>3 DEF BeginClose, Closing
  <2> QED
    BY <2>1, <2>2, <2>3 DEF ConnStep
<1> QED
  BY <1>1, <1>2, ConnFrame DEF HeirClosed

\* No step of a connection brings anything back.
LEMMA AfterConnStep ==
  ASSUME RecoveryAssumption, Basics, AfterInv, NEW c \in Conns, ConnStep(c)
  PROVE  AfterInv'
<1>1. \A h \in Handles : HeirClosed(h) => HeirClosed(h)'
  BY HeirStays
<1>3. \A h \in Handles : Waited(h)' => Waited(h)
  BY ConnFrame, RecoveryAssumption DEF Waited, RecoveryAssumption
<1>4. ticked \subseteq Channels /\ ticking \subseteq Channels
  BY DEF Basics, RecoveryInv, TypeOK
<1> SUFFICES ASSUME NEW h \in Handles, h \notin early'
             PROVE  /\ h \in ended' \/ Waited(h)' =>
                         /\ Closing(h)'
                         /\ \A ch \in Channels \ removing' : NothingIn(ch, h)'
                    /\ sinceStart'[h] = 1 =>
                         /\ Closing(h)'
                         /\ \A ch \in ticked' \ removing' : NothingIn(ch, h)'
                         /\ \A ch \in ticking' \ removing' : PassedIn(ch, h)'
  BY DEF AfterInv
<1>5. h \notin early
  BY ConnFrame
<1>6. Closing(h) => Closing(h)'
  BY ConnFrame DEF Handles
<1>7. sinceStart'[h] = 1 => sinceStart[h] = 1
  BY ConnFrame
<1>8. UNCHANGED <<subscribed, saved, left, removing, ticking, ticked, ended>>
  <2>1. UNCHANGED removing
    BY DEF ConnStep, AddConnection, BeginClose, CloseState, EndClose, OnAuthenticated,
           Authenticated, ClaimPrevId, SetNewConn, SetStartRecoveryTime, channelVars
  <2> QED
    BY <2>1, ConnFrame
<1>9. ASSUME h \in ended' \/ Waited(h)'
      PROVE  Closing(h)' /\ \A ch \in Channels \ removing' : NothingIn(ch, h)'
  <2>1. h \in ended \/ Waited(h)
    BY <1>3, <1>8, <1>9
  <2>2. Closing(h) /\ \A ch \in Channels \ removing : NothingIn(ch, h)
    BY <1>5, <2>1 DEF AfterInv
  <2> QED
    BY <1>1, <1>6, <1>8, <2>2 DEF NothingIn
<1>10. ASSUME sinceStart'[h] = 1
       PROVE  /\ Closing(h)'
              /\ \A ch \in ticked' \ removing' : NothingIn(ch, h)'
              /\ \A ch \in ticking' \ removing' : PassedIn(ch, h)'
  <2>1. /\ Closing(h)
        /\ \A ch \in ticked \ removing : NothingIn(ch, h)
        /\ \A ch \in ticking \ removing : PassedIn(ch, h)
    BY <1>5, <1>7, <1>10 DEF AfterInv
  <2> QED
    BY <1>1, <1>6, <1>8, <2>1 DEF NothingIn, PassedIn
<1> QED
  BY <1>9, <1>10

\* The poll ends a handle whose wait is over.
LEMMA AfterTickStep ==
  ASSUME RecoveryAssumption, Basics, AfterInv, NEW p \in Pits, TickConnectionRecovery(p)
  PROVE  AfterInv'
<1> USE RecoveryAssumption DEF RecoveryAssumption, Handles
<1> DEFINE g == handles[p]
           c == newConn[g]
<1>1. /\ g \in Handles /\ deleting = None /\ deleting' = p
      /\ UNCHANGED <<state, handles, subscribed, saved, left, removing, ticking, ticked, newConn,
                     sinceStart>>
  BY DEF Basics, RecoveryInv, TypeOK, TickConnectionRecovery, handleVars, channelVars, clocks
<1>2. \/ UNCHANGED <<recoverHandle, ended, early>>
      \/ /\ c \in Conns /\ DataTimeOut(g) /\ recoverHandle' = [recoverHandle EXCEPT ![c] = None]
         /\ ended' = IF Closing(c) THEN ended ELSE ended \cup {g}
         /\ early' = IF sinceStart[g] = None THEN early \cup {g} ELSE early
  BY <1>1 DEF Basics, RecoveryInv, TypeOK, TickConnectionRecovery, ResetHandle
<1>3. \A q \in Pits : handles[q] = g => q = p
  BY <1>1 DEF Basics, PollInv
<1>4. g \notin ended
  BY <1>1 DEF Basics, PollInv, Pits
<1> SUFFICES ASSUME NEW h \in Handles, h \notin early'
             PROVE  /\ h \in ended' \/ Waited(h)' =>
                         /\ Closing(h)'
                         /\ \A ch \in Channels \ removing' : NothingIn(ch, h)'
                    /\ sinceStart'[h] = 1 =>
                         /\ Closing(h)'
                         /\ \A ch \in ticked' \ removing' : NothingIn(ch, h)'
                         /\ \A ch \in ticking' \ removing' : PassedIn(ch, h)'
  BY DEF AfterInv
<1>5. h \notin early /\ Closing(h)' = Closing(h)
  BY <1>1, <1>2 DEF Closing
<1>6. h \in ended' \/ Waited(h)' => h \in ended \/ Waited(h)
  <2>1. Waited(h)' => Waited(h)
    BY <1>1 DEF Waited, Pits
  <2>2. h \in ended' /\ h \notin ended => Waited(h)
    BY <1>1, <1>2 DEF Waited, DataTimeOut, Pits
  <2> QED
    BY <2>1, <2>2
\* The handle looked at loses the one it was given back to, which matters for no other.
<1>7. HeirClosed(h) => HeirClosed(h)' \/ (h = g /\ Closing(c) /\ DataTimeOut(g))
  <2> SUFFICES ASSUME NEW d \in Conns \ {h}, recoverHandle[d] = h, Closing(d), ~HeirClosed(h)'
               PROVE  h = g /\ Closing(c) /\ DataTimeOut(g)
    BY DEF HeirClosed
  <2>1. recoverHandle'[d] # h
    BY <1>1 DEF HeirClosed, Closing
  <2>2. d = c /\ DataTimeOut(g) /\ newConn[g] = c /\ c \in Conns
    BY <1>2, <2>1 DEF Basics, RecoveryInv, TypeOK
  <2>3. recoverHandle[c] \in {g, c, None}
    BY <1>1, <2>2 DEF Basics, TakeOverInv
  <2> QED
    BY <2>2, <2>3
<1>8. CASE HeirClosed(h) => HeirClosed(h)'
  BY <1>1, <1>5, <1>6, <1>8 DEF AfterInv, NothingIn, PassedIn
<1>9. CASE h = g /\ Closing(c) /\ DataTimeOut(g)
  <2>1. h \notin ended'
    BY <1>2, <1>4, <1>9
  <2>2. ~Waited(h)'
    BY <1>1, <1>3, <1>9 DEF Waited
  <2>3. sinceStart'[h] # 1
    BY <1>1, <1>9 DEF DataTimeOut
  <2> QED
    BY <2>1, <2>2, <2>3
<1> QED
  BY <1>7, <1>8, <1>9

\* Time goes by only when every channel has completed its tick.
LEMMA AfterPollStep ==
  ASSUME RecoveryAssumption, Basics, AfterInv, Poll \/ Advance
  PROVE  AfterInv'
<1> USE RecoveryAssumption DEF RecoveryAssumption, Handles
<1>1. CASE DeleteHandle
  <2>1. /\ handles' = [handles EXCEPT ![deleting] = None] /\ deleting' = None
        /\ UNCHANGED <<state, recoverHandle, sinceStart, subscribed, saved, left, removing, ticking,
                       ticked, ended, early>>
    BY <1>1 DEF DeleteHandle, connVars, clocks, channelVars, history
  <2>2. \A h \in Handles : Waited(h)' => Waited(h)
    <3>1. \A h \in Handles, q \in Pits : handles'[q] = h => handles[q] = h /\ deleting # q
      BY <2>1 DEF Basics, RecoveryInv, TypeOK
    <3> QED
      BY <2>1, <3>1 DEF Waited
  <2>3. \A h \in Handles : Closing(h)' = Closing(h) /\ HeirClosed(h)' = HeirClosed(h)
    BY <2>1 DEF Closing, HeirClosed
  <2> QED
    BY <2>1, <2>2, <2>3 DEF AfterInv, NothingIn, PassedIn
<1>2. CASE Advance
  <2>1. /\ ticked \cup removing = Channels /\ ticking = {} /\ deleting = None /\ ticked' = {}
        /\ \A c \in Conns : closing[c] \in {"open", "closed"}
        /\ sinceStart' = [h \in Handles |-> Grow(sinceStart[h], 1)]
        /\ UNCHANGED <<state, recoverHandle, handles, newConn, deleting, subscribed, saved, left,
                       removing, ticking, ended, early>>
    BY <1>2 DEF Advance, connVars, pcs, handleVars, history
  <2>2. \A h \in Handles : Closing(h)' = Closing(h) /\ HeirClosed(h)' = HeirClosed(h)
    BY <2>1 DEF Closing, HeirClosed
  <2> SUFFICES ASSUME NEW h \in Handles, h \notin early
               PROVE  /\ h \in ended \/ Waited(h)' =>
                           /\ Closing(h)
                           /\ \A ch \in Channels \ removing : NothingIn(ch, h)
                      /\ sinceStart'[h] = 1 => Closing(h)
    BY <2>1, <2>2 DEF AfterInv, NothingIn
  <2>3. CASE sinceStart[h] = 1
    BY <2>1, <2>3 DEF AfterInv
  <2>4. CASE sinceStart[h] # 1
    <3>1. Waited(h)' => Waited(h)
      BY <2>1, <2>4 DEF Waited, Grow, Basics, RecoveryInv, TypeOK, Ages
    <3>2. sinceStart'[h] = 1 => Made(h)
      BY <2>1, <2>4 DEF Grow, Basics, RecoveryInv, TypeOK, Ages, MadeInv
    <3>3. Made(h) => Closing(h)
      BY <2>1 DEF Basics, MadeInv, PhaseInv
    <3> QED
      BY <3>1, <3>2, <3>3 DEF AfterInv
  <2> QED
    BY <2>3, <2>4
<1> QED
  BY <1>1, <1>2, AfterTickStep DEF Poll
\* What a step of a channel does to what is kept of the handle h of a closing connection.
LEMMA ChannelFrame ==
  ASSUME RecoveryAssumption, Basics, NEW ch \in Channels, ChannelStep(ch),
         NEW h \in Handles, Closing(h), NEW d \in Channels
  PROVE  /\ h \in subscribed'[d] => h \in subscribed[d]
         /\ \A p \in Pits : saved'[d][p] # None /\ saved'[d][p].handle = h =>
              \/ saved[d][p] # None /\ saved[d][p].handle = h
              \/ HeirClosed(h)
              \/ h \in subscribed[d] /\ d \notin ticking
         /\ removing \subseteq removing'
         /\ d \in ticked' => d \in ticked \/ (d \in ticking /\ left[d] = {})
         /\ d \in ticking' => \/ d \in ticking
                              \/ /\ h \notin subscribed[d]
                                 /\ left'[d] = {p \in Pits : saved'[d][p] # None}
         /\ d \in ticking =>
              \A p \in Pits \ left'[d] : \/ p \notin left[d] \/ saved'[d][p] = None
                                         \/ /\ newConn[saved[d][p].handle] = None
                                            /\ saved'[d] = saved[d]
<1> USE RecoveryAssumption DEF RecoveryAssumption, Handles, Basics, RecoveryInv, TypeOK
<1>1. ASSUME NEW c \in Conns, Possess(ch, c) \/ SubscribeToChannel(ch, c)
      PROVE  /\ UNCHANGED <<saved, removing, left, ticking, ticked>>
             /\ h \in subscribed'[d] => h \in subscribed[d]
  <2>1. UNCHANGED <<saved, removing, left, ticking, ticked>>
    BY <1>1 DEF Possess, SubscribeToChannel
  <2>2. subscribed \in [Channels -> SUBSET Conns]
    OBVIOUS
  <2>3. /\ c = h => subscribed' = [subscribed EXCEPT ![ch] = @]
        /\ c # h => \E S \in {{}, {c}} : subscribed' = [subscribed EXCEPT ![ch] = @ \cup S]
    <3>1. CASE Possess(ch, c)
      BY <3>1, <2>2 DEF Possess
    <3>2. CASE SubscribeToChannel(ch, c)
      BY <3>2, <2>2 DEF SubscribeToChannel, Closing
    <3> QED
      BY <1>1, <3>1, <3>2
  <2>4. h \in subscribed'[d] => h \in subscribed[d]
    <3> SUFFICES ASSUME h \in subscribed'[d] PROVE h \in subscribed[d]
      OBVIOUS
    <3>1. CASE c = h
      BY <2>2, <2>3, <3>1
    <3>2. CASE c # h
      <4>1. PICK S \in {{}, {c}} : subscribed' = [subscribed EXCEPT ![ch] = @ \cup S]
        BY <2>3, <3>2
      <4>2. h \notin S
        BY <3>2
      <4> QED
        BY <2>2, <4>1, <4>2
    <3> QED
      BY <3>1, <3>2
  <2> QED
    BY <2>1, <2>4
<1>2. ASSUME NEW c \in Conns, RemoveClosed(ch, c)
      PROVE  /\ UNCHANGED <<left, ticking, ticked>>
             /\ removing \subseteq removing'
             /\ h \in subscribed'[d] => h \in subscribed[d]
             /\ \A p \in Pits : saved'[d][p] # None /\ saved'[d][p].handle = h =>
                  \/ saved[d][p] # None /\ saved[d][p].handle = h
                  \/ HeirClosed(h)
                  \/ h \in subscribed[d] /\ d \notin ticking
  <2> DEFINE entry == [handle |-> recoverHandle[c], isOwner |-> owner[ch] = c]
  <2>1. /\ ch \notin ticking /\ c \in subscribed[ch] /\ Closing(c)
        /\ subscribed' = [subscribed EXCEPT ![ch] = @ \ {c}]
        /\ saved' = IF recoverHandle[c] # None THEN [saved EXCEPT ![ch][pit[c]] = entry] ELSE saved
        /\ removing \subseteq removing'
        /\ UNCHANGED <<left, ticking, ticked>>
    BY <1>2 DEF RemoveClosed, RemoveSubscription
  <2>2. entry.handle = recoverHandle[c]
    OBVIOUS
  <2> HIDE DEF entry
  <2>3. ASSUME NEW p \in Pits, saved'[d][p] # saved[d][p]
        PROVE  d = ch /\ saved'[d][p] = entry
    BY <2>1, <2>3
  <2>4. recoverHandle[c] = h => HeirClosed(h) \/ h = c
    BY <2>1 DEF HeirClosed
  <2> QED
    BY <2>1, <2>2, <2>3, <2>4
<1>3. CASE BeginRecoverable(ch)
  BY <1>3 DEF BeginRecoverable
<1>4. CASE EndTick(ch)
  BY <1>4 DEF EndTick
<1>5. ASSUME NEW q \in Pits, GiveUp(ch, q)
      PROVE  /\ UNCHANGED <<subscribed, ticking, ticked>>
             /\ removing \subseteq removing'
             /\ \A p \in Pits : saved'[d][p] # None => saved'[d][p] = saved[d][p]
             /\ \A p \in Pits \ left'[d] : p \notin left[d] \/ saved'[d][p] = None
  BY <1>5 DEF GiveUp, NothingSaved
<1>6. ASSUME NEW q \in Pits, KeepWaiting(ch, q)
      PROVE  /\ UNCHANGED <<subscribed, saved, removing, ticking, ticked>>
             /\ \A p \in Pits \ left'[d] : p \notin left[d] \/ newConn[saved[d][p].handle] = None
  BY <1>6 DEF KeepWaiting
<1>7. ASSUME NEW q \in Pits, Restore(ch, q)
      PROVE  /\ UNCHANGED <<removing, ticking, ticked>>
             /\ h \in subscribed'[d] => h \in subscribed[d]
             /\ \A p \in Pits : saved'[d][p] # None => saved'[d][p] = saved[d][p]
             /\ \A p \in Pits \ left'[d] : p \notin left[d] \/ saved'[d][p] = None
  <2> DEFINE c == newConn[saved[ch][q].handle]
  <2>1. /\ subscribed' = [subscribed EXCEPT ![ch] = IF Closing(c) THEN @ ELSE @ \cup {c}]
        /\ saved' = [saved EXCEPT ![ch][q] = None]
        /\ left' = [left EXCEPT ![ch] = @ \ {q}]
        /\ UNCHANGED <<removing, ticking, ticked>>
    BY <1>7 DEF Restore, GiveBack
  <2> HIDE DEF c
  <2>2. h \in subscribed'[d] => h \in subscribed[d]
    BY <2>1
  <2> QED
    BY <2>1, <2>2
<1> QED
  BY <1>1, <1>2, <1>3, <1>4, <1>5, <1>6, <1>7 DEF ChannelStep

\* No step of a channel brings anything back, and a completed tick has left nothing.
LEMMA AfterChannelStep ==
  ASSUME RecoveryAssumption, Basics, AfterInv, NEW ch \in Channels, ChannelStep(ch)
  PROVE  AfterInv'
<1>1. UNCHANGED <<connVars, pcs, handleVars, clocks, ended, early>>
  BY DEF ChannelStep, Possess, SubscribeToChannel, RemoveClosed, RemoveSubscription,
         BeginRecoverable, EndTick, GiveUp, KeepWaiting, Restore, GiveBack, history
<1>2. \A h \in Handles : /\ Closing(h)' = Closing(h) /\ HeirClosed(h)' = HeirClosed(h)
                         /\ Waited(h)' = Waited(h) /\ sinceStart'[h] = sinceStart[h]
  BY <1>1 DEF Closing, HeirClosed, Waited, connVars, pcs, handleVars, clocks
<1>3. \A h \in Handles \ early : sinceStart[h] = 1 => newConn[h] # None
  BY RecoveryAssumption DEF Basics, PollInv, RecoveryAssumption
<1> SUFFICES ASSUME NEW h \in Handles, h \notin early
             PROVE  /\ h \in ended \/ Waited(h) =>
                         /\ Closing(h)
                         /\ \A d \in Channels \ removing' : NothingIn(d, h)'
                    /\ sinceStart[h] = 1 =>
                         /\ Closing(h)
                         /\ \A d \in ticked' \ removing' : NothingIn(d, h)'
                         /\ \A d \in ticking' \ removing' : PassedIn(d, h)'
  BY <1>1, <1>2 DEF AfterInv
<1>4. ticked \subseteq Channels /\ ticking \subseteq Channels /\ ticked' \subseteq Channels
      /\ ticking' \subseteq Channels
  <2>1. [Next]_vars
    BY DEF ChannelStep, Next, Tick, WalkOn
  <2> QED
    BY <2>1, RecoveryInvInductive DEF Basics, RecoveryInv, TypeOK
<1>5. ASSUME Closing(h), NEW d \in Channels \ removing, NothingIn(d, h) PROVE NothingIn(d, h)'
  BY <1>2, <1>5, ChannelFrame DEF NothingIn
<1>6. ASSUME h \in ended \/ Waited(h)
      PROVE  Closing(h) /\ \A d \in Channels \ removing' : NothingIn(d, h)'
  <2>1. Closing(h) /\ \A d \in Channels \ removing : NothingIn(d, h)
    BY <1>6 DEF AfterInv
  <2>2. removing \subseteq removing'
    BY <2>1, ChannelFrame
  <2> QED
    BY <1>5, <2>1, <2>2
<1>7. ASSUME sinceStart[h] = 1
      PROVE  /\ Closing(h)
             /\ \A d \in ticked' \ removing' : NothingIn(d, h)'
             /\ \A d \in ticking' \ removing' : PassedIn(d, h)'
  <2>1. /\ Closing(h)
        /\ \A d \in ticked \ removing : NothingIn(d, h)
        /\ \A d \in ticking \ removing : PassedIn(d, h)
    BY <1>7 DEF AfterInv
  <2>2. removing \subseteq removing'
    BY <2>1, ChannelFrame
  <2>3. ASSUME NEW d \in ticked' \ removing' PROVE NothingIn(d, h)'
    <3>1. d \in ticked \/ (d \in ticking /\ left[d] = {})
      BY <1>4, <2>1, <2>3, ChannelFrame
    <3>2. NothingIn(d, h)
      BY <2>1, <2>2, <3>1 DEF NothingIn, PassedIn
    <3> QED
      BY <1>4, <1>5, <2>1, <2>2, <3>2
  <2>4. ASSUME NEW d \in ticking' \ removing', d \in ticking PROVE PassedIn(d, h)'
    <3>1. PassedIn(d, h) /\ d \in Channels
      BY <1>4, <2>1, <2>2, <2>4
    <3>2. h \notin subscribed'[d]
      BY <2>1, <3>1, ChannelFrame DEF PassedIn
    <3>3. ASSUME NEW p \in Pits \ left'[d], saved'[d][p] # None, saved'[d][p].handle = h
          PROVE  HeirClosed(h)
      <4>1. \/ saved[d][p] # None /\ saved[d][p].handle = h
            \/ HeirClosed(h)
        BY <2>1, <2>4, <3>1, <3>3, ChannelFrame DEF PassedIn
      <4>2. \/ p \notin left[d]
            \/ newConn[saved[d][p].handle] = None /\ saved'[d] = saved[d]
        BY <2>1, <2>4, <3>1, <3>3, ChannelFrame
      <4> QED
        BY <1>3, <1>7, <3>1, <3>3, <4>1, <4>2 DEF PassedIn
    <3> QED
      BY <1>2, <3>2, <3>3 DEF PassedIn
  <2>5. ASSUME NEW d \in ticking' \ removing', d \notin ticking PROVE PassedIn(d, h)'
    <3>1. /\ h \notin subscribed[d]
          /\ left'[d] = {p \in Pits : saved'[d][p] # None}
      BY <1>4, <2>1, <2>5, ChannelFrame
    <3>2. h \notin subscribed'[d]
      BY <1>4, <2>1, <3>1, ChannelFrame
    <3> QED
      BY <3>1, <3>2 DEF PassedIn, Pits
  <2> QED
    BY <2>1, <2>3, <2>4, <2>5
<1> QED
  BY <1>6, <1>7

\* RECOVERY_END comes after the data of every channel: for any number of connections,
\* channels and PITs, and any timeout, no channel still keeps a subscription of a handle
\* whose live new connection was sent RECOVERY_END after the wait, except what a new
\* connection that closed has left.
THEOREM EndComesAfterData == Spec => []EndAfterWaitIsAfterData
<1> DEFINE Inv == Basics /\ AfterInv
<1>1. Init => Inv
  <2>1. Init => AfterInv
    BY RecoveryAssumption DEF RecoveryAssumption, Init, AfterInv, Waited
  <2> QED
    BY <2>1, BasicsAtInit, RecoveryAssumption
<1>2. Inv /\ [Next]_vars => Inv'
  <2> SUFFICES ASSUME Basics, AfterInv, [Next]_vars PROVE AfterInv'
    BY BasicsInductive, RecoveryAssumption
  <2>1. CASE UNCHANGED vars
    BY <2>1 DEF AfterInv, NothingIn, PassedIn, HeirClosed, Waited, Closing, vars, connVars,
       pcs, handleVars, clocks, channelVars, history
  <2> QED
    BY <2>1, StepCases, AfterConnStep, AfterPollStep, AfterChannelStep, RecoveryAssumption
<1>3. Inv => EndAfterWaitIsAfterData
  BY DEF Basics, PollInv, AfterInv, NothingIn, EndAfterWaitIsAfterData, NothingLeft
<1> QED
  BY <1>1, <1>2, <1>3, PTL DEF Spec
-----------------------------------------------------------------------------
(* What is lost.  The excuses of OnlyKnownLosses, made so precise that no  *)
(* step undoes one.                                                        *)

\* The id of c was taken over by a connection that closes; c had itself taken over one;
\* or one with the same PIT, which broke down or had taken over an id, closes.
Excused(c) ==
  \/ \E d \in Conns \ {c} : /\ id[d] = prevConnId[c] /\ closing[d] # "open"
                            /\ auth[d] \in {"link", "start", "done"}
  \/ TookOver(c)
  \/ \E d \in Conns \ {c} : /\ pit[d] = pit[c] /\ closing[d] # "open" /\ auth[d] # "idle"
                            /\ Made(d) \/ TookOver(d)

\* The type of the history of losses.
HistoryTypeOK == lost \in [Channels -> SUBSET Conns] /\ restored \in [Channels -> SUBSET Conns]
                 /\ overdue \in [Channels -> SUBSET Conns]

\* Only a connection that has taken over an id, or broke down before it had a
\* subscription, is anyone's new connection.
HeirInv ==
  \A c \in Conns :
    auth[c] \in {"link", "start"} \/ (\E h \in Handles : newConn[h] = c) =>
      TookOver(c) \/ (Made(c) /\ \A ch \in Channels : c \notin lost[ch])

\* A connection that broke down while subscribed is kept, or there is an excuse.
LostInv ==
  \A ch \in Channels : \A c \in lost[ch] :
    /\ Made(c) /\ auth[c] \notin {"idle", c}
    /\ recoverHandle[c] = c \/ TookOver(c)
    /\ ch \in removing \/ Kept(ch, c) \/ Excused(c) \/ overdue[ch] # {}

\* An id that was taken over is never given up for an own one.
LEMMA TookOverStays ==
  ASSUME RecoveryAssumption, Basics, NEW c \in Conns, ConnStep(c),
         NEW d \in Conns, auth[d] # "idle", d = c => auth[d] # d, TookOver(d)
  PROVE  TookOver(d)'
<1> USE RecoveryAssumption DEF RecoveryAssumption, Handles, Basics, RecoveryInv, TypeOK
<1>1. PICK h \in Handles \ {d} : id[d] = prevConnId[h]
  BY DEF TookOver
<1>2. id[d] # None
  BY DEF PhaseInv
<1>3. prevConnId'[h] = prevConnId[h]
  <2>1. ASSUME NEW u \in BOOLEAN, BeginClose(c, u) PROVE prevConnId'[h] = prevConnId[h]
    BY <1>1, <1>2, <2>1 DEF BeginClose, MadeInv
  <2>2. CASE ~\E u \in BOOLEAN : BeginClose(c, u)
    BY <2>2 DEF ConnStep, AddConnection, CloseState, EndClose, OnAuthenticated, Authenticated,
                ClaimPrevId, SetNewConn, SetStartRecoveryTime, handleVars
  <2> QED
    BY <2>1, <2>2
<1>4. \/ id'[d] = id[d]
      \/ d = c /\ id'[d] = prevConnId[auth[d]] /\ auth[d] \in Handles /\ UNCHANGED prevConnId
  <2>1. CASE ClaimPrevId(c)
    BY <2>1 DEF ClaimPrevId, handleVars
  <2>2. ASSUME NEW i \in Ids, AddConnection(c, i) PROVE id'[d] = id[d]
    BY <1>2, <2>2 DEF AddConnection, PhaseInv
  <2>3. CASE ~ClaimPrevId(c) /\ ~\E i \in Ids : AddConnection(c, i)
    BY <2>3 DEF ConnStep, BeginClose, CloseState, EndClose, OnAuthenticated, Authenticated,
                SetNewConn, SetStartRecoveryTime, connVars
  <2> QED
    BY <2>1, <2>2, <2>3
<1> QED
  BY <1>1, <1>3, <1>4 DEF TookOver

\* The excuses remain.
LEMMA ExcusedStays ==
  ASSUME RecoveryAssumption, Basics, NEW e \in Conns, ConnStep(e),
         NEW c \in Conns, Made(c), auth[c] \notin {"idle", c}, Excused(c)
  PROVE  Excused(c)'
<1> USE RecoveryAssumption DEF RecoveryAssumption, Handles, Basics, RecoveryInv, TypeOK
\* Nothing that an excuse is made of is undone.
<1>1. \A d \in Conns :
        /\ closing[d] # "open" => closing'[d] # "open"
        /\ auth[d] \in {"link", "start", "done"} =>
             auth'[d] \in {"link", "start", "done"} /\ id'[d] = id[d]
        /\ auth[d] # "idle" => auth'[d] # "idle" /\ pit'[d] = pit[d]
        /\ Made(d) => Made(d)' /\ prevConnId'[d] = prevConnId[d]
  <2>1. CASE OnAuthenticated(e)
    <3>1. PitOf[e] \in Pits
      BY DEF Pits
    <3>2. \E next \in Handles \cup {"done"} : Authenticated(e, next)
      BY <2>1, <3>1 DEF OnAuthenticated
    <3> QED
      BY <3>2 DEF Authenticated, Made, handleVars, clocks
  <2>2. CASE ClaimPrevId(e)
    BY <2>2 DEF ClaimPrevId, Made, handleVars, clocks
  <2>3. ASSUME NEW u \in BOOLEAN, BeginClose(e, u)
        PROVE  /\ UNCHANGED <<auth, id, pit>>
               /\ \A d \in Conns : /\ closing[d] # "open" => closing'[d] # "open"
                                   /\ Made(d) => Made(d)' /\ prevConnId'[d] = prevConnId[d]
    BY <2>3 DEF BeginClose, Made, MadeInv
  <2>4. ASSUME NEW i \in Ids, AddConnection(e, i)
        PROVE  /\ UNCHANGED <<auth, closing, pit, sinceDisconn, prevConnId>>
               /\ \A d \in Conns : auth[d] # "idle" => id'[d] = id[d]
    BY <2>4 DEF AddConnection, PhaseInv, pcs, clocks, handleVars
  <2>5. CASE CloseState(e) \/ EndClose(e) \/ SetNewConn(e) \/ SetStartRecoveryTime(e)
    <3>1. UNCHANGED <<id, pit, sinceDisconn, prevConnId>>
      BY <2>5 DEF CloseState, EndClose, SetNewConn, SetStartRecoveryTime, connVars, clocks,
         handleVars
    <3>2. \A d \in Conns :
            /\ closing[d] # "open" => closing'[d] # "open"
            /\ auth[d] \in {"link", "start", "done"} => auth'[d] \in {"link", "start", "done"}
            /\ auth[d] # "idle" => auth'[d] # "idle"
      BY <2>5 DEF CloseState, EndClose, SetNewConn, SetStartRecoveryTime
    <3> QED
      BY <3>1, <3>2 DEF Made
  <2> QED
    BY <2>1, <2>2, <2>3, <2>4, <2>5 DEF ConnStep, Made
<1>2. \A d \in Conns : auth[d] # "idle" /\ (Made(d) \/ TookOver(d)) => Made(d)' \/ TookOver(d)'
  BY <1>1, TookOverStays DEF MadeInv
<1>3. TookOver(c) => TookOver(c)'
  BY TookOverStays
<1>4. ASSUME NEW d \in Conns \ {c}, id[d] = prevConnId[c], closing[d] # "open",
             auth[d] \in {"link", "start", "done"}
      PROVE  Excused(c)'
  <2>1. id'[d] = prevConnId'[c] /\ closing'[d] # "open" /\ auth'[d] \in {"link", "start", "done"}
    BY <1>1, <1>4
  <2> QED
    BY <2>1 DEF Excused
<1>5. ASSUME NEW d \in Conns \ {c}, pit[d] = pit[c], closing[d] # "open", auth[d] # "idle",
             Made(d) \/ TookOver(d)
      PROVE  Excused(c)'
  <2>1. pit'[d] = pit'[c] /\ closing'[d] # "open" /\ auth'[d] # "idle"
    BY <1>1, <1>5
  <2> QED
    BY <1>2, <1>5, <2>1 DEF Excused
<1> QED
  BY <1>3, <1>4, <1>5 DEF Excused

\* HeirInv, when a connection takes a step: ClaimPrevId takes an id over.
LEMMA HeirConnStep ==
  ASSUME RecoveryAssumption, Basics, HistoryTypeOK, SubInv, HeirInv, LostInv,
         NEW e \in Conns, ConnStep(e)
  PROVE  HeirInv'
<1> USE RecoveryAssumption DEF RecoveryAssumption, Handles, Basics, RecoveryInv, TypeOK
<1> SUFFICES ASSUME NEW c \in Conns,
                    auth'[c] \in {"link", "start"} \/ \E h \in Handles : newConn'[h] = c
             PROVE  TookOver(c)' \/ (Made(c)' /\ \A ch \in Channels : c \notin lost'[ch])
  BY DEF HeirInv
<1>1. CASE auth[c] \in {"link", "start"} \/ \E h \in Handles : newConn[h] = c
  <2>1. auth[c] \notin {"idle", c}
    BY <1>1 DEF TakeOverInv
  <2>2. TookOver(c) => TookOver(c)'
    BY <2>1, TookOverStays
  <2>3. CASE Made(c) /\ \A ch \in Channels : c \notin lost[ch]
    <3>1. Made(c)' /\ \A ch \in Channels : c \notin lost'[ch]
      <4>1. ASSUME NEW u \in BOOLEAN, BeginClose(e, u)
            PROVE Made(c)' /\ \A ch \in Channels : c \notin lost'[ch]
        <5>1. e # c
          BY <2>3, <4>1 DEF BeginClose, MadeInv
        <5>2. CASE u
          <6>1. /\ sinceDisconn' = [sinceDisconn EXCEPT ![e] = 0]
                /\ lost' = [ch \in Channels |-> IF e \in subscribed[ch] THEN lost[ch] \cup {e}
                                                                       ELSE lost[ch]]
            BY <4>1, <5>2 DEF BeginClose
          <6>2. Made(c)'
            BY <2>3, <5>1, <6>1 DEF Made
          <6>3. \A ch \in Channels : c \notin lost'[ch]
            BY <2>3, <5>1, <6>1
          <6> QED
            BY <6>2, <6>3
        <5>3. CASE ~u
          BY <2>3, <4>1, <5>3 DEF BeginClose, Made
        <5> QED
          BY <5>2, <5>3
      <4>2. CASE ~\E u \in BOOLEAN : BeginClose(e, u)
        <5>1. UNCHANGED <<sinceDisconn, lost>>
          BY <4>2 DEF ConnStep, AddConnection, CloseState, EndClose, OnAuthenticated, Authenticated,
                ClaimPrevId, SetNewConn, SetStartRecoveryTime, clocks, history
        <5> QED
          BY <2>3, <5>1 DEF Made
      <4> QED
        BY <4>1, <4>2
    <3> QED
      BY <3>1
  <2> QED
    BY <1>1, <2>2, <2>3 DEF HeirInv
<1>2. CASE ~(auth[c] \in {"link", "start"} \/ \E h \in Handles : newConn[h] = c)
  <2>1. e = c /\ ClaimPrevId(c)
    <3>1. CASE OnAuthenticated(e)
      <4>1. PitOf[e] \in Pits
        BY DEF Pits
      <4>2. \E next \in Handles \cup {"done"} : Authenticated(e, next)
        BY <3>1, <4>1 DEF OnAuthenticated
      <4> QED
        BY <1>2, <4>2 DEF Authenticated, handleVars
    <3>2. CASE SetNewConn(e)
      BY <1>2, <3>2 DEF SetNewConn
    <3>3. CASE ~OnAuthenticated(e) /\ ~SetNewConn(e)
      BY <1>2, <3>3 DEF ConnStep, AddConnection, BeginClose, CloseState, EndClose,
                ClaimPrevId, SetStartRecoveryTime, handleVars, pcs
    <3> QED
      BY <3>1, <3>2, <3>3
  <2>2. /\ auth[c] \in Handles /\ id' = [id EXCEPT ![c] = prevConnId[auth[c]]]
        /\ UNCHANGED <<prevConnId, sinceDisconn, lost>>
    BY <1>2, <2>1 DEF ClaimPrevId, handleVars, clocks, history
  <2>3. CASE auth[c] # c
    BY <2>2, <2>3 DEF TookOver
  <2>4. CASE auth[c] = c
    BY <2>2, <2>4 DEF LostInv, HistoryTypeOK, MadeInv, Made
  <2> QED
    BY <2>3, <2>4
<1> QED
  BY <1>1, <1>2
\* LostInv, when a connection takes a step: one that breaks down is still subscribed.
LEMMA LostConnStep ==
  ASSUME RecoveryAssumption, Basics, HistoryTypeOK, SubInv, HeirInv, LostInv,
         NEW e \in Conns, ConnStep(e)
  PROVE  HistoryTypeOK' /\ LostInv'
<1> USE RecoveryAssumption DEF RecoveryAssumption, Handles, Basics, RecoveryInv, TypeOK
<1>1. /\ UNCHANGED <<removing, restored, overdue, subscribed, saved>>
      /\ \A ch \in Channels : \A c \in lost'[ch] :
           \/ c \in lost[ch]
           \/ /\ c = e /\ e \in subscribed[ch] /\ BeginClose(e, TRUE)
      /\ HistoryTypeOK'
  <2>1. CASE BeginClose(e, TRUE)
    <3>1. /\ lost' = [ch \in Channels |-> IF e \in subscribed[ch] THEN lost[ch] \cup {e}
                                                                   ELSE lost[ch]]
          /\ UNCHANGED <<removing, restored, overdue, subscribed, saved>>
      BY <2>1 DEF BeginClose, channelVars
    <3>2. HistoryTypeOK'
      BY <3>1 DEF HistoryTypeOK
    <3>3. \A ch \in Channels : \A c \in lost'[ch] :
            c \in lost[ch] \/ (c = e /\ e \in subscribed[ch])
      BY <3>1
    <3> QED
      BY <2>1, <3>1, <3>2, <3>3
  <2>2. CASE ~BeginClose(e, TRUE)
    <3>1. UNCHANGED <<removing, restored, overdue, lost, subscribed, saved>>
      <4>1. ASSUME NEW u \in BOOLEAN, BeginClose(e, u)
            PROVE  UNCHANGED <<removing, restored, overdue, lost, subscribed, saved>>
        BY <2>2, <4>1 DEF BeginClose, channelVars
      <4> QED
        BY <4>1 DEF ConnStep, AddConnection, CloseState, EndClose, OnAuthenticated, Authenticated,
           ClaimPrevId, SetNewConn, SetStartRecoveryTime, channelVars, history
    <3> QED
      BY <3>1 DEF HistoryTypeOK
  <2> QED
    BY <2>1, <2>2
<1> SUFFICES ASSUME NEW ch \in Channels, NEW c \in lost'[ch]
             PROVE  /\ Made(c)' /\ auth'[c] \notin {"idle", c}
                    /\ recoverHandle'[c] = c \/ TookOver(c)'
                    /\ ch \in removing' \/ Kept(ch, c)' \/ Excused(c)' \/ overdue'[ch] # {}
  BY <1>1 DEF LostInv
<1>2. c \in Conns
  BY <1>1 DEF HistoryTypeOK
<1>3. CASE c \in lost[ch]
  <2>1. /\ Made(c) /\ auth[c] \notin {"idle", c}
        /\ recoverHandle[c] = c \/ TookOver(c)
        /\ ch \in removing \/ Kept(ch, c) \/ Excused(c) \/ overdue[ch] # {}
    BY <1>3 DEF LostInv
  <2>2. TookOver(c) => TookOver(c)'
    BY <1>2, <2>1, TookOverStays
  <2>3. Excused(c) => Excused(c)'
    BY <1>2, <2>1, ExcusedStays
  <2>4. Kept(ch, c) => Kept(ch, c)'
    BY <1>1 DEF Kept
  <2>5. /\ Made(c)' /\ auth'[c] \notin {"idle", c}
        /\ recoverHandle'[c] = recoverHandle[c] \/ recoverHandle'[c] = c \/ TookOver(c)'
    <3>1. CASE OnAuthenticated(e)
      <4>1. PitOf[e] \in Pits
        BY DEF Pits
      <4>2. \E next \in Handles \cup {"done"} : Authenticated(e, next)
        BY <3>1, <4>1 DEF OnAuthenticated
      <4> QED
        BY <1>2, <2>1, <4>2 DEF Authenticated, Made, clocks
    <3>2. CASE ClaimPrevId(e)
      <4>1. c # e => UNCHANGED <<id[c], auth[c], recoverHandle[c]>>
        BY <1>2, <3>2 DEF ClaimPrevId
      <4>2. c = e => \/ auth'[c] = "done" /\ UNCHANGED recoverHandle
                     \/ /\ auth'[c] = "link" /\ auth[c] \in Handles
                        /\ id'[c] = prevConnId[auth[c]]
        BY <1>2, <3>2 DEF ClaimPrevId
      <4>3. UNCHANGED <<sinceDisconn, prevConnId>>
        BY <3>2 DEF ClaimPrevId, handleVars, clocks
      <4> QED
        BY <1>2, <2>1, <4>1, <4>2, <4>3 DEF Made, TookOver
    <3>3. ASSUME NEW u \in BOOLEAN, BeginClose(e, u)
          PROVE  Made(c)' /\ UNCHANGED auth /\ recoverHandle'[c] \in {recoverHandle[c], c}
      BY <1>2, <2>1, <3>3 DEF BeginClose, Made
    <3>4. CASE ~OnAuthenticated(e) /\ ~ClaimPrevId(e) /\ ~\E u \in BOOLEAN : BeginClose(e, u)
      <4>1. UNCHANGED <<recoverHandle, sinceDisconn>>
        BY <3>4 DEF ConnStep, AddConnection, CloseState, EndClose, SetNewConn, SetStartRecoveryTime,
           connVars, clocks
      <4>2. auth'[c] \in {auth[c], "start", "done"}
        BY <1>2, <3>4 DEF ConnStep, AddConnection, CloseState, EndClose, SetNewConn,
           SetStartRecoveryTime, pcs
      <4> QED
        BY <1>2, <2>1, <4>1, <4>2 DEF Made
    <3> QED
      BY <2>1, <3>1, <3>2, <3>3, <3>4
  <2> QED
    BY <1>1, <2>1, <2>2, <2>3, <2>4, <2>5
<1>4. CASE c = e /\ e \in subscribed[ch] /\ BeginClose(e, TRUE)
  <2>1. Made(c)' /\ recoverHandle'[c] = c /\ UNCHANGED auth
    BY <1>4 DEF BeginClose, Made
  <2>2. auth[c] # "idle" /\ ~Made(c)
    BY <1>4 DEF SubInv, BeginClose, MadeInv
  <2>3. Kept(ch, c)'
    BY <1>1, <1>4 DEF Kept
  <2> QED
    BY <1>2, <2>1, <2>2, <2>3 DEF MadeInv
<1> QED
  BY <1>1, <1>3, <1>4

\* The poll takes nothing from the channels, but a handle from a new connection.
LEMMA LostPollStep ==
  ASSUME RecoveryAssumption, Basics, HistoryTypeOK, HeirInv, LostInv, Poll \/ Advance
  PROVE  HistoryTypeOK' /\ HeirInv' /\ LostInv'
<1> USE RecoveryAssumption DEF RecoveryAssumption, Handles, Basics, RecoveryInv, TypeOK
<1>1. /\ UNCHANGED <<id, pit, closing, auth, prevConnId, newConn, subscribed, saved, removing, lost,
                     restored, overdue>>
      /\ \A h \in Handles : Made(h)' <=> Made(h)
  <2>1. ASSUME NEW p \in Pits, TickConnectionRecovery(p)
        PROVE  UNCHANGED <<id, pit, closing, auth, prevConnId, newConn, subscribed, saved, removing,
                           lost, restored, overdue, sinceDisconn>>
    BY <2>1 DEF TickConnectionRecovery, handleVars, clocks, channelVars
  <2>2. CASE DeleteHandle
    BY <2>2 DEF DeleteHandle, connVars, clocks, channelVars, history, Made
  <2>3. CASE Advance
    <3>1. \A age \in Ages : \A last \in Nat : Grow(age, last) # None <=> age # None
      BY DEF Grow, Ages
    <3>2. sinceDisconn' = [h \in Handles |-> Grow(sinceDisconn[h], RecoverTimeout)]
      BY <2>3 DEF Advance
    <3>3. \A h \in Handles : Made(h)' <=> Made(h)
      BY <3>1, <3>2 DEF Made
    <3> QED
      BY <2>3, <3>3 DEF Advance, connVars, pcs, handleVars, history
  <2> QED
    BY <2>1, <2>2, <2>3 DEF Poll, Made
<1>2. HistoryTypeOK' /\ HeirInv'
  BY <1>1 DEF HistoryTypeOK, HeirInv, TookOver
<1>3. \A c \in Conns : recoverHandle'[c] # recoverHandle[c] => \E h \in Handles : newConn[h] = c
  <2>1. ASSUME NEW p \in Pits, TickConnectionRecovery(p), NEW c \in Conns,
               recoverHandle'[c] # recoverHandle[c]
        PROVE  newConn[handles[p]] = c /\ handles[p] \in Handles
    BY <2>1 DEF TickConnectionRecovery, ResetHandle
  <2>2. CASE ~\E p \in Pits : TickConnectionRecovery(p)
    BY <2>2 DEF Poll, DeleteHandle, Advance, connVars
  <2> QED
    BY <2>1, <2>2
<1>4. LostInv'
  <2> SUFFICES ASSUME NEW ch \in Channels, NEW c \in lost[ch]
               PROVE  /\ Made(c)' /\ auth'[c] \notin {"idle", c}
                      /\ recoverHandle'[c] = c \/ TookOver(c)'
                      /\ ch \in removing' \/ Kept(ch, c)' \/ Excused(c)' \/ overdue'[ch] # {}
    BY <1>1 DEF LostInv
  <2>1. c \in Conns
    BY DEF HistoryTypeOK
  <2>2. \A d \in Conns : TookOver(d)' <=> TookOver(d)
    BY <1>1 DEF TookOver
  <2>3. /\ Made(c) /\ auth[c] \notin {"idle", c}
        /\ recoverHandle[c] = c \/ TookOver(c)
        /\ ch \in removing \/ Kept(ch, c) \/ Excused(c) \/ overdue[ch] # {}
    BY DEF LostInv
  <2>4. recoverHandle'[c] = recoverHandle[c] \/ TookOver(c)
    BY <1>3, <2>1 DEF HeirInv
  <2>5. Kept(ch, c)' <=> Kept(ch, c)
    BY <1>1 DEF Kept
  <2>6. Excused(c)' <=> Excused(c)
    BY <1>1 DEF Excused, TookOver, Made
  <2> QED
    BY <1>1, <2>1, <2>2, <2>3, <2>4, <2>5, <2>6
<1> QED
  BY <1>2, <1>4
\* What a step of a channel does to what is kept of a server: it takes it away only with
\* a reason.
LEMMA KeptStep ==
  ASSUME RecoveryAssumption, Basics, HistoryTypeOK, SubInv, HeirInv, LostInv,
         NEW ch \in Channels, ChannelStep(ch), NEW d \in Channels, NEW c \in lost[d], Kept(d, c)
  PROVE  Kept(d, c)' \/ Excused(c) \/ d \in removing' \/ overdue'[d] # {}
<1> USE RecoveryAssumption
    DEF RecoveryAssumption, Handles, Basics, RecoveryInv, TypeOK, HistoryTypeOK
<1> USE DEF Kept
<1>0. /\ c \in Conns /\ Made(c) /\ auth[c] # "idle" /\ pit[c] = PitOf[c] /\ PitOf[c] \in Pits
      /\ recoverHandle[c] = c \/ TookOver(c)
  BY DEF LostInv, PhaseInv, Pits
<1>1. ASSUME NEW e \in Conns, Possess(ch, e) \/ SubscribeToChannel(ch, e) PROVE Kept(d, c)'
  <2>1. subscribed[d] \subseteq subscribed'[d] /\ UNCHANGED <<saved, restored, overdue>>
    <3>1. CASE Possess(ch, e)
      BY <3>1 DEF Possess, history
    <3>2. CASE SubscribeToChannel(ch, e)
      BY <3>2 DEF SubscribeToChannel, history
    <3> QED
      BY <1>1, <3>1, <3>2
  <2> QED
    BY <2>1
<1>2. ASSUME NEW e \in Conns, RemoveClosed(ch, e) PROVE Kept(d, c)' \/ Excused(c)
  <2> DEFINE entry == [handle |-> recoverHandle[e], isOwner |-> owner[ch] = e]
  <2>1. /\ e \in subscribed[ch] /\ Closing(e)
        /\ subscribed' = [subscribed EXCEPT ![ch] = @ \ {e}]
        /\ saved' = IF recoverHandle[e] # None THEN [saved EXCEPT ![ch][pit[e]] = entry] ELSE saved
        /\ UNCHANGED <<restored, overdue>>
    BY <1>2 DEF RemoveClosed, RemoveSubscription, history
  <2>2. entry.handle = recoverHandle[e]
    OBVIOUS
  <2>3. recoverHandle[e] # None => entry # None
    <3>1. recoverHandle[e] # None => entry \in [handle : Handles, isOwner : BOOLEAN]
      OBVIOUS
    <3> QED
      BY <3>1
  <2>4. CASE d # ch
    BY <2>1, <2>4
  <2>5. CASE d = ch /\ c = e
    <3>1. CASE recoverHandle[c] = c
      <4>1. saved' = [saved EXCEPT ![ch][PitOf[c]] = entry]
        BY <1>0, <2>1, <2>5, <3>1
      <4>2. saved'[d][PitOf[c]] = entry
        BY <1>0, <2>5, <4>1
      <4> QED
        BY <1>0, <2>2, <2>3, <2>5, <3>1, <4>2
    <3> QED
      BY <1>0, <3>1 DEF Excused
  <2>6. CASE d = ch /\ c # e
    <3>1. e \in Conns /\ auth[e] # "idle" /\ closing[e] # "open" /\ pit[e] \in Pits
      BY <2>1 DEF SubInv, PhaseInv
    <3>2. CASE recoverHandle[e] # None /\ pit[e] = pit[c]
      <4>1. recoverHandle[e] = e => Made(e)
        BY <3>1, <3>2 DEF MadeInv
      <4>2. recoverHandle[e] # e => TookOver(e)
        BY <3>1, <3>2 DEF TakeOverInv, TookOver
      <4> QED
        BY <1>0, <2>6, <3>1, <3>2, <4>1, <4>2 DEF Excused
    <3>3. CASE recoverHandle[e] = None \/ pit[e] # pit[c]
      <4>1. saved'[d][PitOf[c]] = saved[d][PitOf[c]]
        <5> HIDE DEF entry
        <5> QED
          BY <1>0, <2>1, <2>6, <3>1, <3>3
      <4>2. c \in subscribed[d] => c \in subscribed'[d]
        BY <2>1, <2>6
      <4> QED
        BY <2>1, <4>1, <4>2
    <3> QED
      BY <3>2, <3>3
  <2> QED
    BY <2>4, <2>5, <2>6
<1>3. CASE BeginRecoverable(ch) \/ EndTick(ch)
  BY <1>3 DEF BeginRecoverable, EndTick, history
<1>4. ASSUME NEW q \in Pits, KeepWaiting(ch, q) PROVE Kept(d, c)'
  BY <1>4 DEF KeepWaiting, history
<1>5. ASSUME NEW q \in Pits, GiveUp(ch, q) PROVE Kept(d, c)' \/ overdue'[d] # {}
  <2>1. /\ saved' = [saved EXCEPT ![ch] = NothingSaved]
        /\ overdue' = [overdue EXCEPT ![ch] = @ \cup {saved[ch][q].handle}]
        /\ UNCHANGED <<subscribed, restored>>
    BY <1>5 DEF GiveUp
  <2>2. CASE d = ch
    BY <2>1, <2>2
  <2>3. CASE d # ch
    BY <2>1, <2>3
  <2> QED
    BY <2>2, <2>3
<1>6. ASSUME NEW q \in Pits, Restore(ch, q) PROVE Kept(d, c)' \/ Excused(c)
  <2> DEFINE h == saved[ch][q].handle
             n == newConn[h]
  <2>1. saved[ch][q] # None
    BY <1>6 DEF Restore, AtEntry, WalkInv
  <2>2. h \in Handles
    BY <2>1
  <2>3. /\ n \in Conns
        /\ subscribed' = [subscribed EXCEPT ![ch] = IF Closing(n) THEN @ ELSE @ \cup {n}]
        /\ restored' = [restored EXCEPT ![ch] = IF Closing(n) THEN @ ELSE @ \cup {h}]
        /\ saved' = [saved EXCEPT ![ch][q] = None]
        /\ UNCHANGED overdue
    BY <1>6, <2>2 DEF Restore, GiveBack
  <2>4. CASE ~(d = ch /\ q = PitOf[c] /\ h = c)
    <3>1. saved'[d][PitOf[c]] = saved[d][PitOf[c]] \/ (d = ch /\ q = PitOf[c])
      BY <1>0, <2>3
    <3>2. subscribed[d] \subseteq subscribed'[d] /\ restored[d] \subseteq restored'[d]
      <4> HIDE DEF h, n
      <4> QED
        BY <2>3
    <3> QED
      BY <2>3, <2>4, <3>1, <3>2
  <2>5. CASE d = ch /\ h = c /\ ~Closing(n)
    <3>1. c \in restored'[d]
      BY <2>3, <2>5
    <3> QED
      BY <3>1
  <2>6. CASE d = ch /\ h = c /\ Closing(n)
    <3>1. n = c => TookOver(c)
      BY <1>0, <2>6 DEF HeirInv
    <3>2. n # c => /\ id[n] = prevConnId[c] /\ auth[n] \in {"start", "done"}
      BY <2>2, <2>3, <2>6 DEF TakeOverInv
    <3>3. closing[n] # "open"
      BY <2>3, <2>6 DEF PhaseInv
    <3> QED
      BY <2>3, <3>1, <3>2, <3>3 DEF Excused
  <2> QED
    BY <2>4, <2>5, <2>6
<1> QED
  BY <1>1, <1>2, <1>3, <1>4, <1>5, <1>6 DEF ChannelStep

\* A step of a channel keeps LostInv.
LEMMA LostChannelStep ==
  ASSUME RecoveryAssumption, Basics, HistoryTypeOK, SubInv, HeirInv, LostInv,
         NEW ch \in Channels, ChannelStep(ch)
  PROVE  HistoryTypeOK' /\ HeirInv' /\ LostInv'
<1> USE RecoveryAssumption DEF RecoveryAssumption, Handles, Basics, RecoveryInv, TypeOK
<1>1. UNCHANGED <<connVars, pcs, handleVars, clocks, lost>>
  BY DEF ChannelStep, Possess, SubscribeToChannel, RemoveClosed, RemoveSubscription,
         BeginRecoverable, EndTick, GiveUp, KeepWaiting, Restore, GiveBack, history
<1>2. HistoryTypeOK' /\ \A d \in Channels : overdue[d] \subseteq overdue'[d]
  <2> USE DEF HistoryTypeOK
  <2>1. ASSUME NEW p \in Pits, GiveUp(ch, p) \/ Restore(ch, p) PROVE saved[ch][p].handle \in Handles
    <3>1. saved[ch][p] # None
      BY <2>1 DEF GiveUp, Restore, AtEntry, WalkInv
    <3> QED
      BY <3>1
  <2>2. ASSUME NEW p \in Pits, GiveUp(ch, p)
        PROVE  HistoryTypeOK' /\ \A d \in Channels : overdue[d] \subseteq overdue'[d]
    <3> DEFINE h == saved[ch][p].handle
    <3>1. overdue' = [overdue EXCEPT ![ch] = @ \cup {h}] /\ UNCHANGED <<lost, restored>>
      BY <2>2 DEF GiveUp
    <3>2. h \in Conns
      BY <2>1, <2>2
    <3> HIDE DEF h
    <3> QED
      BY <3>1, <3>2
  <2>3. ASSUME NEW p \in Pits, Restore(ch, p)
        PROVE  HistoryTypeOK' /\ \A d \in Channels : overdue[d] \subseteq overdue'[d]
    <3> DEFINE h == saved[ch][p].handle
               closed == Closing(newConn[h])
    <3>1. /\ restored' = [restored EXCEPT ![ch] = IF closed THEN @ ELSE @ \cup {h}]
          /\ UNCHANGED <<lost, overdue>>
      BY <2>3 DEF Restore, GiveBack
    <3>2. h \in Conns
      BY <2>1, <2>3
    <3> HIDE DEF h, closed
    <3> QED
      BY <3>1, <3>2
  <2>4. CASE ~\E p \in Pits : GiveUp(ch, p) \/ Restore(ch, p)
    <3>1. UNCHANGED history
      BY <2>4 DEF ChannelStep, Possess, SubscribeToChannel, RemoveClosed, RemoveSubscription,
         BeginRecoverable, EndTick, KeepWaiting
    <3> QED
      BY <3>1 DEF history
  <2> QED
    BY <2>2, <2>3, <2>4
<1>0. removing \subseteq removing'
  <2>1. ASSUME NEW c \in Conns, RemoveClosed(ch, c) PROVE removing \subseteq removing'
    BY <2>1 DEF RemoveClosed, RemoveSubscription
  <2>2. ASSUME NEW p \in Pits, GiveUp(ch, p) PROVE removing \subseteq removing'
    BY <2>2 DEF GiveUp
  <2>3. ASSUME ~(\E c \in Conns : RemoveClosed(ch, c)), ~(\E p \in Pits : GiveUp(ch, p))
        PROVE  UNCHANGED removing
    BY <2>3 DEF ChannelStep, Possess, SubscribeToChannel, BeginRecoverable, EndTick, KeepWaiting,
       Restore, GiveBack
  <2> QED
    BY <2>1, <2>2, <2>3
<1>3. HeirInv'
  BY <1>1 DEF HeirInv, TookOver, Made, connVars, pcs, handleVars, clocks
<1>4. LostInv'
  <2> SUFFICES ASSUME NEW d \in Channels, NEW c \in lost[d]
               PROVE  /\ Made(c)' /\ auth'[c] \notin {"idle", c}
                      /\ recoverHandle'[c] = c \/ TookOver(c)'
                      /\ d \in removing' \/ Kept(d, c)' \/ Excused(c)' \/ overdue'[d] # {}
    BY <1>1 DEF LostInv
  <2>1. /\ Made(c) /\ auth[c] \notin {"idle", c}
        /\ recoverHandle[c] = c \/ TookOver(c)
        /\ d \in removing \/ Kept(d, c) \/ Excused(c) \/ overdue[d] # {}
    BY DEF LostInv
  <2>2. Kept(d, c) => Kept(d, c)' \/ Excused(c) \/ d \in removing' \/ overdue'[d] # {}
    BY KeptStep
  <2>3. Excused(c)' <=> Excused(c)
    BY <1>1 DEF Excused, TookOver, Made, connVars, pcs, handleVars, clocks
  <2>4. (TookOver(c)' <=> TookOver(c)) /\ (Made(c)' <=> Made(c))
    BY <1>1 DEF TookOver, Made, connVars, handleVars, clocks
  <2> QED
    BY <1>0, <1>1, <1>2, <2>1, <2>2, <2>3, <2>4 DEF connVars, pcs
<1> QED
  BY <1>2, <1>3, <1>4

\* channel.go says of a connection that should recover that its state "will be saved
\* until the recovery or timeout": whatever is not was lost in one of the four known ways,
\* for any number of connections with the same or other PITs.
THEOREM LossesAreKnown == Spec => []OnlyKnownLosses
<1> DEFINE Inv == Basics /\ SubInv /\ HistoryTypeOK /\ HeirInv /\ LostInv
<1>1. Init => Inv
  <2>1. Init => HistoryTypeOK /\ HeirInv /\ LostInv
    BY RecoveryAssumption DEF RecoveryAssumption, Init, HistoryTypeOK, HeirInv, LostInv, Handles
  <2> QED
    BY <2>1, BasicsAtInit, RecoveryAssumption
<1>2. Inv /\ [Next]_vars => Inv'
  <2> SUFFICES ASSUME Inv, [Next]_vars PROVE HistoryTypeOK' /\ HeirInv' /\ LostInv'
    BY BasicsInductive, SubInvInductive, RecoveryAssumption
  <2>1. CASE UNCHANGED vars
    BY <2>1 DEF HistoryTypeOK, HeirInv, LostInv, TookOver, Made, Kept, Excused, vars, connVars, pcs,
       handleVars, clocks, channelVars, history
  <2> QED
    BY <2>1, StepCases, HeirConnStep, LostConnStep, LostPollStep, LostChannelStep,
       RecoveryAssumption
<1>3. Inv => OnlyKnownLosses
  <2> SUFFICES ASSUME Inv, NEW ch \in Channels \ removing, NEW c \in lost[ch],
                      ~Kept(ch, c), ~TookOver(c), overdue[ch] = {}
               PROVE  \/ \E d \in Conns \ {c} : id[d] = prevConnId[c] /\ closing[d] # "open"
                      \/ \E d \in Conns \ {c} :
                           /\ pit[d] = pit[c] /\ closing[d] # "open"
                           /\ prevConnId[d] # None \/ TookOver(d)
    BY DEF OnlyKnownLosses
  <2>1. Excused(c)
    BY DEF LostInv
  <2> QED
    BY <2>1 DEF Excused, Basics, MadeInv, Handles
<1> QED
  BY <1>1, <1>2, <1>3, PTL DEF Spec
=============================================================================

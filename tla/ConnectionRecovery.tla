------------------------- MODULE ConnectionRecovery -------------------------
(***************************************************************************)
(* What channeld keeps for a server whose connection breaks, and how a new *)
(* connection with the same PIT (player identifier token) gets it back.    *)
(*                                                                         *)
(* Four kinds of goroutines work on it without a common lock: the one that *)
(* closes a connection (Close, makeRecoverable), the one that completes an *)
(* authentication (OnAuthenticated, RecoverFromHandle), the one of every   *)
(* channel (tickConnections, tickRecoverableSubscriptions) and one that    *)
(* ends recoveries (tickConnectionRecovery).  The steps below are cut at   *)
(* the accesses to what they share.                                        *)
(*                                                                         *)
(* A connectionRecoverHandle is named by the connection it was made for.   *)
(* Times are ages in units of ChannelDataRecoveryTimeout (one second) that *)
(* stop growing once no comparison can tell them apart.                    *)
(***************************************************************************)
EXTENDS Integers, FiniteSets

CONSTANTS
  Conns,           \* server connections
  PitOf,           \* the PIT each of them authenticates with
  Ids,             \* connection ids
  IdChoices,       \* the ids that may be generated for each connection
  Channels,
  RemoveAfter,     \* channels with RemoveChannelAfterOwnerRemoved
  None,
  MayClose,        \* bound: the connections that may close
  RecoverTimeout   \* ServerConnRecoverTimeoutMs in time units; 0: never

NoPit == "no pit"      \* the PIT of a connection before it is authenticated
Pits == {PitOf[c] : c \in Conns} \cup {NoPit}
Handles == Conns

\* A value is told apart from None, and a handle from the other values of auth.
ASSUME RecoveryAssumption ==
  /\ None \notin Conns /\ None \notin Ids /\ None \notin Pits /\ None \notin Nat
  /\ None \notin [handle : Handles, isOwner : BOOLEAN]
  /\ Conns \cap {"idle", "link", "start", "done"} = {}
  /\ IdChoices \in [Conns -> SUBSET Ids]
  /\ RemoveAfter \subseteq Channels
  /\ RecoverTimeout \in Nat

VARIABLES
  state,        \* Connection.state
  id,           \* Connection.id
  pit,          \* Connection.pit
  recoverHandle,\* Connection.recoverHandle
  closing,      \* per connection: where its Close is
  auth,         \* per connection: where its OnAuthenticated is
  allConnections,
  handles,      \* connectionRecoverHandles: PIT to handle
  prevConnId, sinceDisconn, newConn, sinceStart,      \* the fields of each handle
  panicked,     \* whether the process has ended with a nil dereference
  deleting,     \* the PIT tickConnectionRecovery is about to delete, or None
  owner,        \* per channel: ownerConnection
  subscribed,   \* per channel: keys of subscribedConnections
  saved,        \* per channel: recoverableSubs, by PIT
  removing,     \* the channels that are being removed
  left,         \* per channel: the keys tickRecoverableSubscriptions has still to look at
  ticking,      \* the channels between tickConnections and the end of the tick
  ticked,       \* those that have completed a tick in this time unit
  \* history variables, read by properties only
  lost,         \* per channel: the subscribers that broke down
  restored,     \* per channel: those whose state a live connection was sent
  overdue,      \* per channel: those given up after RecoverTimeout
  ended,        \* handles whose live new connection was sent RECOVERY_END
  early         \* handles ended before startRecoveryTime, or given it before newConn, was set

connVars    == <<state, id, pit, recoverHandle, allConnections>>
handleVars  == <<handles, prevConnId, newConn>>
clocks      == <<sinceDisconn, sinceStart>>
channelVars == <<owner, subscribed, saved, removing, left, ticking, ticked>>
history     == <<lost, restored, overdue, ended, early>>
pcs         == <<closing, auth, deleting, panicked>>
vars == <<connVars, pcs, handleVars, clocks, channelVars, history>>

Closing(c) == state[c] = "closing"
HasOwner(ch) == owner[ch] # None /\ ~Closing(owner[ch])
Running == ~panicked
NothingSaved == [p \in Pits |-> None]

\* No connection yet; every channel exists, without owner.
Init ==
  /\ state = [c \in Conns |-> "none"] /\ id = [c \in Conns |-> None]
  /\ pit = [c \in Conns |-> NoPit] /\ recoverHandle = [c \in Conns |-> None]
  /\ closing = [c \in Conns |-> "open"] /\ auth = [c \in Conns |-> "idle"]
  /\ allConnections = [i \in Ids |-> None] /\ handles = [p \in Pits |-> None]
  /\ prevConnId = [h \in Handles |-> None] /\ newConn = [h \in Handles |-> None]
  /\ sinceDisconn = [h \in Handles |-> None] /\ sinceStart = [h \in Handles |-> None]
  /\ deleting = None /\ panicked = FALSE
  /\ owner = [ch \in Channels |-> None] /\ subscribed = [ch \in Channels |-> {}]
  /\ saved = [ch \in Channels |-> NothingSaved] /\ removing = {}
  /\ left = [ch \in Channels |-> {}] /\ ticking = {} /\ ticked = {}
  /\ lost = [ch \in Channels |-> {}] /\ restored = [ch \in Channels |-> {}]
  /\ overdue = [ch \in Channels |-> {}] /\ ended = {} /\ early = {}

-----------------------------------------------------------------------------
(* Connections.                                                            *)

\* AddConnection generates ids until it finds one that is not in the table.
AddConnection(c, i) ==
  /\ Running /\ state[c] = "none" /\ i \in IdChoices[c] /\ allConnections[i] = None
  /\ state' = [state EXCEPT ![c] = "unauthenticated"]
  /\ id' = [id EXCEPT ![c] = i]
  /\ allConnections' = [allConnections EXCEPT ![i] = c]
  /\ UNCHANGED <<pit, recoverHandle, pcs, handleVars, clocks, channelVars, history>>

\* Close(err): unless another Close has got this far, a handle is made for a
\* connection that breaks down ...
BeginClose(c, unexpected) ==
  /\ Running /\ c \in MayClose                          \* bound
  /\ state[c] \in {"unauthenticated", "authenticated"} /\ closing[c] = "open"
  /\ closing' = [closing EXCEPT ![c] = "close"]
  /\ IF unexpected
     THEN /\ handles' = [handles EXCEPT ![pit[c]] = c]
          /\ recoverHandle' = [recoverHandle EXCEPT ![c] = c]
          /\ prevConnId' = [prevConnId EXCEPT ![c] = id[c]]
          /\ sinceDisconn' = [sinceDisconn EXCEPT ![c] = 0]
          /\ lost' = [ch \in Channels |-> IF c \in subscribed[ch] THEN lost[ch] \cup {c}
                                                                  ELSE lost[ch]]
     ELSE UNCHANGED <<handles, recoverHandle, prevConnId, sinceDisconn, lost>>
  /\ UNCHANGED <<state, id, pit, allConnections, auth, deleting, panicked, newConn,
                 sinceStart, channelVars, restored, overdue, ended, early>>

\* ... then the state changes ...
CloseState(c) ==
  /\ Running /\ closing[c] = "close"
  /\ closing' = [closing EXCEPT ![c] = "delete"]
  /\ state' = [state EXCEPT ![c] = "closing"]
  /\ UNCHANGED <<id, pit, recoverHandle, allConnections, auth, deleting, panicked, handleVars,
                 clocks, channelVars, history>>

\* ... and the entry of its current id is deleted, whosever it is.
EndClose(c) ==
  /\ Running /\ closing[c] = "delete"
  /\ closing' = [closing EXCEPT ![c] = "closed"]
  /\ allConnections' = [allConnections EXCEPT ![id[c]] = None]
  /\ UNCHANGED <<state, id, pit, recoverHandle, auth, deleting, panicked, handleVars, clocks,
                 channelVars, history>>

\* The state, the PIT, and where OnAuthenticated goes on.
Authenticated(c, next) ==
  /\ Running /\ state[c] = "unauthenticated" /\ auth[c] = "idle"
  /\ state' = [state EXCEPT ![c] = "authenticated"]
  /\ pit' = [pit EXCEPT ![c] = PitOf[c]]
  /\ auth' = [auth EXCEPT ![c] = next]
  /\ UNCHANGED <<id, recoverHandle, allConnections, closing, deleting, panicked, handleVars,
                 clocks, channelVars, history>>

\* Mutant of OnAuthenticated: a handle is taken for granted.
OnAuthenticatedAlwaysRecovers(c) == Authenticated(c, handles[PitOf[c]])

\* OnAuthenticated looks for the handle of its PIT.
OnAuthenticated(c) ==
  Authenticated(c, IF handles[PitOf[c]] = None THEN "done" ELSE handles[PitOf[c]])

\* RecoverFromHandle: LoadAndDelete of the previous id; when it was free, c takes it
\* over (its first id keeps its entry) ...
ClaimPrevId(c) ==
  /\ Running /\ auth[c] \in Handles
  /\ LET i == prevConnId[auth[c]]
     IN  IF allConnections[i] # None
         THEN /\ allConnections' = [allConnections EXCEPT ![i] = None]
              /\ auth' = [auth EXCEPT ![c] = "done"]
              /\ UNCHANGED <<id, recoverHandle>>
         ELSE /\ allConnections' = [allConnections EXCEPT ![i] = c]
              /\ id' = [id EXCEPT ![c] = i]
              /\ recoverHandle' = [recoverHandle EXCEPT ![c] = auth[c]]
              /\ auth' = [auth EXCEPT ![c] = "link"]
  /\ UNCHANGED <<state, pit, closing, deleting, panicked, handleVars, clocks, channelVars,
                 history>>

\* ... sets newConn of what is now its handle ...
SetNewConn(c) ==
  /\ Running /\ auth[c] = "link"
  /\ newConn' = [newConn EXCEPT ![recoverHandle[c]] = c]
  /\ auth' = [auth EXCEPT ![c] = "start"]
  /\ UNCHANGED <<connVars, closing, deleting, panicked, handles, prevConnId, clocks,
                 channelVars, history>>

\* ... and startRecoveryTime, after other goroutines may have seen newConn:
\* tickConnectionRecovery may even have reset c.recoverHandle, and a Close of c has made
\* a handle of its own.
SetStartRecoveryTime(c) ==
  /\ Running /\ auth[c] = "start"
  /\ auth' = [auth EXCEPT ![c] = "done"]
  /\ IF recoverHandle[c] = None
     THEN panicked' = TRUE /\ UNCHANGED <<sinceStart, early>>
     ELSE /\ sinceStart' = [sinceStart EXCEPT ![recoverHandle[c]] = 0]
          /\ early' = early \cup {h \in Handles : h = recoverHandle[c] /\ newConn[h] = None}
          /\ UNCHANGED panicked
  /\ UNCHANGED <<connVars, closing, deleting, handleVars, sinceDisconn, channelVars, lost,
                 restored, overdue, ended>>

-----------------------------------------------------------------------------
(* Time, and tickConnectionRecovery.                                       *)

IsTimeOut(h) == RecoverTimeout > 0 /\ sinceDisconn[h] > RecoverTimeout

\* Mutant of DataTimeOut: the wait ends within the next time unit.
DataTimeOutEarly(h) == sinceStart[h] \notin 0 .. 0

\* More than ChannelDataRecoveryTimeout has gone by since startRecoveryTime, which
\* is the zero time until it is set.
DataTimeOut(h) == sinceStart[h] \notin 0 .. 1

\* Mutant of ResetHandle: the new connection keeps its handle.
KeepHandle(c) == UNCHANGED recoverHandle

ResetHandle(c) == recoverHandle' = [recoverHandle EXCEPT ![c] = None]

\* One entry of connectionRecoverHandles is looked at: it has timed out, or RECOVERY_END
\* is sent and the connection leaves the recovery.
TickConnectionRecovery(p) ==
  /\ Running /\ deleting = None /\ handles[p] # None
  /\ deleting' = p
  /\ LET h == handles[p]
         c == newConn[h]
     IN  \/ /\ IsTimeOut(h)
            /\ UNCHANGED <<recoverHandle, ended, early>>
         \/ /\ ~IsTimeOut(h) /\ c # None /\ DataTimeOut(h)
            /\ ResetHandle(c)
            /\ ended' = IF Closing(c) THEN ended ELSE ended \cup {h}
            /\ early' = IF sinceStart[h] = None THEN early \cup {h} ELSE early
  /\ UNCHANGED <<state, id, pit, allConnections, closing, auth, panicked, handleVars, clocks,
                 channelVars, lost, restored, overdue>>

\* The entry is then deleted, by its key.
DeleteHandle ==
  /\ Running /\ deleting # None
  /\ handles' = [handles EXCEPT ![deleting] = None]
  /\ deleting' = None
  /\ UNCHANGED <<connVars, closing, auth, panicked, prevConnId, newConn, clocks,
                 channelVars, history>>

\* A time unit goes by.  Every channel has completed a tick in it ("should not be smaller
\* than the tick interval of any recoverable channel"), and no goroutine stays in the
\* middle of a Close, an OnAuthenticated or a tick for that long.
Grow(age, last) == IF age = None \/ age > last THEN age ELSE age + 1
Advance ==
  /\ Running /\ ticked \cup removing = Channels /\ ticking = {} /\ deleting = None
  /\ \A c \in Conns : closing[c] \in {"open", "closed"} /\ auth[c] \in {"idle", "done"}
  /\ ticked' = {}
  /\ sinceDisconn' = [h \in Handles |-> Grow(sinceDisconn[h], RecoverTimeout)]
  /\ sinceStart' = [h \in Handles |-> Grow(sinceStart[h], 1)]
  /\ UNCHANGED <<connVars, pcs, handleVars, owner, subscribed, saved, removing, left, ticking,
                 history>>

-----------------------------------------------------------------------------
(* The channels.                                                           *)

\* handleCreateChannel for a channel that exists: it is possessed if it has no owner.
\* c may have closed since it sent the message; then it is not subscribed.
Possess(ch, c) ==
  /\ Running /\ ch \notin removing \cup ticking
  /\ state[c] \in {"authenticated", "closing"} /\ ~HasOwner(ch)
  /\ owner' = [owner EXCEPT ![ch] = c]
  /\ subscribed' = [subscribed EXCEPT ![ch] = IF Closing(c) THEN @ ELSE @ \cup {c}]
  /\ UNCHANGED <<connVars, pcs, handleVars, clocks, saved, removing, left, ticking, ticked,
                 history>>

SubscribeToChannel(ch, c) ==
  /\ Running /\ ch \notin removing /\ c \notin subscribed[ch] /\ state[c] = "authenticated"
  /\ subscribed' = [subscribed EXCEPT ![ch] = @ \cup {c}]
  /\ UNCHANGED <<connVars, pcs, handleVars, clocks, owner, saved, removing, left, ticking,
                 ticked, history>>

\* tickConnections meets a closing subscriber: its subscription is kept (if keep) for the
\* handle it has by now.  Removing the channel ends the channel's ticks.
RemoveSubscription(ch, c, keep) ==
  /\ Running /\ ch \notin removing \cup ticking /\ c \in subscribed[ch] /\ Closing(c)
  /\ subscribed' = [subscribed EXCEPT ![ch] = @ \ {c}]
  /\ saved' = IF keep THEN [saved EXCEPT ![ch][pit[c]] =
                              [handle |-> recoverHandle[c], isOwner |-> owner[ch] = c]]
                      ELSE saved
  /\ owner' = IF owner[ch] = c THEN [owner EXCEPT ![ch] = None] ELSE owner
  /\ removing' = IF owner[ch] = c /\ ch \in RemoveAfter /\ recoverHandle[c] = None
                 THEN removing \cup {ch} ELSE removing
  /\ UNCHANGED <<connVars, pcs, handleVars, clocks, left, ticking, ticked, history>>

\* Mutant of RemoveClosed: only the subscription of the owner is kept.
RemoveClosedKeepOwner(ch, c) ==
  RemoveSubscription(ch, c, recoverHandle[c] # None /\ owner[ch] = c)

RemoveClosed(ch, c) == RemoveSubscription(ch, c, recoverHandle[c] # None)

\* tickRecoverableSubscriptions goes through the keys of recoverableSubs.
BeginRecoverable(ch) ==
  /\ Running /\ ch \notin removing \cup ticking /\ \A c \in subscribed[ch] : ~Closing(c)
  /\ ticking' = ticking \cup {ch}
  /\ left' = [left EXCEPT ![ch] = {p \in Pits : saved[ch][p] # None}]
  /\ UNCHANGED <<connVars, pcs, handleVars, clocks, owner, subscribed, saved, removing, ticked,
                 history>>

AtEntry(ch, p) == Running /\ ch \in ticking /\ p \in left[ch]

\* Once one of the handles has timed out, all the subscriptions are given up.
GiveUp(ch, p) ==
  /\ AtEntry(ch, p) /\ IsTimeOut(saved[ch][p].handle)
  /\ saved' = [saved EXCEPT ![ch] = NothingSaved]
  /\ left' = [left EXCEPT ![ch] = {}]
  /\ removing' = IF ch \in RemoveAfter THEN removing \cup {ch} ELSE removing
  /\ overdue' = [overdue EXCEPT ![ch] = @ \cup {saved[ch][p].handle}]
  /\ UNCHANGED <<connVars, pcs, handleVars, clocks, owner, subscribed, ticking, ticked, lost,
                 restored, ended, early>>

KeepWaiting(ch, p) ==
  /\ AtEntry(ch, p) /\ ~IsTimeOut(saved[ch][p].handle) /\ newConn[saved[ch][p].handle] = None
  /\ left' = [left EXCEPT ![ch] = @ \ {p}]
  /\ UNCHANGED <<connVars, pcs, handleVars, clocks, owner, subscribed, saved, removing, ticking,
                 ticked, history>>

\* Ownership, subscription and data go to the new connection; Send and
\* SubscribeToChannel do nothing when it is closing.
GiveBack(ch, p, toOwner) ==
  LET h == saved[ch][p].handle
      c == newConn[h]
  IN  /\ ~IsTimeOut(h) /\ c # None
      /\ owner' = IF toOwner THEN [owner EXCEPT ![ch] = c] ELSE owner
      /\ subscribed' = [subscribed EXCEPT ![ch] = IF Closing(c) THEN @ ELSE @ \cup {c}]
      /\ restored' = [restored EXCEPT ![ch] = IF Closing(c) THEN @ ELSE @ \cup {h}]
      /\ saved' = [saved EXCEPT ![ch][p] = None]
      /\ left' = [left EXCEPT ![ch] = @ \ {p}]
      /\ UNCHANGED <<connVars, pcs, handleVars, clocks, removing, ticking, ticked, lost,
                     overdue, ended, early>>

\* Mutant of Restore: whoever possesses the channel meanwhile is not asked.
RestoreAnyway(ch, p) ==
  AtEntry(ch, p) /\ GiveBack(ch, p, saved[ch][p].isOwner)

Restore(ch, p) ==
  AtEntry(ch, p) /\ GiveBack(ch, p, saved[ch][p].isOwner /\ ~HasOwner(ch))

EndTick(ch) ==
  /\ Running /\ ch \in ticking /\ left[ch] = {}
  /\ ticking' = ticking \ {ch} /\ ticked' = ticked \cup {ch}
  /\ UNCHANGED <<connVars, pcs, handleVars, clocks, owner, subscribed, saved, removing, left,
                 history>>

-----------------------------------------------------------------------------
Close(c) == CloseState(c) \/ EndClose(c)
Recover(c) == ClaimPrevId(c) \/ SetNewConn(c) \/ SetStartRecoveryTime(c)
Poll == DeleteHandle \/ \E p \in Pits : TickConnectionRecovery(p)
WalkOn(ch) ==
  \/ BeginRecoverable(ch) \/ EndTick(ch)
  \/ \E p \in Pits : GiveUp(ch, p) \/ KeepWaiting(ch, p)
Tick(ch) ==
  \/ WalkOn(ch)
  \/ \E c \in Conns : RemoveClosed(ch, c)
  \/ \E p \in Pits : Restore(ch, p)

Next ==
  \/ \E c \in Conns : \/ \E i \in Ids : AddConnection(c, i)
                      \/ \E unexpected \in BOOLEAN : BeginClose(c, unexpected)
                      \/ OnAuthenticated(c) \/ Close(c) \/ Recover(c)
                      \/ \E ch \in Channels : Possess(ch, c) \/ SubscribeToChannel(ch, c)
  \/ Poll \/ Advance
  \/ \E ch \in Channels : Tick(ch)

Spec == Init /\ [][Next]_vars

\* Goroutines go on with what they have begun, channels keep ticking, time goes by.
Fairness ==
  /\ \A c \in Conns : WF_vars(Close(c)) /\ WF_vars(Recover(c))
  /\ \A ch \in Channels : WF_vars(Tick(ch))
  /\ WF_vars(Poll) /\ SF_vars(Advance)

-----------------------------------------------------------------------------
(* Properties.                                                             *)

Ages == Nat \cup {None}

\* The type invariant.
TypeOK ==
  /\ state \in [Conns -> {"none", "unauthenticated", "authenticated", "closing"}]
  /\ id \in [Conns -> Ids \cup {None}] /\ pit \in [Conns -> Pits]
  /\ recoverHandle \in [Conns -> Handles \cup {None}]
  /\ closing \in [Conns -> {"open", "close", "delete", "closed"}]
  /\ auth \in [Conns -> Handles \cup {"idle", "link", "start", "done"}]
  /\ allConnections \in [Ids -> Conns \cup {None}]
  /\ handles \in [Pits -> Handles \cup {None}]
  /\ prevConnId \in [Handles -> Ids \cup {None}] /\ newConn \in [Handles -> Conns \cup {None}]
  /\ sinceDisconn \in [Handles -> Ages] /\ sinceStart \in [Handles -> Ages]
  /\ deleting \in Pits \cup {None} /\ panicked \in BOOLEAN
  /\ owner \in [Channels -> Conns \cup {None}] /\ subscribed \in [Channels -> SUBSET Conns]
  /\ saved \in [Channels -> [Pits -> [handle : Handles, isOwner : BOOLEAN] \cup {None}]]
  /\ left \in [Channels -> SUBSET Pits]
  /\ removing \subseteq Channels /\ ticking \subseteq Channels /\ ticked \subseteq Channels

\* A recovered connection never displaces a live owner: whoever possessed the channel
\* while its old owner was away keeps it.
LiveOwnerKept == [][\A ch \in Channels : HasOwner(ch) => owner'[ch] = owner[ch]]_vars

\* RECOVERY_END comes after the data of every channel: when the wait since
\* startRecoveryTime is over, no channel still has the handle's subscription, unless it
\* was kept of another connection that had taken the handle over and closed.  (Not so
\* when tickConnectionRecovery comes before SetStartRecoveryTime, or the time was set
\* for a handle without newConn.)
HeirClosed(h) == \E c \in Conns \ {h} : recoverHandle[c] = h /\ Closing(c)
NothingLeft(h) ==
  \A ch \in Channels \ removing :
    /\ h \notin subscribed[ch]
    /\ \A p \in Pits : saved[ch][p] # None /\ saved[ch][p].handle = h => HeirClosed(h)
EndAfterWaitIsAfterData == \A h \in ended \ early : NothingLeft(h)

\* What is known of a server that broke down while subscribed to ch.
Kept(ch, c) ==
  \/ c \in subscribed[ch] \cup restored[ch] \cup overdue[ch]
  \/ saved[ch][PitOf[c]] # None /\ saved[ch][PitOf[c]].handle = c

\* channel.go: the state of a connection that should recover "will be saved until the
\* recovery or timeout".
SavedUntilRecoveredOrTimeout == \A ch \in Channels \ removing : \A c \in lost[ch] : Kept(ch, c)

\* What is saved of a server gets lost in four ways only: a connection that took over
\* its id closes before the channel has given it back; the server had itself taken over
\* an id; another connection with the same PIT, which broke down or had taken over an
\* id, closes; another server's handle timed out.
TookOver(c) == \E h \in Handles \ {c} : id[c] = prevConnId[h]
OnlyKnownLosses ==
  \A ch \in Channels \ removing : \A c \in lost[ch] :
    \/ Kept(ch, c)
    \/ \E d \in Conns \ {c} : id[d] = prevConnId[c] /\ closing[d] # "open"
    \/ TookOver(c)
    \/ \E d \in Conns \ {c} :
         /\ pit[d] = pit[c] /\ closing[d] # "open"
         /\ prevConnId[d] # None \/ TookOver(d)
    \/ overdue[ch] # {}

\* connection_recovery.go: the previous id is taken over "if the previous connection id is
\* not used"; a live connection stays in the table under its id.
LiveConnectionsInTable ==
  \A c \in Conns : state[c] = "authenticated" => allConnections[id[c]] = c

\* A recovery ends: a live new connection does not stay in the state in which messages to
\* the channel owner are dropped, unless the handle times out first or another connection
\* breaks down with the same PIT.
Recovering(c) ==
  /\ state[c] = "authenticated" /\ auth[c] = "done"
  /\ recoverHandle[c] # None /\ ~IsTimeOut(recoverHandle[c])
  /\ handles[pit[c]] \in {None, recoverHandle[c]}
RecoveryEnds == \A c \in Conns : Recovering(c) ~> ~Recovering(c) \/ panicked

\* What is kept of the owner of a channel whose new connection is known.
OwnerIsBack(ch, p) ==
  /\ saved[ch][p] # None /\ saved[ch][p].isOwner
  /\ newConn[saved[ch][p].handle] # None
=============================================================================

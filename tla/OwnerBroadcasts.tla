-------------------------- MODULE OwnerBroadcasts --------------------------
(***************************************************************************)
(* What the subscribers of a channel are told about its owner:             *)
(* ConnectionRecovery with the messages CHANNEL_OWNER_LOST, which          *)
(* tickConnections broadcasts, and CHANNEL_OWNER_RECOVERED, which a        *)
(* goroutine of its own broadcasts after it has slept for                  *)
(* ChannelDataRecoveryTimeout.  Every step is one of ConnectionRecovery,   *)
(* or such a goroutine that wakes up.                                      *)
(***************************************************************************)
EXTENDS ConnectionRecovery

CONSTANT Announces     \* channels with SendOwnerLostAndRecovered

ASSUME AnnouncesAssumption == Announces \subseteq Channels

VARIABLES
  sleeping,   \* per channel: the goroutines that will broadcast CHANNEL_OWNER_RECOVERED
  \* history variables, read by properties only
  ownerLost,  \* the channels that have broadcast CHANNEL_OWNER_LOST
  told        \* per channel: the restored subscriptions announced as a recovery,
              \* and whether the channel had an owner then

broadcastVars == <<sleeping, ownerLost, told>>

BroadcastInit ==
  /\ Init
  /\ sleeping = [ch \in Channels |-> {}]
  /\ ownerLost = {} /\ told = [ch \in Channels |-> {}]

-----------------------------------------------------------------------------
\* tickConnections: the loss of an owner that may come back is broadcast.
RemoveAndBroadcast(ch, c) ==
  /\ RemoveClosed(ch, c)
  /\ ownerLost' = IF ch \in Announces /\ owner[ch] = c /\ recoverHandle[c] # None
                  THEN ownerLost \cup {ch} ELSE ownerLost
  /\ UNCHANGED <<sleeping, told>>

\* Mutant of Sleepers: only the goroutine of an owner that got its channel back is started.
SleepersOwned(ch, p) ==
  IF ch \in Announces /\ saved[ch][p].isOwner /\ ~HasOwner(ch)
  THEN {[handle |-> saved[ch][p].handle, isOwner |-> TRUE, age |-> 0]} ELSE {}

\* The goroutine started for a restored subscription, the owner's or not.
Sleepers(ch, p) ==
  IF ch \in Announces
  THEN {[handle |-> saved[ch][p].handle, isOwner |-> saved[ch][p].isOwner, age |-> 0]}
  ELSE {}

\* tickRecoverableSubscriptions: the subscription is given back.
RestoreAndSleep(ch, p) ==
  /\ Restore(ch, p)
  /\ sleeping' = [sleeping EXCEPT ![ch] = @ \cup Sleepers(ch, p)]
  /\ UNCHANGED <<ownerLost, told>>

AdvanceSleep ==
  /\ Advance
  /\ sleeping' = [ch \in Channels |->
                    {[g EXCEPT !.age = Grow(@, 1)] : g \in sleeping[ch]}]
  /\ UNCHANGED <<ownerLost, told>>

\* A goroutine wakes up when ChannelDataRecoveryTimeout has gone by for certain and
\* broadcasts, whatever has become of the channel, its owner and the recovery.
BroadcastRecovered(ch) ==
  /\ Running
  /\ \E g \in sleeping[ch] :
       /\ g.age > 1
       /\ sleeping' = [sleeping EXCEPT ![ch] = @ \ {g}]
       /\ told' = [told EXCEPT ![ch] = @ \cup
                   {[handle |-> g.handle, isOwner |-> g.isOwner, owned |-> HasOwner(ch)]}]
  /\ UNCHANGED <<vars, ownerLost>>

-----------------------------------------------------------------------------
\* The steps of ConnectionRecovery that have nothing to do with the broadcasts.
Silent ==
  /\ \/ \E c \in Conns : \/ \E i \in Ids : AddConnection(c, i)
                         \/ \E unexpected \in BOOLEAN : BeginClose(c, unexpected)
                         \/ OnAuthenticated(c) \/ Close(c) \/ Recover(c)
                         \/ \E ch \in Channels : Possess(ch, c) \/ SubscribeToChannel(ch, c)
     \/ Poll
     \/ \E ch \in Channels : WalkOn(ch)
  /\ UNCHANGED broadcastVars

BroadcastNext ==
  \/ Silent \/ AdvanceSleep
  \/ \E ch \in Channels : \/ \E c \in Conns : RemoveAndBroadcast(ch, c)
                          \/ \E p \in Pits : RestoreAndSleep(ch, p)
                          \/ BroadcastRecovered(ch)

BroadcastSpec ==
  BroadcastInit /\ [][BroadcastNext]_<<vars, broadcastVars>>

\* The fairness of ConnectionRecovery; a goroutine that sleeps wakes up.
FairBroadcastSpec ==
  /\ BroadcastSpec /\ Fairness
  /\ \A ch \in Channels : WF_<<vars, broadcastVars>>(BroadcastRecovered(ch))

-----------------------------------------------------------------------------
(* Properties.                                                             *)

\* Subscribers that were told of the loss of the owner are told that it is over once the
\* server has come back, and it is true then, a second after the ownership was given
\* back: the channel has a live owner, the old one or who possessed it meanwhile.  Unless
\* one of these closes again, the channel is removed, a handle times out, or what was
\* kept is lost to another connection of the PIT.
LossIsTakenBack ==
  \A ch \in Announces : \A p \in Pits : \A h \in Handles :
    (ch \in ownerLost /\ OwnerIsBack(ch, p) /\ saved[ch][p].handle = h)
      ~> \/ [handle |-> h, isOwner |-> TRUE, owned |-> TRUE] \in told[ch]
         \/ ch \in removing \/ overdue[ch] # {} \/ panicked
         \/ \E c \in Conns \ {h} : Closing(c)
         \/ \E d \in Conns \ {h} : PitOf[d] = PitOf[h] /\ prevConnId[d] # None
=============================================================================

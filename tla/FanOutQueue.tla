---------------------------- MODULE FanOutQueue ----------------------------
(***************************************************************************)
(* The order in which tickData goes through fanOutQueue.  Module FanOut    *)
(* lets it visit the elements in any order; the code has a linked list     *)
(* that every subscription grows at the front and that tickData reorders   *)
(* while it walks over it: an element that was fanned out to moves behind  *)
(* the last element whose lastFanOutTime is not later, and the walk goes   *)
(* on with what followed its old place.                                    *)
(*                                                                         *)
(* Each step is a step of FanOut and what it does to the list.  Whether    *)
(* the walk can always do what FanOut says it does (visit every element,   *)
(* the moved ones again, and end) is what is checked here.  It does not    *)
(* end while a subscriber with an interval of 0 is live.                   *)
(***************************************************************************)
EXTENDS FanOut

VARIABLES
  queue,    \* the list: connections, front first
  cursor    \* the position of focp; Len(queue) + 1 when it is nil; 0 outside tickData

queueVars == <<queue, cursor>>

\* The list after its element of c is removed.
PositionOf(c) == CHOOSE i \in DOMAIN queue : queue[i] = c
Without(c) == SubSeq(queue, 1, PositionOf(c) - 1) \o SubSeq(queue, PositionOf(c) + 1, Len(queue))
AtCursor(c) == cursor \in DOMAIN queue /\ queue[cursor] = c

QueueInit == Init /\ queue = <<>> /\ cursor = 0

-----------------------------------------------------------------------------
\* PushFront; re-subscribing leaves the list alone.
QueueSubscribe(c, o) ==
  /\ Subscribe(c, o)
  /\ queue' = <<c>> \o queue /\ UNCHANGED cursor

QueueUnsubscribe(c) ==
  /\ Unsubscribe(c)
  /\ queue' = Without(c) /\ UNCHANGED cursor

QueueStart ==
  /\ StartTickData
  /\ cursor' = 1 /\ UNCHANGED queue

QueueDropClosed(c) ==
  /\ AtCursor(c) /\ DropClosedElement(c)
  /\ queue' = Without(c) /\ UNCHANGED cursor

QueuePassOver(c) ==
  /\ AtCursor(c) /\ PassOver(c)
  /\ cursor' = cursor + 1 /\ UNCHANGED queue

\* The last position whose element was last fanned out to no later than c is after
\* this step: c itself is one.
LastNotLater(c) ==
  CHOOSE i \in DOMAIN queue :
    /\ foc'[queue[i]].last <= foc'[c].last
    /\ \A j \in i + 1 .. Len(queue) : foc'[queue[j]].last > foc'[c].last

\* Mutant of MoveBack: the walk goes on behind the new place of the element.
MoveBackAndOn(c) ==
  LET k == LastNotLater(c)
  IN  /\ queue' = SubSeq(queue, 1, cursor - 1) \o SubSeq(queue, cursor + 1, k)
                    \o <<c>> \o SubSeq(queue, k + 1, Len(queue))
      /\ cursor' = k + 1

\* Mutant of MoveBack: the element is removed and not put back.
MoveBackLost(c) == queue' = Without(c) /\ UNCHANGED cursor

\* MoveAfter, then focp is what follows the element that preceded c.
MoveBack(c) ==
  LET k == LastNotLater(c)
  IN  /\ queue' = SubSeq(queue, 1, cursor - 1) \o SubSeq(queue, cursor + 1, k)
                    \o <<c>> \o SubSeq(queue, k + 1, Len(queue))
      /\ UNCHANGED cursor

QueueFirstFanOut(c) == AtCursor(c) /\ FirstFanOut(c) /\ MoveBack(c)

\* Mutant of QueueFanOut: the last fan-out time stays as it was.
QueueFanOutSameTime(c) == AtCursor(c) /\ FanOutWindow(c, foc[c].last, toVisit) /\ MoveBack(c)

QueueFanOut(c) == AtCursor(c) /\ FanOut(c) /\ MoveBack(c)

QueueEnd ==
  /\ cursor = Len(queue) + 1 /\ TickConnections
  /\ cursor' = 0 /\ UNCHANGED queue

QueueTick ==
  \/ (DropUpdate \/ HandleUpdate) /\ UNCHANGED queueVars
  \/ QueueStart \/ QueueEnd
  \/ \E c \in Conns : \/ QueueDropClosed(c) \/ QueuePassOver(c)
                      \/ QueueFirstFanOut(c) \/ QueueFanOut(c)

QueueEnvironment ==
  \/ Advance /\ UNCHANGED queueVars
  \/ \E c \in Conns : \/ (Stamp(c) \/ Close(c)) /\ UNCHANGED queueVars
                      \/ \E f \in Fields : Enqueue(c, f) /\ UNCHANGED queueVars
                      \/ \E o \in SubOptions : \/ QueueSubscribe(c, o)
                                               \/ Resubscribe(c, o) /\ UNCHANGED queueVars
                      \/ QueueUnsubscribe(c)

QueueNext == QueueTick \/ QueueEnvironment

\* The channel's goroutine goes on; tickMessages ends when the tick interval has
\* elapsed, however many messages are waiting.
QueueSpec ==
  /\ QueueInit /\ [][QueueNext]_<<vars, queueVars>>
  /\ WF_<<vars, queueVars>>(QueueTick) /\ WF_<<vars, queueVars>>(QueueStart)

-----------------------------------------------------------------------------
(* Properties.                                                             *)

\* The list has each element once, and what lies at or behind the cursor is what
\* tickData has still to visit: no reordering makes the walk skip an element or
\* look for one that is gone.
WalkCoversQueue ==
  /\ \A i, j \in DOMAIN queue : queue[i] = queue[j] => i = j
  /\ fanOutQueue = {queue[i] : i \in DOMAIN queue}
  /\ phase = "data" => toVisit = {queue[i] : i \in cursor .. Len(queue)}

\* tickData meets a live subscriber whose interval is 0: it is due after every
\* fan-out, however often it is fanned out to.
Endless == \E c \in toVisit \ closing : Due(c) /\ options[c].interval = 0

\* The walk, which visits again every element it has fanned out to, comes to the end
\* of the list, whatever other goroutines do; unless it goes round for good, with
\* subLock held, for the sake of a subscriber with an interval of 0 that never closes.
EveryTickEnds == (phase = "data" ~> phase = "messages") \/ <>[]Endless

\* A due subscriber is fanned out to (or loses its access or its subscription): the
\* walk and the ticks come back to it, unless a walk goes round for good.
Waiting(c) == c \in subscribed \ closing /\ HasAccess(c) /\ now >= NextFanOutTime(c)
DueAreServed == (\A c \in Conns : Waiting(c) ~> ~Waiting(c)) \/ <>[]Endless
=============================================================================

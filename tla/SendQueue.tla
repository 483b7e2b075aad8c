------------------------------ MODULE SendQueue ------------------------------
(***************************************************************************)
(* The messages of a connection on their way out: sendQueue, the message   *)
(* pack kept from the last packet (oversizedMsgPack) and what flush makes  *)
(* of them.  A message has a size; the size of a packet is their sum.      *)
(***************************************************************************)
EXTENDS PacketFraming

CONSTANT QueueSize       \* capacity of sendQueue

ASSUME SendQueueAssumption == QueueSize \in Nat \ {0}

\* sendQueue, whether Close has closed it, and oversizedMsgPack (or no message).
NewQueue == [queue |-> <<>>, closed |-> FALSE, kept |-> <<>>]

\* The check of queuedMessagePackSender.Send.
Sendable(size) == size < MaxPacketSize - PacketHeaderSize

HasRoom(q) == Len(q.queue) < QueueSize
Enqueued(q, m) == [q EXCEPT !.queue = Append(@, m)]

SizeOf(ms) == FoldLeft(LAMBDA sum, m : sum + m.size, 0, ms)

\* Mutant of Fits: the kept message pack is not counted.
FitsWithoutKept(q, n) == SizeOf(SubSeq(q.queue, 1, n)) <= MaxPacketSize

\* flush takes the kept message pack, then from the queue what fits; the message
\* that does not is kept for the next packet.
Fits(q, n) == SizeOf(q.kept \o SubSeq(q.queue, 1, n)) <= MaxPacketSize
Taken(q) ==
  CHOOSE n \in 0 .. Len(q.queue) :
    /\ \A k \in 1 .. n : Fits(q, k)
    /\ n = Len(q.queue) \/ ~Fits(q, n + 1)
Packet(q) == q.kept \o SubSeq(q.queue, 1, Taken(q))

\* Mutant of Flushed: the message that does not fit is lost.
FlushedNotKept(q) == [q EXCEPT !.kept = <<>>, !.queue = SubSeq(@, Taken(q) + 2, Len(@))]

Flushed(q) ==
  LET rest == SubSeq(q.queue, Taken(q) + 1, Len(q.queue)) IN
    IF rest = <<>> THEN [q EXCEPT !.kept = <<>>, !.queue = <<>>]
    ELSE [q EXCEPT !.kept = <<Head(rest)>>, !.queue = Tail(rest)]
=============================================================================

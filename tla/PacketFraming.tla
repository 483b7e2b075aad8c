---------------------------- MODULE PacketFraming ----------------------------
(***************************************************************************)
(* Packets in a byte stream, as Connection.receive and readPacket take     *)
(* them out of readBuffer.  A byte is known by its position in the stream  *)
(* (0 for none); a packet on the wire has a size and a tag, which may be   *)
(* wrong.  Bytes that do not start with a header are taken for a wrong     *)
(* tag.  What the buffer holds behind readPos is left from earlier reads.  *)
(***************************************************************************)
EXTENDS Integers, SequencesExt

CONSTANTS
  PacketHeaderSize,
  MaxPacketSize

ASSUME FramingAssumption ==
  PacketHeaderSize \in Nat \ {0} /\ MaxPacketSize \in Nat \ {0}

\* AddConnection: the smallest readBuffer holds one packet of the largest size.
BufferSize == MaxPacketSize + PacketHeaderSize

FullSize(p) == PacketHeaderSize + p.size
Bytes(packets) == FoldLeft(LAMBDA sum, p : sum + FullSize(p), 0, packets)
StartOf(packets, n) == Bytes(SubSeq(packets, 1, n - 1)) + 1

\* A reader: readBuffer, readPos, and bufPos while packets are taken out.
NewReader == [buffer |-> [k \in 1 .. BufferSize |-> 0], readPos |-> 0, bufPos |-> 0]

\* conn.Read puts the bytes from the position first on behind readPos.
Room(rd) == BufferSize - rd.readPos
Filled(rd, first, count) ==
  [buffer  |-> [k \in 1 .. BufferSize |->
                  IF k - rd.readPos \in 1 .. count THEN first + k - rd.readPos - 1 ELSE rd.buffer[k]],
   readPos |-> rd.readPos + count,
   bufPos  |-> 0]

UnfinishedHeader(rd) == rd.readPos - rd.bufPos < PacketHeaderSize

\* Whether count bytes of the stream stand one after the other at bufPos.
InOrder(rd, count) ==
  \A k \in 1 .. count : rd.buffer[rd.bufPos + k] = rd.buffer[rd.bufPos + 1] + k - 1

\* The packet that starts at bufPos, 0 if none does.
PacketAt(packets, rd) ==
  IF InOrder(rd, PacketHeaderSize)
     /\ \E n \in DOMAIN packets : StartOf(packets, n) = rd.buffer[rd.bufPos + 1]
  THEN CHOOSE n \in DOMAIN packets : StartOf(packets, n) = rd.buffer[rd.bufPos + 1]
  ELSE 0

\* readSize gives 0 unless the tag is right.
ReadSize(packets, rd) ==
  LET n == PacketAt(packets, rd) IN
    IF n # 0 /\ packets[n].tag THEN packets[n].size ELSE 0

UnfinishedPacket(packets, rd) ==
  rd.readPos < rd.bufPos + PacketHeaderSize + ReadSize(packets, rd)

\* The content is what the sender wrote only if all its bytes are in their place.
Intact(packets, rd) == InOrder(rd, PacketHeaderSize + ReadSize(packets, rd))

\* Mutant of Skipped: the packet is not skipped.
SkippedNot(packets, rd) == rd

Skipped(packets, rd) == [rd EXCEPT !.bufPos = @ + PacketHeaderSize + ReadSize(packets, rd)]

\* Mutant of MovedToFront: the unhandled content stays where it is.
NotMoved(rd) == [rd EXCEPT !.readPos = @ - rd.bufPos, !.bufPos = 0]

\* The end of receive: unhandled content is moved to the front.
MovedToFront(rd) ==
  [buffer  |-> [k \in 1 .. BufferSize |->
                  IF k <= rd.readPos - rd.bufPos THEN rd.buffer[k + rd.bufPos] ELSE rd.buffer[k]],
   readPos |-> rd.readPos - rd.bufPos,
   bufPos  |-> 0]
=============================================================================

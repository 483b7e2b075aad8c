-------------------------- MODULE ConnectionProofs --------------------------
(***************************************************************************)
(* Theorems about module Connection, for every value of its constants:     *)
(* that a closed connection is in no table, that nothing but AUTH is       *)
(* queued for a connection that has not been authenticated, that failures  *)
(* lead to a ban, and that Send and flush implement the message stream of  *)
(* module MessageStream.                                                   *)
(*                                                                         *)
(* All rest on one invariant, CoreInv: the types, which process may be at  *)
(* which label for which connection, and that a message being handled is   *)
(* in the packet its receive goroutine has parsed.                         *)
(***************************************************************************)
EXTENDS Connection, TLAPS, NaturalsInduction, WellFoundedInduction, SequenceTheorems

-----------------------------------------------------------------------------
(* The types, and what a process may be doing.                             *)

\* The values of the variables.
SentMessage == [id : Nat, size : Nat]
RecvLabels == {"idle", "read", "parse", "message", "done"}
AuthLabels == {"idle", "auth", "authenticate", "store", "reply", "tell", "event", "count", "done"}
Labels == RecvLabels \cup AuthLabels \cup {"ban"}
Queued == [conn : Conns, msg : ClientMessage]
Jobs ==
  [at : Labels, conn : Conns \cup {Nobody}, msg : ClientMessage, next : Nat,
   close : {"no", "begun", "stored"}, sendTo : Conns \cup {Nobody}, size : Nat]
Queues == [queue : Seq(SentMessage), closed : BOOLEAN, kept : Seq(SentMessage)]
Keys == Pits \cup IPs

\* The types of the variables.  (Of readBuffer only that there is one for each
\* connection: its bounds are a matter of sums over packets, which TLC checks.)
TypeInv ==
  /\ scenario \in Scenarios
  /\ state \in [Conns -> {"NONE", "UNAUTHENTICATED", "AUTHENTICATED", "CLOSING"}]
  /\ netClosed \in [Conns -> BOOLEAN] /\ compression \in [Conns -> BOOLEAN]
  /\ allConnections \subseteq Conns /\ unauthenticated \subseteq Conns
  /\ reader = [c \in Conns |-> reader[c]]
  /\ fsm \in [Conns -> Nat]
  /\ sendq \in [Conns -> Queues]
  /\ writing \in [Conns -> Seq(SentMessage)]
  /\ accepted \in [Conns -> Nat] /\ written \in [Conns -> Seq(Nat)]
  /\ globalQueue \in Seq(Queued)
  /\ job \in [Procs -> Jobs]
  /\ auths \in 0 .. MaxAuths
  /\ failedAuths \in [Keys -> Nat] /\ attempts \in [Keys -> Nat]

\* Job j of process p, once n authentications have been started: a process is at
\* labels of its own kind, and knows its connection as soon as it acts for one.
JobOK(p, j, n) ==
  /\ j.close # "no" => j.conn \in Conns
  /\ \A c \in Conns : p = Recv(c) => j.at \in RecvLabels
  /\ \A k \in 1 .. MaxAuths : p = AuthGo(k) =>
       j.at \in AuthLabels /\ (j.at # "idle" => k <= n /\ j.conn \in Conns)
  /\ p = Global => j.at = "idle"
  /\ p = Checker => j.at = "idle" \/ (j.at = "ban" /\ j.conn \in Conns)

LabelInv == \A p \in Procs : JobOK(p, job[p], auths)

\* A receive goroutine that handles a message has parsed its packet.
HandledPacket(c) == Stream(c)[PacketAt(Stream(c), reader[c])]
MessageInv ==
  \A c \in Conns : job[Recv(c)].at = "message" =>
    /\ PacketAt(Stream(c), reader[c]) \in DOMAIN Stream(c)
    /\ job[Recv(c)].next \in DOMAIN HandledPacket(c).messages

-----------------------------------------------------------------------------
(* sendQueue and flush.                                                    *)

\* A non-empty set of naturals has a least element.
LEMMA LeastNatural ==
  ASSUME NEW S, S \subseteq Nat, S # {}
  PROVE  \E i \in S : \A j \in S : i <= j
<1>1. PICK x \in S : \A y \in S : ~ (<<y, x>> \in OpToRel(<, Nat))
  BY NatLessThanWellFounded, WFMin
<1>2. ASSUME NEW y \in S PROVE x <= y
  <2>1. x \in Nat /\ y \in Nat
    OBVIOUS
  <2>2. ~ (y < x)
    BY <1>1, <2>1 DEF OpToRel
  <2> QED
    BY <2>1, <2>2
<1> QED
  BY <1>2

\* flush takes as many messages as fit: one number satisfies its condition.
LEMMA TakenType ==
  ASSUME NEW q, q.queue \in Seq(SentMessage)
  PROVE  Taken(q) \in 0 .. Len(q.queue)
<1> DEFINE L == Len(q.queue)
           T == {i \in Nat : i <= L /\ (i = L \/ ~Fits(q, i + 1))}
<1>1. L \in T /\ T \subseteq Nat
  OBVIOUS
<1>2. PICK x \in T : \A y \in T : x <= y
  <2> HIDE DEF T
  <2> QED
    BY <1>1, LeastNatural
<1>4. \A k \in 1 .. x : Fits(q, k)
  <2> SUFFICES ASSUME NEW k \in 1 .. x, ~Fits(q, k) PROVE FALSE
    OBVIOUS
  <2>0. L \in Nat
    OBVIOUS
  <2> HIDE DEF L
  <2>1. k - 1 \in Nat /\ (k - 1) + 1 = k /\ k - 1 <= L /\ k - 1 < x
    BY <2>0
  <2>2. k - 1 \in T
    BY <2>1
  <2> QED
    BY <2>1, <2>2, <1>2
<1>5. x \in 0 .. L /\ (x = L \/ ~Fits(q, x + 1))
  OBVIOUS
<1> HIDE DEF T
<1> QED
  BY <1>4, <1>5 DEF Taken

\* What flush takes and keeps: together they are what was queued, in its order.
LEMMA FlushedType ==
  ASSUME NEW q \in Queues
  PROVE  /\ Packet(q) \in Seq(SentMessage) /\ Flushed(q) \in Queues
         /\ Flushed(q).closed = q.closed
         /\ Packet(q) \o (Flushed(q).kept \o Flushed(q).queue) = q.kept \o q.queue
<1> DEFINE n == Taken(q)
           L == Len(q.queue)
           front == SubSeq(q.queue, 1, n)
           rest == SubSeq(q.queue, n + 1, L)
<1>0. q.queue \in Seq(SentMessage) /\ q.kept \in Seq(SentMessage) /\ q.closed \in BOOLEAN
  BY DEF Queues
<1>1. n \in 0 .. L /\ L \in Nat
  BY <1>0, TakenType
<1> HIDE DEF n
<1>2. front \in Seq(SentMessage) /\ rest \in Seq(SentMessage)
  BY <1>0, <1>1
<1>3. q.queue = front \o rest
  <2>1. SubSeq(q.queue, 1, n) \o SubSeq(q.queue, n + 1, L) = SubSeq(q.queue, 1, L)
    <3>1. /\ 1 \in 1 .. Len(q.queue) + 1 /\ n \in 1 - 1 .. Len(q.queue)
          /\ Len(q.queue) \in n .. Len(q.queue)
      BY <1>1
    <3> QED
      BY <3>1, <1>0, ConcatAdjacentSubSeq
  <2> QED
    BY <2>1, <1>0, SubSeqFull
<1>4. Packet(q) = q.kept \o front
  BY DEF Packet, n
<1>5. ASSUME NEW k \in Seq(SentMessage), NEW r \in Seq(SentMessage),
             Flushed(q) = [q EXCEPT !.kept = k, !.queue = r]
      PROVE  /\ Flushed(q).kept = k /\ Flushed(q).queue = r /\ Flushed(q).closed = q.closed
             /\ Flushed(q) \in Queues
  BY <1>5 DEF Queues
<1>6. Flushed(q) = IF rest = <<>> THEN [q EXCEPT !.kept = <<>>, !.queue = <<>>]
                   ELSE [q EXCEPT !.kept = <<Head(rest)>>, !.queue = Tail(rest)]
  BY DEF Flushed, n
<1> HIDE DEF L, front, rest
<1>7. Packet(q) \in Seq(SentMessage)
  BY <1>0, <1>2, <1>4
<1>8. Packet(q) \o rest = q.kept \o q.queue
  <2>1. (q.kept \o front) \o rest = q.kept \o (front \o rest)
    <3>1. \A s, t, u \in Seq(SentMessage) : (s \o t) \o u = s \o (t \o u)
      BY ConcatAssociative
    <3>2. q.kept \in Seq(SentMessage) /\ front \in Seq(SentMessage) /\ rest \in Seq(SentMessage)
      BY <1>0, <1>2
    <3> QED
      BY <3>1, <3>2
  <2> QED
    BY <2>1, <1>3, <1>4
<1>9. CASE rest = <<>>
  <2>1. <<>> \in Seq(SentMessage) /\ <<>> \o <<>> = rest
    BY <1>9
  <2>2. /\ Flushed(q).kept = <<>> /\ Flushed(q).queue = <<>> /\ Flushed(q).closed = q.closed
        /\ Flushed(q) \in Queues
    BY <2>1, <1>5, <1>6, <1>9
  <2> QED
    BY <2>1, <2>2, <1>7, <1>8
<1>10. CASE rest # <<>>
  <2>1. Head(rest) \in SentMessage /\ Tail(rest) \in Seq(SentMessage)
    BY <1>2, <1>10
  <2>2. <<Head(rest)>> \in Seq(SentMessage)
    BY <2>1
  <2>3. /\ Flushed(q).kept = <<Head(rest)>> /\ Flushed(q).queue = Tail(rest)
        /\ Flushed(q).closed = q.closed /\ Flushed(q) \in Queues
    BY <2>1, <2>2, <1>5, <1>6, <1>10
  <2>4. <<Head(rest)>> \o Tail(rest) = rest
    BY <1>2, <1>10
  <2> QED
    BY <2>3, <2>4, <1>7, <1>8
<1> QED
  BY <1>9, <1>10

\* The identifiers written are those of the packet.
LEMMA WrittenType ==
  ASSUME NEW w \in Seq(SentMessage)
  PROVE  [k \in DOMAIN w |-> w[k].id] \in Seq(Nat)
<1>1. DOMAIN w = 1 .. Len(w) /\ Len(w) \in Nat /\ \A k \in 1 .. Len(w) : w[k] \in SentMessage
  OBVIOUS
<1>2. \A k \in 1 .. Len(w) : w[k].id \in Nat
  BY <1>1 DEF SentMessage
<1> QED
  BY <1>1, <1>2, IsASeq

-----------------------------------------------------------------------------
(* Jobs.                                                                   *)

\* The processes are all different.
LEMMA ProcsDiffer ==
  /\ \A c \in Conns : Recv(c) \in Procs /\ Recv(c) # Global /\ Recv(c) # Checker
  /\ \A k \in 1 .. MaxAuths : AuthGo(k) \in Procs /\ AuthGo(k) # Global /\ AuthGo(k) # Checker
  /\ \A c \in Conns, k \in 1 .. MaxAuths : Recv(c) # AuthGo(k)
  /\ \A c, d \in Conns : Recv(c) = Recv(d) => c = d
  /\ \A k, l \in 1 .. MaxAuths : AuthGo(k) = AuthGo(l) => k = l
  /\ Global \in Procs /\ Checker \in Procs /\ Global # Checker
  /\ \A p \in Procs : \/ \E c \in Conns : p = Recv(c)
                      \/ \E k \in 1 .. MaxAuths : p = AuthGo(k)
                      \/ p = Global \/ p = Checker
BY DEF Procs, Recv, AuthGo, Global, Checker

\* A process begins with a job.
LEMMA IdleIsJob == ASSUME ConnectionAssumption PROVE Idle \in Jobs
BY DEF ConnectionAssumption, Idle, Jobs, NoMessage, ClientMessage, Types, Results, Labels,
  RecvLabels,
       AuthLabels

\* Going to another label changes nothing else.
LEMMA GoesIsJob ==
  ASSUME TypeInv, NEW p \in Procs, NEW l \in Labels
  PROVE  /\ Goes(p, l) \in Jobs /\ Goes(p, l).at = l
         /\ Goes(p, l).conn = job[p].conn /\ Goes(p, l).close = job[p].close
         /\ Goes(p, l).msg = job[p].msg /\ Goes(p, l).next = job[p].next
BY DEF TypeInv, Goes, Jobs

\* Calling Close keeps the label.
LEMMA CallsCloseIsJob ==
  ASSUME NEW j \in Jobs, NEW c \in Conns
  PROVE  /\ CallsClose(j, c) \in Jobs /\ CallsClose(j, c).at = j.at
         /\ CallsClose(j, c).msg = j.msg /\ CallsClose(j, c).next = j.next
         /\ CallsClose(j, c).conn \in {j.conn, c}
         /\ j.close = "no" /\ CallsClose(j, c).close # "no" => CallsClose(j, c).conn = c
         /\ CallsClose(j, c).sendTo = j.sendTo
BY DEF CallsClose, Jobs

\* A process moves on.
LEMMA Moved ==
  ASSUME TypeInv, LabelInv, NEW r \in Procs, NEW j \in Jobs, job' = [job EXCEPT ![r] = j],
         auths' \in Nat, auths <= auths', JobOK(r, j, auths')
  PROVE  job' \in [Procs -> Jobs] /\ LabelInv'
<1>1. job' \in [Procs -> Jobs] /\ job'[r] = j /\ \A p \in Procs : p # r => job'[p] = job[p]
  BY DEF TypeInv
<1>2. \A p \in Procs : p # r => JobOK(p, job'[p], auths')
  BY <1>1 DEF LabelInv, JobOK, TypeInv
<1>3. LabelInv'
  BY <1>1, <1>2 DEF LabelInv, JobOK
<1> QED
  BY <1>1, <1>3

\* ... the receive goroutine of a connection
LEMMA RecvMoved ==
  ASSUME TypeInv, LabelInv, NEW c \in Conns, NEW j \in Jobs, job' = [job EXCEPT ![Recv(c)] = j],
         UNCHANGED auths, j.at \in RecvLabels, j.close # "no" => j.conn \in Conns
  PROVE  job' \in [Procs -> Jobs] /\ LabelInv'
<1>1. JobOK(Recv(c), j, auths')
  BY ProcsDiffer DEF JobOK
<1>2. Recv(c) \in Procs
  BY ProcsDiffer
<1>3. auths' \in Nat /\ auths <= auths'
  BY DEF TypeInv
<1> QED
  BY <1>1, <1>2, <1>3, Moved

\* ... the goroutine of an authentication
LEMMA AuthMoved ==
  ASSUME TypeInv, LabelInv, NEW k \in 1 .. MaxAuths, NEW j \in Jobs,
         job' = [job EXCEPT ![AuthGo(k)] = j], auths' \in Nat, auths <= auths', k <= auths',
         j.at \in AuthLabels, j.conn \in Conns
  PROVE  job' \in [Procs -> Jobs] /\ LabelInv'
<1>1. JobOK(AuthGo(k), j, auths')
  BY ProcsDiffer DEF JobOK
<1> QED
  BY <1>1, Moved, ProcsDiffer

\* ... a process that stays at its label
LEMMA SameLabel ==
  ASSUME TypeInv, LabelInv, NEW p \in Procs, NEW j \in Jobs, job' = [job EXCEPT ![p] = j],
         UNCHANGED auths, j.at = job[p].at, j.conn = job[p].conn,
         j.close # "no" => j.conn \in Conns
  PROVE  job' \in [Procs -> Jobs] /\ LabelInv'
<1>1. JobOK(p, j, auths')
  BY DEF LabelInv, JobOK
<1>2. auths' \in Nat /\ auths <= auths'
  BY DEF TypeInv
<1> QED
  BY <1>1, <1>2, Moved

\* What a peer sends is a sequence of packets, with messages if it is intact.
LEMMA StreamTypes ==
  ASSUME ConnectionAssumption, TypeInv, NEW c \in Conns
  PROVE  /\ Stream(c) \in Seq(Packets)
         /\ \A n \in DOMAIN Stream(c) :
              /\ Stream(c)[n].snappy \in BOOLEAN
              /\ Stream(c)[n].messages \in Seq(ClientMessage)
              /\ Stream(c)[n].content = "ok" => Stream(c)[n].messages # <<>>
<1>1. Stream(c) \in Seq(Packets)
  BY DEF ConnectionAssumption, TypeInv, Stream
<1>2. \A n \in DOMAIN Stream(c) : Stream(c)[n].content = "ok" => Stream(c)[n].messages # <<>>
  BY DEF ConnectionAssumption, TypeInv, Stream
<1>3. \A n \in DOMAIN Stream(c) : Stream(c)[n] \in Packets
  BY <1>1
<1>4. \A p \in Packets : p.snappy \in BOOLEAN /\ p.messages \in Seq(ClientMessage)
  BY DEF Packets
<1> QED
  BY <1>1, <1>2, <1>3, <1>4

\* The types and labels after a step of the network and the clock,
LEMMA NetworkTypes ==
  ASSUME ConnectionAssumption, TypeInv, LabelInv, NEW c \in Conns,
         Accept(c) \/ HangUp(c) \/ Expire(c)
  PROVE  TypeInv' /\ LabelInv'
<1>1. CASE Accept(c)
  <2> DEFINE j == Goes(Recv(c), "read")
  <2>1. job' = [job EXCEPT ![Recv(c)] = j]
    BY <1>1 DEF Accept, Goes
  <2>2. /\ j \in Jobs /\ j.at = "read" /\ j.close = job[Recv(c)].close /\ j.conn = job[Recv(c)].conn
    BY ProcsDiffer, GoesIsJob DEF Labels, RecvLabels
  <2>3. UNCHANGED auths /\ auths \in Nat
    BY <1>1 DEF Accept, TypeInv
  <2> HIDE DEF j
  <2>4. job' \in [Procs -> Jobs] /\ LabelInv'
    BY <2>1, <2>2, <2>3, RecvMoved, ProcsDiffer DEF LabelInv, JobOK, RecvLabels
  <2>5. TypeInv'
    BY <1>1, <2>4 DEF TypeInv, Accept, net, receiving, session, sending, bans, sendHist, authHist
  <2> QED
    BY <2>4, <2>5
<1>2. CASE HangUp(c)
  BY <1>2
  DEF HangUp, TypeInv, LabelInv, tables, net, receiving, session, sending, bans, sendHist,
    authHist
<1>3. CASE Expire(c)
  BY <1>3
  DEF Expire, TypeInv, LabelInv, tables, net, receiving, session, sending, bans, sendHist,
    authHist
<1> QED
  BY <1>1, <1>2, <1>3

\* ... of Close,
LEMMA CloseTypes ==
  ASSUME ConnectionAssumption, TypeInv, LabelInv, NEW p \in Procs,
         StoreClosing(p) \/ FinishClose(p)
  PROVE  TypeInv' /\ LabelInv'
<1>1. ASSUME NEW s \in {"no", "stored"}, job' = [job EXCEPT ![p].close = s], UNCHANGED auths,
             job[p].close # "no"
      PROVE  job' \in [Procs -> Jobs] /\ LabelInv'
  <2> DEFINE j == [job[p] EXCEPT !.close = s]
  <2>0. job[p] \in Jobs /\ job[p].conn \in Conns
    BY <1>1 DEF TypeInv, LabelInv, JobOK
  <2>1. /\ j \in Jobs /\ j.at = job[p].at /\ j.conn = job[p].conn /\ j.conn \in Conns
        /\ job' = [job EXCEPT ![p] = j]
    BY <1>1, <2>0 DEF Jobs
  <2> HIDE DEF j
  <2> QED
    BY <1>1, <2>1, SameLabel
<1>2. CASE StoreClosing(p)
  <2>1. job' \in [Procs -> Jobs] /\ LabelInv'
    BY <1>1, <1>2 DEF StoreClosing
  <2> QED
    BY <1>2, <2>1
    DEF TypeInv, StoreClosing, tables, receiving, session, sending, bans, sendHist, authHist
<1>3. CASE FinishClose(p)
  <2>1. job' \in [Procs -> Jobs] /\ LabelInv'
    BY <1>1, <1>3 DEF FinishClose
  <2>2. sendq' \in [Conns -> Queues]
    <3>1. UNCHANGED sendq \/ sendq' = [sendq EXCEPT ![job[p].conn].closed = TRUE]
      BY <1>3 DEF FinishClose
    <3>2. \A q \in Queues : [q EXCEPT !.closed = TRUE] \in Queues
      BY DEF Queues
    <3>3. sendq \in [Conns -> Queues]
      BY DEF TypeInv
    <3>4. CASE sendq' = [sendq EXCEPT ![job[p].conn].closed = TRUE]
      <4>1. DOMAIN sendq' = Conns
              /\ \A c \in Conns : sendq'[c] \in {sendq[c], [sendq[c] EXCEPT !.closed = TRUE]}
        BY <3>3, <3>4
      <4>2. \A c \in Conns : sendq[c] \in Queues
        BY <3>3
      <4>3. sendq' = [c \in Conns |-> sendq'[c]]
        BY <3>3, <3>4
      <4> QED
        BY <3>2, <4>1, <4>2, <4>3
    <3> QED
      BY <3>1, <3>3, <3>4
  <2> QED
    BY <1>3, <2>1, <2>2
    DEF TypeInv, FinishClose, tables, net, receiving, session, bans, sendHist, authHist
<1> QED
  BY <1>2, <1>3

\* ... of Send,
LEMMA SendTypes ==
  ASSUME ConnectionAssumption, TypeInv, LabelInv, NEW p \in Procs, PutSend(p)
  PROVE  TypeInv' /\ LabelInv'
<1> DEFINE j == [job[p] EXCEPT !.sendTo = Nobody]
           c == job[p].sendTo
           m == [id |-> accepted[c] + 1, size |-> job[p].size]
<1>0. job[p] \in Jobs
  BY DEF TypeInv
<1>1. /\ j \in Jobs /\ j.at = job[p].at /\ j.conn = job[p].conn /\ j.close = "no"
      /\ job' = [job EXCEPT ![p] = j] /\ c \in Conns /\ job[p].size \in Nat
  BY <1>0 DEF Jobs, PutSend
<1>2. job' \in [Procs -> Jobs] /\ LabelInv'
  <2> HIDE DEF j
  <2> QED
    BY <1>1, SameLabel DEF PutSend
<1>3. m \in SentMessage
  BY <1>1 DEF TypeInv, SentMessage
<1>4. /\ sendq' \in [Conns -> Queues]
      /\ accepted' \in [Conns -> Nat]
  <2>1. CASE UNCHANGED <<sendq, accepted>>
    BY <2>1 DEF TypeInv
  <2>2. CASE /\ sendq' = [sendq EXCEPT ![c] = Enqueued(@, m)]
             /\ accepted' = [accepted EXCEPT ![c] = @ + 1]
    <3>1. Enqueued(sendq[c], m) \in Queues
      <4> HIDE DEF m, c
      <4>1. sendq[c] \in Queues
        BY <1>1 DEF TypeInv
      <4>2. Append(sendq[c].queue, m) \in Seq(SentMessage)
        BY <1>3, <4>1 DEF Queues
      <4> QED
        BY <4>1, <4>2 DEF Queues, Enqueued
    <3> HIDE DEF m, c
    <3> QED
      BY <1>1, <2>2, <3>1 DEF TypeInv
  <2> QED
    BY <2>1, <2>2 DEF PutSend
<1> QED
  BY <1>2, <1>4 DEF TypeInv, PutSend, tables, net, receiving, session, bans, sendHist, authHist

\* ... the GLOBAL channel, or the checker
LEMMA OtherMoved ==
  ASSUME TypeInv, LabelInv, NEW p \in {Global, Checker}, NEW j \in Jobs,
         job' = [job EXCEPT ![p] = j], UNCHANGED auths, j.close # "no" => j.conn \in Conns,
         p = Global => j.at = "idle",
         p = Checker => j.at = "idle" \/ (j.at = "ban" /\ j.conn \in Conns)
  PROVE  job' \in [Procs -> Jobs] /\ LabelInv'
<1>1. JobOK(p, j, auths') /\ p \in Procs
  BY ProcsDiffer DEF JobOK
<1>2. auths' \in Nat /\ auths <= auths'
  BY DEF TypeInv
<1> QED
  BY <1>1, <1>2, Moved

\* ... of flush,
LEMMA FlushTypes ==
  ASSUME ConnectionAssumption, TypeInv, LabelInv, NEW c \in Conns, Collect(c) \/ Write(c)
  PROVE  TypeInv' /\ LabelInv'
<1>1. CASE Collect(c)
  <2>1. sendq[c] \in Queues
    BY DEF TypeInv
  <2>2. Packet(sendq[c]) \in Seq(SentMessage) /\ Flushed(sendq[c]) \in Queues
    BY <2>1, FlushedType
  <2>3. sendq' = [sendq EXCEPT ![c] = Flushed(sendq[c])]
    BY <1>1 DEF Collect
  <2>4. UNCHANGED writing \/ writing' = [writing EXCEPT ![c] = Packet(sendq[c])]
    BY <1>1 DEF Collect
  <2>5. sendq' \in [Conns -> Queues] /\ writing' \in [Conns -> Seq(SentMessage)]
    <3> DEFINE P == Packet(sendq[c])
               F == Flushed(sendq[c])
    <3>1. /\ P \in Seq(SentMessage) /\ F \in Queues /\ sendq' = [sendq EXCEPT ![c] = F]
          /\ UNCHANGED writing \/ writing' = [writing EXCEPT ![c] = P]
      BY <2>2, <2>3, <2>4
    <3> HIDE DEF P, F
    <3>2. sendq' \in [Conns -> Queues]
      BY <3>1 DEF TypeInv
    <3>3. CASE writing' = [writing EXCEPT ![c] = P]
      BY <3>1, <3>2, <3>3 DEF TypeInv
    <3>4. CASE UNCHANGED writing
      BY <3>2, <3>4 DEF TypeInv
    <3> QED
      BY <3>1, <3>3, <3>4
  <2> QED
    BY <1>1, <2>5
    DEF TypeInv, LabelInv, Collect, net, tables, receiving, session, bans, sendHist, authHist
<1>2. CASE Write(c)
  <2> DEFINE w == [k \in DOMAIN writing[c] |-> writing[c][k].id]
  <2>1. writing[c] \in Seq(SentMessage) /\ written[c] \in Seq(Nat)
    BY DEF TypeInv
  <2>2. w \in Seq(Nat)
    BY <2>1, WrittenType
  <2>3. written' = [written EXCEPT ![c] = written[c] \o w] \/ UNCHANGED written
    BY <1>2 DEF Write
  <2> HIDE DEF w
  <2> DEFINE more == written[c] \o w
  <2>4. more \in Seq(Nat) /\ (written' = [written EXCEPT ![c] = more] \/ UNCHANGED written)
    BY <2>1, <2>2, <2>3
  <2> HIDE DEF more
  <2>5. written' \in [Conns -> Seq(Nat)]
    <3>1. written \in [Conns -> Seq(Nat)]
      BY DEF TypeInv
    <3> QED
      BY <2>4, <3>1
  <2>6. writing' \in [Conns -> Seq(SentMessage)]
    BY <1>2 DEF TypeInv, Write
  <2> QED
    BY <1>2, <2>5, <2>6
    DEF TypeInv, LabelInv, Write, net, tables, receiving, session, bans, authHist
<1> QED
  BY <1>1, <1>2

\* ... of the receive goroutine until it has parsed a packet,
LEMMA ReadTypes ==
  ASSUME ConnectionAssumption, TypeInv, LabelInv, NEW c \in Conns,
         Read(c) \/ ReadEnds(c) \/ ReadPacket(c)
  PROVE  TypeInv' /\ LabelInv'
<1> DEFINE p == Recv(c)
<1>1. p \in Procs /\ job[p] \in Jobs /\ auths \in Nat
  BY ProcsDiffer DEF TypeInv
<1>2. ASSUME NEW l \in RecvLabels, job[p].close = "no"
      PROVE  /\ Goes(p, l) \in Jobs /\ Goes(p, l).at = l /\ Goes(p, l).close = "no"
             /\ CallsClose(Goes(p, l), c) \in Jobs /\ CallsClose(Goes(p, l), c).at = l
             /\ CallsClose(Goes(p, l), c).close # "no" => CallsClose(Goes(p, l), c).conn \in Conns
  <2>1. l \in Labels
    BY DEF Labels
  <2>2. Goes(p, l) \in Jobs /\ Goes(p, l).at = l /\ Goes(p, l).close = "no"
    BY <1>1, <1>2, <2>1, GoesIsJob
  <2> QED
    BY <2>2, CallsCloseIsJob
<1>3. ASSUME NEW l \in RecvLabels, job[p].close = "no", UNCHANGED auths,
             \/ job' = [job EXCEPT ![p] = Goes(p, l)]
             \/ job' = [job EXCEPT ![p] = CallsClose(Goes(p, l), c)]
      PROVE  job' \in [Procs -> Jobs] /\ LabelInv'
  <2>1. PICK j \in {Goes(p, l), CallsClose(Goes(p, l), c)} : job' = [job EXCEPT ![p] = j]
    BY <1>3
  <2>2. j \in Jobs /\ j.at \in RecvLabels /\ (j.close # "no" => j.conn \in Conns)
    BY <1>2, <1>3
  <2> QED
    BY <1>3, <2>1, <2>2, RecvMoved
<1>4. CASE Read(c)
  <2>1. \E l \in {"read", "parse"} : job' = [job EXCEPT ![p] = Goes(p, l)]
    BY <1>4 DEF Read
  <2>2. UNCHANGED auths /\ job[p].close = "no"
    BY <1>4 DEF Read, At, Free
  <2>3. job' \in [Procs -> Jobs] /\ LabelInv'
    BY <2>1, <2>2, <1>3 DEF RecvLabels
  <2>4. reader' = [d \in Conns |-> reader'[d]]
    BY <1>4 DEF Read, TypeInv
  <2> QED
    BY <1>4, <2>3, <2>4 DEF TypeInv, Read, net, tables, session, sending, bans, sendHist, authHist
<1>5. CASE ReadEnds(c)
  <2>0. job[p].close = "no" /\ job[p].at = "read" /\ UNCHANGED auths
    BY <1>5 DEF ReadEnds, At, Free
  <2>1. PICK j \in {Goes(p, "done"), CallsClose(job[p], c)} : job' = [job EXCEPT ![p] = j]
    BY <1>5 DEF ReadEnds
  <2>2. j \in Jobs /\ j.at \in RecvLabels /\ (j.close # "no" => j.conn \in Conns)
    <3>1. /\ CallsClose(job[p], c) \in Jobs /\ CallsClose(job[p], c).at = "read"
          /\ CallsClose(job[p], c).close # "no" => CallsClose(job[p], c).conn \in Conns
      BY <2>0, <1>1, CallsCloseIsJob
    <3>2. Goes(p, "done") \in Jobs /\ Goes(p, "done").at = "done" /\ Goes(p, "done").close = "no"
      BY <2>0, <1>2 DEF RecvLabels
    <3> QED
      BY <3>1, <3>2 DEF RecvLabels
  <2>3. job' \in [Procs -> Jobs] /\ LabelInv'
    BY <2>0, <2>1, <2>2, RecvMoved
  <2> QED
    BY <1>5, <2>3
    DEF TypeInv, ReadEnds, net, tables, receiving, session, sending, bans, sendHist, authHist
<1>6. CASE ReadPacket(c)
  <2>0. job[p].close = "no" /\ job[p].at = "parse" /\ UNCHANGED auths
    BY <1>6 DEF ReadPacket, At, Free
  <2>1. \/ job' = [job EXCEPT ![p] = Goes(p, "read")]
        \/ job' = [job EXCEPT ![p] = CallsClose(Goes(p, "read"), c)]
        \/ job' = [job EXCEPT ![p] = [Goes(p, "message") EXCEPT !.next = 1]]
    BY <1>6 DEF ReadPacket
  <2>2. ASSUME job' = [job EXCEPT ![p] = [Goes(p, "message") EXCEPT !.next = 1]]
        PROVE  job' \in [Procs -> Jobs] /\ LabelInv'
    <3> DEFINE j == [Goes(p, "message") EXCEPT !.next = 1]
    <3>1. Goes(p, "message") \in Jobs /\ Goes(p, "message").at = "message"
            /\ Goes(p, "message").close = "no"
      BY <2>0, <1>2 DEF RecvLabels
    <3>2. j \in Jobs /\ j.at = "message" /\ j.close = "no"
      BY <3>1 DEF Jobs
    <3>3. job' = [job EXCEPT ![p] = j]
      BY <2>2
    <3> HIDE DEF j
    <3> QED
      BY <2>0, <3>3, <3>2, RecvMoved DEF RecvLabels
  <2>3. job' \in [Procs -> Jobs] /\ LabelInv'
    BY <2>0, <2>1, <2>2, <1>3 DEF RecvLabels
  <2>4. reader' = [d \in Conns |-> reader'[d]] /\ compression' \in [Conns -> BOOLEAN]
    <3>1. \/ UNCHANGED reader
          \/ reader' = [reader EXCEPT ![c] = MovedToFront(reader[c])]
          \/ reader' = [reader EXCEPT ![c].readPos = 0]
      BY <1>6 DEF ReadPacket
    <3>2. UNCHANGED compression
          \/ compression' = [compression EXCEPT ![c] = compression[c]
                               \/ Stream(c)[PacketAt(Stream(c), reader[c])].snappy]
      BY <1>6 DEF ReadPacket
    <3>3. reader = [d \in Conns |-> reader[d]] /\ compression \in [Conns -> BOOLEAN]
      BY DEF TypeInv
    <3>4. reader' = [d \in Conns |-> reader'[d]]
      BY <3>1, <3>3
    <3> DEFINE snappy == Stream(c)[PacketAt(Stream(c), reader[c])].snappy
               z == compression[c] \/ snappy
    <3>5. z \in BOOLEAN /\ (UNCHANGED compression \/ compression' = [compression EXCEPT ![c] = z])
      BY <3>2
    <3> HIDE DEF z
    <3>6. compression' \in [Conns -> BOOLEAN]
      BY <3>3, <3>5
    <3> QED
      BY <3>4, <3>6
  <2> QED
    BY <1>6, <2>3, <2>4
    DEF TypeInv, ReadPacket, net, tables, session, sending, bans, sendHist, authHist
<1> QED
  BY <1>4, <1>5, <1>6

\* ... of receiveMessage,
LEMMA ReceiveTypes ==
  ASSUME ConnectionAssumption, TypeInv, LabelInv, MessageInv, NEW c \in Conns, ReceiveMessage(c)
  PROVE  TypeInv' /\ LabelInv'
<1> DEFINE p == Recv(c)
           packet == Stream(c)[PacketAt(Stream(c), reader[c])]
           k == job[p].next
           m == packet.messages[k]
           next == IF k < Len(packet.messages) THEN [job[p] EXCEPT !.next = k + 1]
                   ELSE [Goes(p, "parse") EXCEPT !.next = 0]
<1>1. /\ p \in Procs /\ job[p] \in Jobs /\ k \in Nat
      /\ job[p].close = "no" /\ job[p].at = "message" /\ UNCHANGED auths
  BY ProcsDiffer DEF TypeInv, ReceiveMessage, At, Free, Jobs
<1>2. m \in ClientMessage
  <2>1. PacketAt(Stream(c), reader[c]) \in DOMAIN Stream(c) /\ k \in DOMAIN packet.messages
    BY <1>1 DEF MessageInv, HandledPacket
  <2>2. packet.messages \in Seq(ClientMessage)
    BY <2>1, StreamTypes
  <2> HIDE DEF packet, k
  <2> QED
    BY <2>1, <2>2
<1>3. next \in Jobs /\ next.at \in {"message", "parse"} /\ next.close = "no"
  <2>1. Goes(p, "parse") \in Jobs /\ Goes(p, "parse").at = "parse" /\ Goes(p, "parse").close = "no"
    BY <1>1, GoesIsJob DEF Labels, RecvLabels
  <2>2. \A j \in Jobs, n \in Nat :
          [j EXCEPT !.next = n] \in Jobs /\ [j EXCEPT !.next = n].at = j.at
            /\ [j EXCEPT !.next = n].close = j.close
    BY DEF Jobs
  <2>3. k + 1 \in Nat /\ 0 \in Nat
    BY <1>1
  <2> HIDE DEF k, packet
  <2> QED
    BY <2>1, <2>2, <2>3, <1>1
<1>4. PICK j \in {next, CallsClose(next, c)} : job' = [job EXCEPT ![p] = j]
  BY DEF ReceiveMessage
<1> HIDE DEF next
<1>5. j \in Jobs /\ j.at \in RecvLabels /\ (j.close # "no" => j.conn \in Conns)
  BY <1>3, <1>4, CallsCloseIsJob DEF RecvLabels
<1>6. job' \in [Procs -> Jobs] /\ LabelInv'
  BY <1>1, <1>4, <1>5, RecvMoved
<1>7. globalQueue' \in Seq(Queued)
  <2>1. UNCHANGED globalQueue \/ globalQueue' = Append(globalQueue, [conn |-> c, msg |-> m])
    BY DEF ReceiveMessage
  <2>2. [conn |-> c, msg |-> m] \in Queued
    BY <1>2 DEF Queued
  <2> DEFINE r == [conn |-> c, msg |-> m]
  <2>3. CASE UNCHANGED globalQueue
    BY <2>3 DEF TypeInv
  <2>4. CASE globalQueue' = Append(globalQueue, r)
    <3>1. r \in Queued /\ globalQueue \in Seq(Queued)
      BY <2>2 DEF TypeInv
    <3> HIDE DEF r
    <3> QED
      BY <2>4, <3>1
  <2> QED
    BY <2>1, <2>3, <2>4
<1>8. reader' = [d \in Conns |-> reader'[d]]
  BY DEF TypeInv, ReceiveMessage
<1> QED
  BY <1>6, <1>7, <1>8
  DEF TypeInv, ReceiveMessage, net, tables, sending, bans, sendHist, authHist

\* ... of the GLOBAL channel,
LEMMA HandleTypes ==
  ASSUME ConnectionAssumption, TypeInv, LabelInv, HandleMessage
  PROVE  TypeInv' /\ LabelInv'
<1> DEFINE c == Head(globalQueue).conn
           m == Head(globalQueue).msg
<1>1. c \in Conns /\ m \in ClientMessage /\ globalQueue' \in Seq(Queued)
  <2>1. globalQueue # <<>> /\ globalQueue' = Tail(globalQueue) /\ globalQueue \in Seq(Queued)
    BY DEF HandleMessage, TypeInv
  <2>2. Head(globalQueue) \in Queued /\ Tail(globalQueue) \in Seq(Queued)
    BY <2>1
  <2> QED
    BY <2>1, <2>2 DEF Queued
<1>2. Idle \in Jobs /\ Idle.at = "idle" /\ Idle.close = "no" /\ m.size \in Nat
      /\ m.to \in Conns \cup {Nobody} /\ Owner \in Conns
  BY <1>1, IdleIsJob DEF Idle, ClientMessage, Conns
<1>3. job[Global].at = "idle" /\ job[Global].close = "no"
  BY DEF HandleMessage, At, Free
<1>4. ASSUME NEW d \in Conns, NEW n \in Nat
      PROVE  /\ CallsSend(Idle, d, n) \in Jobs /\ CallsSend(Idle, d, n).at = "idle"
             /\ CallsSend(Idle, d, n).close = "no"
             /\ CallsClose(Idle, d) \in Jobs /\ CallsClose(Idle, d).at = "idle"
             /\ CallsClose(Idle, d).close # "no" => CallsClose(Idle, d).conn \in Conns
  <2>1. CallsSend(Idle, d, n) \in Jobs /\ CallsSend(Idle, d, n).at = "idle"
        /\ CallsSend(Idle, d, n).close = "no"
    BY <1>2 DEF CallsSend, Jobs
  <2>2. /\ CallsClose(Idle, d) \in Jobs /\ CallsClose(Idle, d).at = "idle"
        /\ CallsClose(Idle, d).close # "no" => CallsClose(Idle, d).conn \in Conns
    BY <1>2, CallsCloseIsJob
  <2> QED
    BY <2>1, <2>2
<1>5. ASSUME NEW j \in Jobs, j.at = "idle", j.close # "no" => j.conn \in Conns, UNCHANGED auths,
             job' = [job EXCEPT ![Global] = j]
      PROVE  job' \in [Procs -> Jobs] /\ LabelInv'
  BY <1>5, OtherMoved, ProcsDiffer
<1>6. ASSUME m.type = "USER", HandleUser(c, m)
      PROVE  job' \in [Procs -> Jobs] /\ LabelInv' /\ netClosed' \in [Conns -> BOOLEAN]
             /\ auths' \in 0 .. MaxAuths
  <2>1. PICK j \in {Idle} \cup {CallsSend(Idle, d, m.size) : d \in Conns} :
          job' = [job EXCEPT ![Global] = j]
    <3> DEFINE to == IF c = Owner THEN m.to ELSE Owner
               reached == IF c = Owner THEN to # Nobody /\ Found(to) ELSE HasOwner
    <3>1. job' = [job EXCEPT ![Global] = IF reached THEN CallsSend(Idle, to, m.size) ELSE Idle]
      BY <1>6 DEF HandleUser
    <3>2. reached => to \in Conns
      BY <1>2
    <3> HIDE DEF to, reached, m
    <3>3. CASE reached
      BY <3>1, <3>2, <3>3
    <3>4. CASE ~reached
      BY <3>1, <3>4
    <3> QED
      BY <3>3, <3>4
  <2>2. j \in Jobs /\ j.at = "idle" /\ j.close = "no"
    <3>1. m.size \in Nat
      BY <1>2
    <3> HIDE DEF m
    <3>2. ASSUME NEW d \in Conns, j = CallsSend(Idle, d, m.size)
          PROVE  j \in Jobs /\ j.at = "idle" /\ j.close = "no"
      BY <1>4, <3>1, <3>2
    <3> QED
      BY <1>2, <3>2
  <2>3. UNCHANGED auths
    BY <1>6 DEF HandleUser
  <2> QED
    BY <1>5, <1>6, <2>1, <2>2, <2>3 DEF HandleUser, TypeInv
<1>7. ASSUME m.type = "DISCONNECT", HandleDisconnect(c, m)
      PROVE  job' \in [Procs -> Jobs] /\ LabelInv' /\ netClosed' \in [Conns -> BOOLEAN]
             /\ auths' \in 0 .. MaxAuths
  <2>1. UNCHANGED auths
    BY <1>7 DEF HandleDisconnect
  <2>2. CASE m.to # Nobody /\ Found(m.to)
    <3>1. m.to \in Conns /\ job' = [job EXCEPT ![Global] = CallsClose(Idle, m.to)]
          /\ netClosed' = [netClosed EXCEPT ![m.to] = TRUE]
      BY <1>2, <1>7, <2>2 DEF HandleDisconnect
    <3> DEFINE j == CallsClose(Idle, m.to)
    <3>2. j \in Jobs /\ j.at = "idle" /\ (j.close # "no" => j.conn \in Conns)
          /\ job' = [job EXCEPT ![Global] = j]
      BY <1>4, <3>1
    <3> HIDE DEF j
    <3>3. job' \in [Procs -> Jobs] /\ LabelInv'
      BY <1>5, <2>1, <3>2
    <3> QED
      BY <2>1, <3>1, <3>3 DEF TypeInv
  <2>3. CASE ~(m.to # Nobody /\ Found(m.to))
    BY <1>7, <2>1, <2>3 DEF HandleDisconnect, TypeInv, LabelInv
  <2> QED
    BY <2>2, <2>3
<1>8. ASSUME m.type = "AUTH", HandleAuth(c, m)
      PROVE  job' \in [Procs -> Jobs] /\ LabelInv' /\ netClosed' \in [Conns -> BOOLEAN]
             /\ auths' \in 0 .. MaxAuths
  <2>1. CASE UNCHANGED auths /\ job' = [job EXCEPT ![Global] = CallsClose(Idle, c)]
    <3> DEFINE j == CallsClose(Idle, c)
    <3>1. j \in Jobs /\ j.at = "idle" /\ (j.close # "no" => j.conn \in Conns)
          /\ job' = [job EXCEPT ![Global] = j]
      BY <1>1, <1>4, <2>1
    <3> HIDE DEF j
    <3>2. job' \in [Procs -> Jobs] /\ LabelInv'
      BY <1>5, <2>1, <3>1
    <3> QED
      BY <1>8, <2>1, <3>2 DEF HandleAuth, TypeInv
  <2>2. CASE /\ auths < MaxAuths /\ auths' = auths + 1
             /\ job' = [job EXCEPT ![AuthGo(auths + 1)] =
                          [Idle EXCEPT !.at = "auth", !.conn = c, !.msg = m]]
    <3> DEFINE j == [Idle EXCEPT !.at = "auth", !.conn = c, !.msg = m]
    <3>1. MaxAuths \in Nat /\ auths \in Nat /\ auths + 1 \in 1 .. MaxAuths
      BY <2>2 DEF TypeInv, ConnectionAssumption
    <3>2. j \in Jobs /\ j.at = "auth" /\ j.conn \in Conns
      BY <1>1, <1>2 DEF Jobs, Labels, AuthLabels
    <3>3. job' = [job EXCEPT ![AuthGo(auths + 1)] = j]
      BY <2>2
    <3> HIDE DEF j
    <3>4. auths' \in Nat /\ auths <= auths' /\ auths + 1 <= auths' /\ auths' \in 0 .. MaxAuths
      BY <2>2, <3>1
    <3>5. job' \in [Procs -> Jobs] /\ LabelInv'
      BY <3>1, <3>2, <3>3, <3>4, AuthMoved DEF AuthLabels
    <3> QED
      BY <1>8, <3>4, <3>5 DEF HandleAuth, TypeInv
  <2> QED
    BY <1>8, <2>1, <2>2 DEF HandleAuth
<1>9. job' \in [Procs -> Jobs] /\ LabelInv' /\ netClosed' \in [Conns -> BOOLEAN]
      /\ auths' \in 0 .. MaxAuths
  BY <1>6, <1>7, <1>8 DEF HandleMessage
<1> QED
  BY <1>1, <1>9
  DEF TypeInv, HandleMessage, tables, receiving, session, sending, bans, sendHist, authHist

\* The goroutine of an authentication goes on.
LEMMA AuthGoes ==
  ASSUME ConnectionAssumption, TypeInv, LabelInv, NEW k \in 1 .. MaxAuths, UNCHANGED auths,
         job[AuthGo(k)].at # "idle", job[AuthGo(k)].close = "no",
         NEW l \in AuthLabels, NEW d \in Conns, NEW n, n \in Nat, NEW b \in Nat,
         \/ job' = [job EXCEPT ![AuthGo(k)] = Goes(AuthGo(k), l)]
         \/ job' = [job EXCEPT ![AuthGo(k)] = CallsClose(Goes(AuthGo(k), l), d)]
         \/ job' = [job EXCEPT ![AuthGo(k)] = CallsSend(Goes(AuthGo(k), l), d, n)]
         \/ job' = [job EXCEPT ![AuthGo(k)] = [Goes(AuthGo(k), l) EXCEPT !.next = b]]
  PROVE  job' \in [Procs -> Jobs] /\ LabelInv'
<1> DEFINE g == Goes(AuthGo(k), l)
<1>1. AuthGo(k) \in Procs /\ k <= auths /\ job[AuthGo(k)].conn \in Conns /\ auths \in Nat
  BY ProcsDiffer DEF LabelInv, JobOK, TypeInv
<1>2. g \in Jobs /\ g.at = l /\ g.close = "no" /\ g.conn \in Conns
  BY <1>1, GoesIsJob DEF Labels
<1>3. CallsClose(g, d) \in Jobs /\ CallsClose(g, d).at = l /\ CallsClose(g, d).conn \in Conns
  <2> HIDE DEF g
  <2>1. /\ CallsClose(g, d) \in Jobs /\ CallsClose(g, d).at = g.at
        /\ CallsClose(g, d).conn \in {g.conn, d}
    BY <1>2, CallsCloseIsJob
  <2> QED
    BY <1>2, <2>1
<1>4. CallsSend(g, d, n) \in Jobs /\ CallsSend(g, d, n).at = l /\ CallsSend(g, d, n).conn \in Conns
  <2> HIDE DEF g
  <2> QED
    BY <1>2 DEF CallsSend, Jobs
<1>5. /\ [g EXCEPT !.next = b] \in Jobs /\ [g EXCEPT !.next = b].at = l
      /\ [g EXCEPT !.next = b].conn \in Conns
  <2> HIDE DEF g
  <2> QED
    BY <1>2 DEF Jobs
<1>6. PICK j \in {g, CallsClose(g, d), CallsSend(g, d, n), [g EXCEPT !.next = b]} :
        job' = [job EXCEPT ![AuthGo(k)] = j]
  OBVIOUS
<1> HIDE DEF g
<1>7. j \in Jobs /\ j.at \in AuthLabels /\ j.conn \in Conns
  BY <1>2, <1>3, <1>4, <1>5
<1>8. auths' \in Nat /\ auths <= auths' /\ k <= auths'
  BY <1>1
<1> QED
  BY <1>6, <1>7, <1>8, AuthMoved

\* ... of an authentication,
LEMMA AuthTypes ==
  ASSUME ConnectionAssumption, TypeInv, LabelInv, NEW k \in 1 .. MaxAuths,
         \/ DoAuth(k) \/ Authenticate(k) \/ OnAuthenticated(k) \/ Reply(k) \/ ReadCounter(k)
         \/ WriteCounter(k)
  PROVE  TypeInv' /\ LabelInv'
<1> DEFINE p == AuthGo(k)
           c == job[p].conn
<1>1. UNCHANGED auths /\ job[p].close = "no" /\ job[p].at # "idle"
  BY DEF DoAuth, Authenticate, OnAuthenticated, Reply, ReadCounter, WriteCounter, At, Free
<1>2. p \in Procs /\ job[p] \in Jobs /\ c \in Conns /\ job[p].msg \in ClientMessage
        /\ job[p].next \in Nat
  BY <1>1, ProcsDiffer DEF LabelInv, JobOK, TypeInv, Jobs
<1>3. Key(p) \in Keys /\ Owner \in Conns /\ ResultSize \in Nat /\ 0 \in Nat
  BY <1>2 DEF Key, Keys, ConnectionAssumption, ClientMessage, Conns, ResultSize
<1>4. job' \in [Procs -> Jobs] /\ LabelInv'
  <2>1. \E l \in AuthLabels, d \in Conns, n \in Nat, b \in Nat :
          \/ job' = [job EXCEPT ![p] = Goes(p, l)]
          \/ job' = [job EXCEPT ![p] = CallsClose(Goes(p, l), d)]
          \/ job' = [job EXCEPT ![p] = CallsSend(Goes(p, l), d, n)]
          \/ job' = [job EXCEPT ![p] = [Goes(p, l) EXCEPT !.next = b]]
    <3>1. CASE DoAuth(k)
      BY <1>2, <1>3, <3>1 DEF DoAuth, AuthLabels
    <3>2. CASE Authenticate(k)
      BY <1>2, <1>3, <3>2 DEF Authenticate, AuthLabels
    <3>3. CASE OnAuthenticated(k)
      BY <1>2, <1>3, <3>3 DEF OnAuthenticated, AuthLabels
    <3>4. CASE Reply(k)
      BY <1>2, <1>3, <3>4 DEF Reply, AuthLabels
    <3>5. CASE ReadCounter(k)
      <4>1. failedAuths[Key(p)] \in Nat
        BY <1>3 DEF TypeInv
      <4> QED
        BY <1>2, <1>3, <3>5, <4>1 DEF ReadCounter, AuthLabels
    <3>6. CASE WriteCounter(k)
      BY <1>2, <1>3, <3>6 DEF WriteCounter, AuthLabels
    <3> QED
      BY <3>1, <3>2, <3>3, <3>4, <3>5, <3>6
  <2>2. PICK l \in AuthLabels, d \in Conns, n \in Nat, b \in Nat :
          \/ job' = [job EXCEPT ![p] = Goes(p, l)]
          \/ job' = [job EXCEPT ![p] = CallsClose(Goes(p, l), d)]
          \/ job' = [job EXCEPT ![p] = CallsSend(Goes(p, l), d, n)]
          \/ job' = [job EXCEPT ![p] = [Goes(p, l) EXCEPT !.next = b]]
    BY <2>1
  <2> QED
    BY <1>1, <2>2, AuthGoes
<1>5. CASE DoAuth(k)
  BY <1>4, <1>5
  DEF TypeInv, DoAuth, net, tables, receiving, session, sending, bans, sendHist, authHist
<1>6. CASE Authenticate(k)
  BY <1>4, <1>6
  DEF TypeInv, Authenticate, net, tables, receiving, session, sending, bans, sendHist, authHist
<1>7. CASE OnAuthenticated(k)
  <2>1. state' = [state EXCEPT ![c] = "AUTHENTICATED"]
          /\ fsm' = [fsm EXCEPT ![c] = NextState(c, fsm[c])]
        /\ unauthenticated' = unauthenticated \ {c}
    BY <1>7 DEF OnAuthenticated
  <2>2. NextState(c, fsm[c]) \in Nat
    BY <1>2 DEF NextState, TypeInv
  <2>3. fsm' \in [Conns -> Nat]
    BY <2>1, <2>2 DEF TypeInv
  <2>4. state' \in [Conns -> {"NONE", "UNAUTHENTICATED", "AUTHENTICATED", "CLOSING"}]
    BY <2>1 DEF TypeInv
  <2> QED
    BY <1>4, <1>7, <2>1, <2>3, <2>4
    DEF TypeInv, OnAuthenticated, net, receiving, sending, bans, sendHist
<1>8. CASE Reply(k)
  BY <1>4, <1>8
  DEF TypeInv, Reply, net, tables, receiving, session, sending, bans, sendHist, authHist
<1>9. CASE ReadCounter(k)
  <2>1. UNCHANGED attempts \/ attempts' = [attempts EXCEPT ![Key(p)] = attempts[Key(p)] + 1]
    BY <1>9 DEF ReadCounter
  <2>2. attempts' \in [Keys -> Nat]
    <3>1. attempts \in [Keys -> Nat] /\ attempts[Key(p)] + 1 \in Nat
      BY <1>3 DEF TypeInv
    <3> QED
      BY <2>1, <3>1, <1>3
  <2> QED
    BY <1>4, <1>9, <2>2
    DEF TypeInv, ReadCounter, net, tables, receiving, session, sending, bans, sendHist
<1>10. CASE WriteCounter(k)
  <2>1. failedAuths' = [failedAuths EXCEPT ![Key(p)] = job[p].next + 1]
    BY <1>10 DEF WriteCounter
  <2>2. failedAuths' \in [Keys -> Nat]
    <3>1. failedAuths \in [Keys -> Nat] /\ job[p].next + 1 \in Nat
      BY <1>2 DEF TypeInv
    <3> QED
      BY <2>1, <3>1, <1>3
  <2> QED
    BY <1>4, <1>10, <2>2
    DEF TypeInv, WriteCounter, net, tables, receiving, session, sending, sendHist, authHist
<1> QED
  BY <1>5, <1>6, <1>7, <1>8, <1>9, <1>10

\* ... and of checkUnauthConns.
LEMMA CheckerTypes ==
  ASSUME ConnectionAssumption, TypeInv, LabelInv, BanUnauth \/ \E c \in Conns : CheckUnauth(c)
  PROVE  TypeInv' /\ LabelInv'
<1>1. Checker \in Procs /\ job[Checker] \in Jobs /\ job[Checker].close = "no" /\ UNCHANGED auths
  BY ProcsDiffer DEF TypeInv, BanUnauth, CheckUnauth, At, Free
<1>2. ASSUME NEW c \in Conns, CheckUnauth(c) PROVE job' \in [Procs -> Jobs] /\ LabelInv'
  <2> DEFINE j == [job[Checker] EXCEPT !.at = "ban", !.conn = c]
  <2>1. j \in Jobs /\ j.at = "ban" /\ j.conn \in Conns /\ j.close = "no"
    BY <1>1 DEF Jobs, Labels
  <2>2. job' = [job EXCEPT ![Checker] = j]
    BY <1>2 DEF CheckUnauth
  <2> HIDE DEF j
  <2> QED
    BY <1>1, <2>1, <2>2, OtherMoved, ProcsDiffer
<1>3. ASSUME BanUnauth PROVE job' \in [Procs -> Jobs] /\ LabelInv'
  <2> DEFINE c == job[Checker].conn
             j == CallsClose(Goes(Checker, "idle"), c)
  <2>1. c \in Conns
    BY <1>1, <1>3, ProcsDiffer DEF LabelInv, JobOK, BanUnauth, At
  <2>2. Goes(Checker, "idle") \in Jobs /\ Goes(Checker, "idle").at = "idle"
          /\ Goes(Checker, "idle").close = "no"
    BY <1>1, GoesIsJob DEF Labels, RecvLabels
  <2>3. job' = [job EXCEPT ![Checker] = j]
    BY <1>3 DEF BanUnauth
  <2> HIDE DEF c
  <2>4. j \in Jobs /\ j.at = "idle" /\ (j.close # "no" => j.conn \in Conns)
    BY <2>1, <2>2, CallsCloseIsJob
  <2> HIDE DEF j
  <2> QED
    BY <1>1, <2>3, <2>4, OtherMoved, ProcsDiffer
<1>4. job' \in [Procs -> Jobs] /\ LabelInv'
  BY <1>2, <1>3
<1>5. /\ UNCHANGED <<scenario, state, net, tables, receiving, compression, session, sending>>
      /\ UNCHANGED <<globalQueue, auths, failedAuths, sendHist, authHist>>
  <2>1. CASE BanUnauth
    BY <2>1 DEF BanUnauth
  <2>2. ASSUME NEW c \in Conns, CheckUnauth(c)
        PROVE  /\ UNCHANGED <<scenario, state, net, tables, receiving, compression, session, sending>>
               /\ UNCHANGED <<globalQueue, auths, failedAuths, sendHist, authHist>>
    BY <2>2 DEF CheckUnauth, bans
  <2> QED
    BY <2>1, <2>2
<1> QED
  BY <1>4, <1>5 DEF TypeInv, net, tables, receiving, session, sending, sendHist, authHist

\* The message being handled stays what it is as long as its goroutine stays there,
LEMMA MessageKept ==
  ASSUME MessageInv, UNCHANGED scenario,
         \A c \in Conns : job'[Recv(c)].at = "message" =>
           /\ job[Recv(c)].at = "message" /\ job'[Recv(c)].next = job[Recv(c)].next
           /\ reader'[c] = reader[c]
  PROVE  MessageInv'
BY DEF MessageInv, HandledPacket, Stream

\* ... as it does when another process takes a step.
LEMMA MessageElsewhere ==
  ASSUME TypeInv, MessageInv, UNCHANGED <<scenario, reader>>,
         NEW p, \A c \in Conns : p # Recv(c), NEW j, job' = [job EXCEPT ![p] = j]
  PROVE  MessageInv'
<1>1. \A c \in Conns : job'[Recv(c)] = job[Recv(c)]
  BY ProcsDiffer DEF TypeInv
<1> QED
  BY <1>1, MessageKept

\* A packet is parsed before its messages are handled, and handled to its end.
LEMMA ReadMessages ==
  ASSUME ConnectionAssumption, TypeInv, LabelInv, MessageInv, NEW c \in Conns,
         Read(c) \/ ReadEnds(c) \/ ReadPacket(c) \/ ReceiveMessage(c)
  PROVE  MessageInv'
<1> DEFINE p == Recv(c)
           n == PacketAt(Stream(c), reader[c])
<1>1. /\ p \in Procs /\ job[p] \in Jobs /\ UNCHANGED scenario
      /\ \A d \in Conns \ {c} : job'[Recv(d)] = job[Recv(d)] /\ reader'[d] = reader[d]
  <2>1. p \in Procs /\ job[p] \in Jobs /\ UNCHANGED scenario
    BY ProcsDiffer DEF TypeInv, Read, ReadEnds, ReadPacket, ReceiveMessage
  <2>2. \E j : job' = [job EXCEPT ![p] = j]
    BY DEF Read, ReadEnds, ReadPacket, ReceiveMessage
  <2>3. (\E r : reader' = [reader EXCEPT ![c] = r]) \/ UNCHANGED reader
    <3>1. CASE Read(c)
      BY <3>1 DEF Read
    <3>2. CASE ReadEnds(c)
      BY <3>2 DEF ReadEnds, receiving
    <3>3. CASE ReadPacket(c)
      BY <3>3 DEF ReadPacket
    <3>4. CASE ReceiveMessage(c)
      BY <3>4 DEF ReceiveMessage
    <3> QED
      BY <3>1, <3>2, <3>3, <3>4
  <2>4. \A d \in Conns \ {c} : job'[Recv(d)] = job[Recv(d)]
    BY <2>2, ProcsDiffer DEF TypeInv
  <2>5. \A d \in Conns \ {c} : reader'[d] = reader[d]
    BY <2>3 DEF TypeInv
  <2> QED
    BY <2>1, <2>4, <2>5
<1>2. job' \in [Procs -> Jobs] => job'[p] \in Jobs
  BY <1>1
<1>3. CASE job'[p].at # "message"
  BY <1>1, <1>3, MessageKept
<1>4. CASE job'[p].at = "message"
  <2>1. Goes(p, "read").at = "read" /\ Goes(p, "parse").at = "parse" /\ Goes(p, "done").at = "done"
        /\ CallsClose(job[p], c).at = job[p].at /\ CallsClose(Goes(p, "read"), c).at = "read"
    <3>1. /\ Goes(p, "read") \in Jobs /\ Goes(p, "read").at = "read"
          /\ Goes(p, "parse").at = "parse" /\ Goes(p, "done").at = "done"
      BY <1>1, GoesIsJob DEF Labels, RecvLabels
    <3> QED
      BY <1>1, <3>1, CallsCloseIsJob
  <2>2. ~Read(c)
    <3> SUFFICES ASSUME Read(c) PROVE FALSE
      OBVIOUS
    <3>1. \E l \in {"read", "parse"} : job'[p] = Goes(p, l)
      BY <1>1 DEF Read, TypeInv
    <3> QED
      BY <2>1, <3>1, <1>4
  <2>3. ~ReadEnds(c)
    <3> SUFFICES ASSUME ReadEnds(c) PROVE FALSE
      OBVIOUS
    <3>1. job[p].at = "read" /\ job'[p] \in {Goes(p, "done"), CallsClose(job[p], c)}
      BY <1>1 DEF ReadEnds, TypeInv, At
    <3> QED
      BY <2>1, <3>1, <1>4
  <2>4. n \in DOMAIN Stream(c) /\ job'[p].next \in DOMAIN Stream(c)[n].messages
          /\ reader'[c] = reader[c]
    <3>1. CASE ReadPacket(c)
      <4>1. job'[p] \notin {Goes(p, "read"), CallsClose(Goes(p, "read"), c)}
        BY <2>1, <1>4
      <4>2. /\ ReadSize(Stream(c), reader[c]) # 0 /\ Stream(c)[n].content = "ok"
            /\ job'[p] = [Goes(p, "message") EXCEPT !.next = 1] /\ reader' = reader
        <5>1. job \in [Procs -> Jobs] /\ p \in Procs
          BY <1>1 DEF TypeInv
        <5>2. \A j : job' = [job EXCEPT ![p] = j] => job'[p] = j
          BY <5>1
        <5>3. \/ job' = [job EXCEPT ![p] = Goes(p, "read")]
              \/ job' = [job EXCEPT ![p] = CallsClose(Goes(p, "read"), c)]
              \/ /\ ReadSize(Stream(c), reader[c]) # 0 /\ Stream(c)[n].content = "ok"
                 /\ job' = [job EXCEPT ![p] = [Goes(p, "message") EXCEPT !.next = 1]]
                 /\ reader' = reader
          BY <3>1 DEF ReadPacket
        <5> HIDE DEF n, p
        <5> QED
          BY <4>1, <5>2, <5>3
      <4>3. n # 0
        BY <4>2 DEF ReadSize
      <4>4. n \in DOMAIN Stream(c)
        BY <4>3 DEF PacketAt
      <4>5. Stream(c)[n].messages \in Seq(ClientMessage) /\ Stream(c)[n].messages # <<>>
        BY <4>2, <4>4, StreamTypes
      <4>6. job'[p].next = 1
        <5>1. Goes(p, "message") \in Jobs
          BY <1>1, GoesIsJob DEF Labels, RecvLabels
        <5> QED
          BY <4>2, <5>1 DEF Jobs
      <4> HIDE DEF n
      <4> QED
        BY <4>2, <4>4, <4>5, <4>6
    <3>2. CASE ReceiveMessage(c)
      <4> DEFINE ms == Stream(c)[n].messages
                 k == job[p].next
                 next == IF k < Len(ms) THEN [job[p] EXCEPT !.next = k + 1]
                         ELSE [Goes(p, "parse") EXCEPT !.next = 0]
      <4>1. n \in DOMAIN Stream(c) /\ k \in DOMAIN ms /\ ms \in Seq(ClientMessage)
        BY <3>2, StreamTypes DEF ReceiveMessage, MessageInv, HandledPacket, At
      <4>2. job'[p] \in {next, CallsClose(next, c)}
        <5>1. job \in [Procs -> Jobs] /\ p \in Procs
          BY <1>1 DEF TypeInv
        <5>2. \A j : job' = [job EXCEPT ![p] = j] => job'[p] = j
          BY <5>1
        <5>3. job' = [job EXCEPT ![p] = next] \/ job' = [job EXCEPT ![p] = CallsClose(next, c)]
          BY <3>2 DEF ReceiveMessage
        <5> HIDE DEF next, p
        <5> QED
          BY <5>2, <5>3
      <4>3. /\ [job[p] EXCEPT !.next = k + 1] \in Jobs
            /\ [job[p] EXCEPT !.next = k + 1].next = k + 1
            /\ [Goes(p, "parse") EXCEPT !.next = 0] \in Jobs
            /\ [Goes(p, "parse") EXCEPT !.next = 0].at = "parse"
        <5>1. k \in Nat
          BY <1>1 DEF Jobs
        <5>2. \A j \in Jobs, i \in Nat : /\ [j EXCEPT !.next = i] \in Jobs
                 /\ [j EXCEPT !.next = i].next = i /\ [j EXCEPT !.next = i].at = j.at
          BY DEF Jobs
        <5>3. Goes(p, "parse") \in Jobs /\ k + 1 \in Nat /\ 0 \in Nat
          BY <1>1, <5>1, GoesIsJob DEF Labels, RecvLabels
        <5>4. /\ [job[p] EXCEPT !.next = k + 1] \in Jobs
              /\ [job[p] EXCEPT !.next = k + 1].next = k + 1
          <6> HIDE DEF k
          <6> QED
            BY <1>1, <5>2, <5>3
        <5>5. /\ [Goes(p, "parse") EXCEPT !.next = 0] \in Jobs
              /\ [Goes(p, "parse") EXCEPT !.next = 0].at = "parse"
          <6> DEFINE g == Goes(p, "parse")
          <6>1. g \in Jobs /\ g.at = "parse"
            BY <2>1, <5>3
          <6> HIDE DEF g
          <6>2. [g EXCEPT !.next = 0] \in Jobs /\ [g EXCEPT !.next = 0].at = "parse"
            BY <5>2, <6>1
          <6> QED
            BY <6>2 DEF g
        <5> HIDE DEF k
        <5> QED
          BY <5>4, <5>5
      <4>4. next \in Jobs
        BY <4>3
      <4> HIDE DEF ms, k
      <4>5. k < Len(ms)
        <5> SUFFICES ASSUME ~(k < Len(ms)) PROVE FALSE
          OBVIOUS
        <5>1. next.at = "parse"
          BY <4>3
        <5> HIDE DEF next
        <5> QED
          BY <5>1, <4>2, <4>4, <1>4, CallsCloseIsJob
      <4>6. next.next = k + 1
        BY <4>3, <4>5
      <4> HIDE DEF next
      <4>7. job'[p].next = k + 1
        BY <4>2, <4>4, <4>6, CallsCloseIsJob
      <4>8. reader' = reader
        BY <3>2, <4>5 DEF ReceiveMessage, ms, k
      <4> QED
        BY <4>1, <4>5, <4>7, <4>8 DEF ms
    <3> QED
      BY <2>2, <2>3, <3>1, <3>2
  <2> HIDE DEF n
  <2>5. ASSUME NEW d \in Conns, job'[Recv(d)].at = "message"
        PROVE  /\ PacketAt(Stream(d)', reader'[d]) \in DOMAIN Stream(d)'
               /\ job'[Recv(d)].next \in DOMAIN Stream(d)'[PacketAt(Stream(d)',
                     reader'[d])].messages
    <3>0. Stream(d)' = Stream(d)
      BY <1>1 DEF Stream
    <3>1. CASE d = c
      BY <2>4, <3>0, <3>1 DEF n
    <3>2. CASE d # c
      BY <1>1, <2>5, <3>0, <3>2 DEF MessageInv, HandledPacket
    <3> QED
      BY <3>1, <3>2
  <2> QED
    BY <2>5 DEF MessageInv, HandledPacket
<1> QED
  BY <1>3, <1>4

-----------------------------------------------------------------------------
(* The invariant all theorems rest on.                                     *)

\* It is inductive, as CoreInit and CoreStep say.
CoreInv == TypeInv /\ LabelInv /\ MessageInv

\* CoreInv holds at the start,
LEMMA CoreInit == ASSUME ConnectionAssumption, SendQueueAssumption, FramingAssumption, Init
  PROVE CoreInv
<1>1. Owner \in Conns /\ Idle \in Jobs /\ [Idle EXCEPT !.at = "read"] \in Jobs
  <2>1. Idle \in Jobs
    BY IdleIsJob
  <2> QED
    BY <2>1 DEF Jobs, Conns, Labels, RecvLabels
<1>2. NewQueue \in Queues
  BY DEF NewQueue, Queues
<1>3. job \in [Procs -> Jobs]
  BY <1>1 DEF Init
<1>4. \A p \in Procs : job[p].at \in {"idle", "read"} /\ job[p].close = "no"
        /\ (p # Recv(Owner) => job[p].at = "idle")
  BY DEF Init, Idle
<1>5. LabelInv
  <2> SUFFICES ASSUME NEW p \in Procs PROVE JobOK(p, job[p], auths)
    BY DEF LabelInv
  <2>1. /\ \A k \in 1 .. MaxAuths : p = AuthGo(k) => p # Recv(Owner)
        /\ p = Global => p # Recv(Owner)
        /\ p = Checker => p # Recv(Owner)
    BY <1>1, ProcsDiffer
  <2> QED
    BY <1>4, <2>1 DEF JobOK, RecvLabels, AuthLabels
<1>6. MessageInv
  BY <1>4, ProcsDiffer DEF MessageInv
<1>7. TypeInv
  <2>1. /\ scenario \in Scenarios
        /\ state \in [Conns -> {"NONE", "UNAUTHENTICATED", "AUTHENTICATED", "CLOSING"}]
        /\ netClosed \in [Conns -> BOOLEAN] /\ compression \in [Conns -> BOOLEAN]
        /\ allConnections \subseteq Conns /\ unauthenticated \subseteq Conns
        /\ reader = [c \in Conns |-> reader[c]] /\ fsm \in [Conns -> Nat]
    BY <1>1 DEF Init
  <2>2. sendq \in [Conns -> Queues]
    BY <1>2 DEF Init
  <2>3. /\ writing \in [Conns -> Seq(SentMessage)]
        /\ accepted \in [Conns -> Nat] /\ written \in [Conns -> Seq(Nat)]
        /\ globalQueue \in Seq(Queued)
    BY DEF Init
  <2>4. /\ failedAuths \in [Keys -> Nat] /\ attempts \in [Keys -> Nat]
        /\ auths \in 0 .. MaxAuths
    BY DEF Init, Keys, ConnectionAssumption
  <2> QED
    BY <1>3, <2>1, <2>2, <2>3, <2>4 DEF TypeInv
<1> QED
  BY <1>5, <1>6, <1>7 DEF CoreInv

\* Close and Send leave the label and the reader of their process alone.
LEMMA CallMessages ==
  ASSUME TypeInv, MessageInv, NEW p \in Procs, StoreClosing(p) \/ FinishClose(p) \/ PutSend(p)
  PROVE  MessageInv'
<1>1. UNCHANGED <<scenario, reader>>
  BY DEF StoreClosing, FinishClose, PutSend, receiving
<1>2. \A q \in Procs : job'[q].at = job[q].at /\ job'[q].next = job[q].next
  <2>1. \E x : job' = [job EXCEPT ![p].close = x] \/ job' = [job EXCEPT ![p].sendTo = x]
    BY DEF StoreClosing, FinishClose, PutSend
  <2>2. PICK x : job' = [job EXCEPT ![p].close = x] \/ job' = [job EXCEPT ![p].sendTo = x]
    BY <2>1
  <2>3. \A q \in Procs : job[q] \in Jobs
    BY DEF TypeInv
  <2>4. /\ job'[p] = [job[p] EXCEPT !.close = x] \/ job'[p] = [job[p] EXCEPT !.sendTo = x]
        /\ \A q \in Procs \ {p} : job'[q] = job[q]
    BY <2>2 DEF TypeInv
  <2>5. job'[p].at = job[p].at /\ job'[p].next = job[p].next
    BY <2>3, <2>4 DEF Jobs
  <2> QED
    BY <2>4, <2>5
<1> QED
  BY <1>1, <1>2, MessageKept, ProcsDiffer

\* ... and every step keeps it.
LEMMA CoreStep ==
  ASSUME ConnectionAssumption, CoreInv, [Next]_vars
  PROVE  CoreInv'
<1> USE DEF CoreInv
<1>1. ASSUME NEW c \in Conns, Accept(c) \/ HangUp(c) \/ Expire(c) PROVE CoreInv'
  <2>1. TypeInv' /\ LabelInv'
    BY <1>1, NetworkTypes
  <2>2. UNCHANGED <<scenario, reader>>
    BY <1>1 DEF Accept, HangUp, Expire, receiving
  <2>3. \A d \in Conns : job'[Recv(d)].at = "message" => UNCHANGED job[Recv(d)]
    <3>1. CASE Accept(c)
      <4>1. job' = [job EXCEPT ![Recv(c)].at = "read"] /\ \A d \in Conns : job[Recv(d)] \in Jobs
        BY <3>1, ProcsDiffer DEF Accept, TypeInv
      <4>2. job'[Recv(c)].at = "read" /\ \A d \in Conns \ {c} : job'[Recv(d)] = job[Recv(d)]
        BY <4>1, ProcsDiffer DEF TypeInv, Jobs
      <4> QED
        BY <4>2
    <3>2. CASE HangUp(c) \/ Expire(c)
      BY <3>2 DEF HangUp, Expire
    <3> QED
      BY <1>1, <3>1, <3>2
  <2> QED
    BY <2>1, <2>2, <2>3, MessageKept
<1>2. ASSUME NEW p \in Procs, StoreClosing(p) \/ FinishClose(p) \/ PutSend(p) PROVE CoreInv'
  BY <1>2, CloseTypes, SendTypes, CallMessages
<1>3. ASSUME NEW c \in Conns, Collect(c) \/ Write(c) PROVE CoreInv'
  <2>1. UNCHANGED <<scenario, reader, job>>
    BY <1>3 DEF Collect, Write, receiving
  <2> QED
    BY <1>3, <2>1, FlushTypes, MessageKept
<1>4. ASSUME NEW c \in Conns, Read(c) \/ ReadEnds(c) \/ ReadPacket(c) \/ ReceiveMessage(c)
      PROVE  CoreInv'
  BY <1>4, ReadTypes, ReceiveTypes, ReadMessages
<1>5. ASSUME HandleMessage PROVE CoreInv'
  <2>1. UNCHANGED <<scenario, reader>>
    BY <1>5 DEF HandleMessage, receiving
  <2>2. UNCHANGED job \/ (\E j : job' = [job EXCEPT ![Global] = j])
        \/ (\E j : job' = [job EXCEPT ![AuthGo(auths + 1)] = j] /\ auths + 1 \in 1 .. MaxAuths)
    <3>1. CASE \E c, m : HandleUser(c, m)
      BY <3>1 DEF HandleUser
    <3>2. CASE \E c, m : HandleDisconnect(c, m)
      BY <3>2 DEF HandleDisconnect
    <3>3. CASE \E c, m : HandleAuth(c, m)
      <4>1. PICK c, m : HandleAuth(c, m)
        BY <3>3
      <4>2. auths < MaxAuths => auths + 1 \in 1 .. MaxAuths
        BY DEF TypeInv, ConnectionAssumption
      <4> QED
        BY <4>1, <4>2 DEF HandleAuth
    <3> QED
      BY <1>5, <3>1, <3>2, <3>3 DEF HandleMessage
  <2>3. MessageInv'
    <3>1. CASE UNCHANGED job
      BY <2>1, <3>1, MessageKept
    <3>2. CASE \E j : job' = [job EXCEPT ![Global] = j]
      BY <2>1, <3>2, MessageElsewhere, ProcsDiffer
    <3>3. CASE \E j : job' = [job EXCEPT ![AuthGo(auths + 1)] = j] /\ auths + 1 \in 1 .. MaxAuths
      BY <2>1, <3>3, MessageElsewhere, ProcsDiffer
    <3> QED
      BY <2>2, <3>1, <3>2, <3>3
  <2> QED
    BY <1>5, <2>3, HandleTypes
<1>6. ASSUME NEW k \in 1 .. MaxAuths,
             \/ DoAuth(k) \/ Authenticate(k) \/ OnAuthenticated(k) \/ Reply(k) \/ ReadCounter(k)
             \/ WriteCounter(k)
      PROVE  CoreInv'
  <2>1. UNCHANGED <<scenario, reader>> /\ \E j : job' = [job EXCEPT ![AuthGo(k)] = j]
    BY <1>6 DEF DoAuth, Authenticate, OnAuthenticated, Reply, ReadCounter, WriteCounter, receiving
  <2>2. MessageInv'
    BY <2>1, MessageElsewhere, ProcsDiffer
  <2> QED
    BY <1>6, <2>2, AuthTypes
<1>7. ASSUME BanUnauth \/ \E c \in Conns : CheckUnauth(c) PROVE CoreInv'
  <2>1. UNCHANGED <<scenario, reader>> /\ \E j : job' = [job EXCEPT ![Checker] = j]
    BY <1>7 DEF BanUnauth, CheckUnauth, receiving
  <2>2. MessageInv'
    BY <2>1, MessageElsewhere, ProcsDiffer
  <2> QED
    BY <1>7, <2>2, CheckerTypes
<1>8. CASE UNCHANGED vars
  BY <1>8 DEF vars, tables, net, receiving, session, sending, bans, sendHist, authHist, TypeInv,
    LabelInv, MessageInv, HandledPacket, Stream
<1> QED
  BY <1>1, <1>2, <1>3, <1>4, <1>5, <1>6, <1>7, <1>8 DEF Next

-----------------------------------------------------------------------------
(* The tables.                                                             *)

\* A connection that has not been accepted is not known to anybody, so that Accept
\* cannot bring a closed one back.
Unknown(c) ==
  /\ c \notin allConnections \cup unauthenticated
  /\ ~sendq[c].closed /\ job[Recv(c)].at = "idle"
  /\ \A p \in Procs : job[p].conn # c
  /\ \A n \in DOMAIN globalQueue : globalQueue[n].conn # c
AcceptedInv == \A c \in Conns : state[c] = "NONE" => Unknown(c)
ClosedInv == \A c \in Conns : sendq[c].closed => c \notin allConnections \cup unauthenticated

\* Close and Send change nothing else of the job of their process.
LEMMA CallStep ==
  ASSUME TypeInv, NEW p \in Procs, StoreClosing(p) \/ FinishClose(p) \/ PutSend(p)
  PROVE  \A q \in Procs : /\ job'[q].at = job[q].at /\ job'[q].conn = job[q].conn
                          /\ job'[q].msg = job[q].msg /\ job'[q].next = job[q].next
<1>1. \E x : job' = [job EXCEPT ![p].close = x] \/ job' = [job EXCEPT ![p].sendTo = x]
  BY DEF StoreClosing, FinishClose, PutSend
<1>2. PICK x : job' = [job EXCEPT ![p].close = x] \/ job' = [job EXCEPT ![p].sendTo = x]
  BY <1>1
<1>3. /\ job'[p] = [job[p] EXCEPT !.close = x] \/ job'[p] = [job[p] EXCEPT !.sendTo = x]
      /\ \A q \in Procs \ {p} : job'[q] = job[q]
  BY <1>2 DEF TypeInv
<1>4. job[p] \in Jobs
  BY DEF TypeInv
<1>5. /\ job'[p].at = job[p].at /\ job'[p].conn = job[p].conn
      /\ job'[p].msg = job[p].msg /\ job'[p].next = job[p].next
  BY <1>3, <1>4 DEF Jobs
<1> QED
  BY <1>3, <1>5

\* The receive goroutine of c changes its own job and may add a message of c, which the
\* FSM allows, to the queue of the GLOBAL channel.
LEMMA ReceiverStep ==
  ASSUME CoreInv, NEW c \in Conns,
         Read(c) \/ ReadEnds(c) \/ ReadPacket(c) \/ ReceiveMessage(c)
  PROVE  /\ job[Recv(c)].at # "idle"
         /\ \A q \in Procs \ {Recv(c)} : job'[q] = job[q]
         /\ job'[Recv(c)].conn \in {job[Recv(c)].conn, c}
         /\ UNCHANGED globalQueue
            \/ \E m : IsAllowed(c, m) /\ globalQueue' = Append(globalQueue, [conn |-> c, msg |-> m])
<1> DEFINE p == Recv(c)
<1>1. p \in Procs /\ job[p] \in Jobs /\ \E j : job' = [job EXCEPT ![p] = j]
  BY ProcsDiffer DEF CoreInv, TypeInv, Read, ReadEnds, ReadPacket, ReceiveMessage
<1>2. job[p].at # "idle" /\ \A q \in Procs \ {p} : job'[q] = job[q]
  BY <1>1 DEF CoreInv, TypeInv, Read, ReadEnds, ReadPacket, ReceiveMessage, At
<1>3. \A j \in Jobs : CallsClose(j, c) \in Jobs /\ CallsClose(j, c).conn \in {j.conn, c}
  BY CallsCloseIsJob
<1>4. \A l \in {"read", "parse", "message", "done"} :
        Goes(p, l) \in Jobs /\ Goes(p, l).conn = job[p].conn
  BY <1>1, GoesIsJob DEF Labels, RecvLabels, CoreInv
<1>5. \A j \in Jobs, n \in Nat :
        [j EXCEPT !.next = n] \in Jobs /\ [j EXCEPT !.next = n].conn = j.conn
  BY DEF Jobs
<1>6. job'[p].conn \in {job[p].conn, c}
  <2>1. CASE Read(c)
    <3>1. job'[p] \in {Goes(p, "read"), Goes(p, "parse")}
      BY <1>1, <2>1 DEF Read, CoreInv, TypeInv
    <3> QED
      BY <3>1, <1>4
  <2>2. CASE ReadEnds(c)
    <3>1. job'[p] \in {Goes(p, "done"), CallsClose(job[p], c)}
      BY <1>1, <2>2 DEF ReadEnds, CoreInv, TypeInv
    <3> QED
      BY <3>1, <1>1, <1>3, <1>4
  <2>3. CASE ReadPacket(c)
    <3>1. job'[p] \in {Goes(p, "read"), CallsClose(Goes(p, "read"), c),
                       [Goes(p, "message") EXCEPT !.next = 1]}
      BY <1>1, <2>3 DEF ReadPacket, CoreInv, TypeInv
    <3>2. [Goes(p, "message") EXCEPT !.next = 1].conn = job[p].conn
      BY <1>4, <1>5
    <3> QED
      BY <3>1, <3>2, <1>3, <1>4
  <2>4. CASE ReceiveMessage(c)
    <3> DEFINE k == job[p].next
               ms == Stream(c)[PacketAt(Stream(c), reader[c])].messages
               next == IF k < Len(ms) THEN [job[p] EXCEPT !.next = k + 1]
                       ELSE [Goes(p, "parse") EXCEPT !.next = 0]
    <3>1. job'[p] \in {next, CallsClose(next, c)}
      BY <1>1, <2>4 DEF ReceiveMessage, CoreInv, TypeInv
    <3>2. k + 1 \in Nat
      BY <1>1 DEF Jobs
    <3>3. [job[p] EXCEPT !.next = k + 1] \in Jobs
            /\ [job[p] EXCEPT !.next = k + 1].conn = job[p].conn
      <4> HIDE DEF k
      <4> QED
        BY <1>1, <1>5, <3>2
    <3>4. [Goes(p, "parse") EXCEPT !.next = 0] \in Jobs
            /\ [Goes(p, "parse") EXCEPT !.next = 0].conn = job[p].conn
      BY <1>4, <1>5
    <3>5. next \in Jobs /\ next.conn = job[p].conn
      <4> HIDE DEF k, ms
      <4> QED
        BY <3>3, <3>4
    <3> HIDE DEF next
    <3> QED
      BY <3>1, <3>5, <1>3
  <2> QED
    BY <2>1, <2>2, <2>3, <2>4
<1>7. CASE Read(c)
  BY <1>2, <1>6, <1>7 DEF Read
<1>8. CASE ReadEnds(c)
  BY <1>2, <1>6, <1>8 DEF ReadEnds
<1>9. CASE ReadPacket(c)
  BY <1>2, <1>6, <1>9 DEF ReadPacket
<1>10. CASE ReceiveMessage(c)
  <2>1. UNCHANGED globalQueue
        \/ \E m : IsAllowed(c, m) /\ globalQueue' = Append(globalQueue, [conn |-> c, msg |-> m])
    BY <1>10 DEF ReceiveMessage
  <2> QED
    BY <1>2, <1>6, <2>1
<1> QED
  BY <1>7, <1>8, <1>9, <1>10

\* The goroutine of an authentication changes its own job, whose connection it keeps.
LEMMA AuthStep ==
  ASSUME CoreInv, NEW k \in 1 .. MaxAuths,
         \/ DoAuth(k) \/ Authenticate(k) \/ OnAuthenticated(k) \/ Reply(k) \/ ReadCounter(k)
         \/ WriteCounter(k)
  PROVE  /\ AuthGo(k) \in Procs /\ job[AuthGo(k)].conn \in Conns
         /\ job[AuthGo(k)].msg \in ClientMessage /\ job[AuthGo(k)].next \in Nat
         /\ \A q \in Procs \ {AuthGo(k)} : job'[q] = job[q]
         /\ job'[AuthGo(k)].conn = job[AuthGo(k)].conn
<1> DEFINE p == AuthGo(k)
           c == job[p].conn
<1>1. /\ p \in Procs /\ job[p] \in Jobs /\ c \in Conns /\ \E j : job' = [job EXCEPT ![p] = j]
      /\ job[p].at # "idle"
  BY ProcsDiffer
  DEF CoreInv, TypeInv, LabelInv, JobOK, At, DoAuth, Authenticate, OnAuthenticated, Reply,
    ReadCounter, WriteCounter
<1>2. job[p].msg \in ClientMessage /\ job[p].next \in Nat /\ \A q \in Procs \ {p} : job'[q] = job[q]
  BY <1>1 DEF CoreInv, TypeInv, Jobs
<1>3. \A l \in AuthLabels : Goes(p, l) \in Jobs /\ Goes(p, l).conn = c
  BY <1>1, GoesIsJob DEF Labels, CoreInv
<1>4. \A j \in Jobs : j.conn = c => CallsClose(j, c).conn = c
  BY <1>1, CallsCloseIsJob
<1>5. \A j \in Jobs : \A d, n : CallsSend(j, d, n).conn = j.conn
  BY DEF CallsSend, Jobs
<1>7. job'[p].conn = c
  <2>1. CASE DoAuth(k)
    <3>1. job'[p] \in {CallsClose(Goes(p, "done"), c), Goes(p, "done"), Goes(p, "authenticate"),
            Goes(p, "reply")}
      BY <1>1, <2>1 DEF DoAuth, CoreInv, TypeInv
    <3> HIDE DEF c
    <3> QED
      BY <3>1, <1>3, <1>4 DEF AuthLabels
  <2>2. CASE Authenticate(k)
    <3>1. job'[p] \in {Goes(p, "store"), Goes(p, "reply")}
      BY <1>1, <2>2 DEF Authenticate, CoreInv, TypeInv
    <3> QED
      BY <3>1, <1>3 DEF AuthLabels
  <2>3. CASE OnAuthenticated(k)
    <3>1. job'[p] = Goes(p, "reply")
      BY <1>1, <2>3 DEF OnAuthenticated, CoreInv, TypeInv
    <3> QED
      BY <3>1, <1>3 DEF AuthLabels
  <2>4. CASE Reply(k)
    <3>1. job'[p] \in {CallsSend(Goes(p, "tell"), c, ResultSize), Goes(p, "event"),
                       CallsSend(Goes(p, "event"), Owner, ResultSize)}
      BY <1>1, <2>4 DEF Reply, CoreInv, TypeInv
    <3> QED
      BY <3>1, <1>3, <1>5 DEF AuthLabels
  <2>5. CASE ReadCounter(k)
    <3>1. job'[p] \in {[Goes(p, "count") EXCEPT !.next = failedAuths[Key(p)]], Goes(p, "done")}
      BY <1>1, <2>5 DEF ReadCounter, CoreInv, TypeInv
    <3> DEFINE g == Goes(p, "count")
               n == failedAuths[Key(p)]
    <3>2. g \in Jobs /\ g.conn = c /\ Goes(p, "done").conn = c
      BY <1>3 DEF AuthLabels
    <3>3. [g EXCEPT !.next = n].conn = c
      <4> HIDE DEF g, n
      <4> QED
        BY <3>2 DEF Jobs
    <3> QED
      BY <3>1, <3>2, <3>3
  <2>6. CASE WriteCounter(k)
    <3>1. job'[p] \in {CallsClose(Goes(p, "done"), c), Goes(p, "done")}
      BY <1>1, <2>6 DEF WriteCounter, CoreInv, TypeInv
    <3> QED
      BY <3>1, <1>3, <1>4 DEF AuthLabels
  <2> QED
    BY <2>1, <2>2, <2>3, <2>4, <2>5, <2>6
<1> QED
  BY <1>1, <1>2, <1>7

\* A connection becomes known only by being accepted.
LEMMA UnknownStep ==
  ASSUME ConnectionAssumption, CoreInv, AcceptedInv, Next, NEW c \in Conns, state'[c] = "NONE"
  PROVE  state[c] = "NONE" /\ Unknown(c)'
<1> USE DEF CoreInv
<1>1. ASSUME state[c] # "NONE" PROVE FALSE
  <2>1. UNCHANGED state \/ \E d \in Conns, s \in {"UNAUTHENTICATED", "CLOSING", "AUTHENTICATED"} :
          state' = [state EXCEPT ![d] = s]
    <3>1. ASSUME NEW d \in Conns, Accept(d) PROVE state' = [state EXCEPT ![d] = "UNAUTHENTICATED"]
      BY <3>1 DEF Accept
    <3>2. ASSUME NEW p \in Procs, StoreClosing(p)
          PROVE  job[p].conn \in Conns /\ state' = [state EXCEPT ![job[p].conn] = "CLOSING"]
      BY <3>2 DEF StoreClosing, LabelInv, JobOK
    <3>3. ASSUME NEW k \in 1 .. MaxAuths, OnAuthenticated(k)
          PROVE  /\ job[AuthGo(k)].conn \in Conns
                 /\ state' = [state EXCEPT ![job[AuthGo(k)].conn] = "AUTHENTICATED"]
      BY <3>3, ProcsDiffer DEF OnAuthenticated, LabelInv, JobOK, At
    <3>4. ASSUME NEW d \in Conns,
                 \/ HangUp(d) \/ Expire(d) \/ Collect(d) \/ Write(d) \/ Read(d) \/ ReadEnds(d)
                 \/ ReadPacket(d) \/ ReceiveMessage(d) \/ CheckUnauth(d)
          PROVE  UNCHANGED state
      BY <3>4
      DEF HangUp, Expire, Collect, Write, Read, ReadEnds, ReadPacket, ReceiveMessage, CheckUnauth
    <3>5. ASSUME NEW p \in Procs, FinishClose(p) \/ PutSend(p) PROVE UNCHANGED state
      BY <3>5 DEF FinishClose, PutSend
    <3>6. ASSUME NEW k \in 1 .. MaxAuths,
                 DoAuth(k) \/ Authenticate(k) \/ Reply(k) \/ ReadCounter(k) \/ WriteCounter(k)
          PROVE  UNCHANGED state
      BY <3>6 DEF DoAuth, Authenticate, Reply, ReadCounter, WriteCounter
    <3>7. ASSUME HandleMessage \/ BanUnauth PROVE UNCHANGED state
      BY <3>7 DEF HandleMessage, BanUnauth
    <3> QED
      BY <3>1, <3>2, <3>3, <3>4, <3>5, <3>6, <3>7 DEF Next
  <2> QED
    BY <1>1, <2>1 DEF TypeInv
<1>2. state[c] = "NONE" /\ Unknown(c) /\ Recv(c) \in Procs /\ job[Recv(c)].at = "idle"
  BY <1>1, ProcsDiffer DEF AcceptedInv, Unknown
<1>3. ASSUME NEW d \in Conns, Accept(d) PROVE Unknown(c)'
  <2>1. d # c
    BY <1>3 DEF Accept, TypeInv
  <2>2. job' = [job EXCEPT ![Recv(d)].at = "read"] /\ job[Recv(d)] \in Jobs /\ Recv(d) \in Procs
          /\ Recv(d) # Recv(c)
    BY <1>3, <2>1, ProcsDiffer DEF Accept, TypeInv
  <2>3. /\ \A q \in Procs \ {Recv(d)} : job'[q] = job[q]
        /\ job'[Recv(d)].conn = job[Recv(d)].conn
    BY <2>2 DEF TypeInv, Jobs
  <2>4. job'[Recv(c)].at = "idle" /\ \A q \in Procs : job'[q].conn # c
    BY <1>2, <2>2, <2>3 DEF Unknown
  <2> QED
    BY <1>2, <1>3, <2>1, <2>4 DEF Accept, Unknown, sending
<1>4. ASSUME NEW d \in Conns, HangUp(d) \/ Expire(d) PROVE Unknown(c)'
  BY <1>2, <1>4 DEF HangUp, Expire, Unknown, tables, sending
<1>5. ASSUME NEW p \in Procs, StoreClosing(p) \/ FinishClose(p) \/ PutSend(p) PROVE Unknown(c)'
  <2>1. \A q \in Procs : job'[q].at = job[q].at /\ job'[q].conn = job[q].conn
    BY <1>5, CallStep
  <2>5. job'[Recv(c)].at = "idle" /\ \A q \in Procs : job'[q].conn # c
    BY <1>2, <2>1 DEF Unknown
  <2>6. CASE StoreClosing(p)
    BY <1>2, <2>5, <2>6 DEF StoreClosing, Unknown, tables, sending
  <2>7. CASE FinishClose(p)
    <3>1. UNCHANGED sendq \/ sendq' = [sendq EXCEPT ![job[p].conn].closed = TRUE]
      BY <2>7 DEF FinishClose
    <3>2. job[p].conn # c
      BY <1>2 DEF Unknown
    <3>3. sendq'[c] = sendq[c]
      BY <3>1, <3>2 DEF TypeInv
    <3>4. allConnections' \subseteq allConnections /\ unauthenticated' \subseteq unauthenticated
      BY <2>7 DEF FinishClose, tables
    <3> QED
      BY <1>2, <2>5, <2>7, <3>3, <3>4 DEF FinishClose, Unknown
  <2>8. CASE PutSend(p)
    <3> DEFINE m == [id |-> accepted[job[p].sendTo] + 1, size |-> job[p].size]
    <3>1. UNCHANGED sendq \/ sendq' = [sendq EXCEPT ![job[p].sendTo] = Enqueued(@, m)]
      BY <2>8 DEF PutSend
    <3> HIDE DEF m
    <3>2. sendq \in [Conns -> Queues]
      BY DEF TypeInv
    <3>3. \A q \in Queues : Enqueued(q, m).closed = q.closed
      BY DEF Queues, Enqueued
    <3>4. sendq'[c] \in {sendq[c], Enqueued(sendq[c], m)}
      BY <3>1, <3>2
    <3>5. sendq'[c].closed = sendq[c].closed
      BY <3>2, <3>3, <3>4
    <3> QED
      BY <1>2, <2>5, <2>8, <3>5 DEF PutSend, Unknown, tables
  <2> QED
    BY <1>5, <2>6, <2>7, <2>8
<1>6. ASSUME NEW d \in Conns, Collect(d) \/ Write(d) PROVE Unknown(c)'
  <2>1. sendq'[c].closed = sendq[c].closed
    <3>1. CASE Collect(d)
      <4>1. sendq' = [sendq EXCEPT ![d] = Flushed(sendq[d])] /\ sendq \in [Conns -> Queues]
        BY <3>1 DEF Collect, TypeInv
      <4>2. Flushed(sendq[d]).closed = sendq[d].closed
        BY <4>1, FlushedType
      <4> QED
        BY <4>1, <4>2
    <3>2. CASE Write(d)
      BY <3>2 DEF Write
    <3> QED
      BY <1>6, <3>1, <3>2
  <2> QED
    BY <1>2, <1>6, <2>1 DEF Collect, Write, Unknown, tables
<1>7. ASSUME NEW d \in Conns, Read(d) \/ ReadEnds(d) \/ ReadPacket(d) \/ ReceiveMessage(d)
      PROVE  Unknown(c)'
  <2>1. /\ job[Recv(d)].at # "idle" /\ Recv(d) \in Procs
        /\ \A q \in Procs \ {Recv(d)} : job'[q] = job[q]
        /\ job'[Recv(d)].conn \in {job[Recv(d)].conn, d}
        /\ UNCHANGED globalQueue
           \/ \E m : globalQueue' = Append(globalQueue, [conn |-> d, msg |-> m])
    BY <1>7, ReceiverStep, ProcsDiffer
  <2>2. d # c /\ Recv(d) # Recv(c) /\ job[Recv(d)].conn # c
    BY <1>2, <2>1, ProcsDiffer DEF Unknown
  <2>3. job'[Recv(c)].at = "idle" /\ \A q \in Procs : job'[q].conn # c
    BY <1>2, <2>1, <2>2 DEF Unknown
  <2>4. UNCHANGED <<allConnections, unauthenticated, sendq>>
    BY <1>7 DEF Read, ReadEnds, ReadPacket, ReceiveMessage, sending, tables
  <2>5. \A n \in DOMAIN globalQueue' : globalQueue'[n].conn # c
    <3>1. CASE UNCHANGED globalQueue
      BY <1>2, <3>1 DEF Unknown
    <3>2. ASSUME NEW m, globalQueue' = Append(globalQueue, [conn |-> d, msg |-> m])
          PROVE  \A n \in DOMAIN globalQueue' : globalQueue'[n].conn # c
      <4>1. globalQueue \in Seq(Queued)
        BY DEF TypeInv
      <4>2. \A n \in DOMAIN globalQueue' : globalQueue'[n] = [conn |-> d, msg |-> m]
               \/ (n \in DOMAIN globalQueue /\ globalQueue'[n] = globalQueue[n])
        BY <3>2, <4>1
      <4> QED
        BY <1>2, <2>2, <4>2 DEF Unknown
    <3> QED
      BY <2>1, <3>1, <3>2
  <2> QED
    BY <1>2, <2>3, <2>4, <2>5 DEF Unknown
<1>8. ASSUME NEW k \in 1 .. MaxAuths,
             \/ DoAuth(k) \/ Authenticate(k) \/ OnAuthenticated(k) \/ Reply(k) \/ ReadCounter(k)
             \/ WriteCounter(k)
      PROVE  Unknown(c)'
  <2>1. /\ AuthGo(k) \in Procs /\ job'[AuthGo(k)].conn = job[AuthGo(k)].conn
        /\ \A q \in Procs \ {AuthGo(k)} : job'[q] = job[q]
    BY <1>8, AuthStep
  <2>2. job'[Recv(c)].at = "idle" /\ \A q \in Procs : job'[q].conn # c
    BY <1>2, <2>1, ProcsDiffer DEF Unknown
  <2>3. UNCHANGED <<allConnections, sendq, globalQueue>>
          /\ unauthenticated' \subseteq unauthenticated
    BY <1>8
    DEF DoAuth, Authenticate, OnAuthenticated, Reply, ReadCounter, WriteCounter, tables, sending
  <2> QED
    BY <1>2, <2>2, <2>3 DEF Unknown
<1>9. ASSUME HandleMessage PROVE Unknown(c)'
  <2> DEFINE e == Head(globalQueue)
  <2>1. /\ globalQueue # <<>> /\ globalQueue' = Tail(globalQueue) /\ globalQueue \in Seq(Queued)
        /\ UNCHANGED <<allConnections, unauthenticated, sendq>>
    BY <1>9 DEF HandleMessage, TypeInv, tables, sending
  <2>2. e.conn \in Conns /\ e.conn # c /\ e.msg \in ClientMessage
    <3>1. 1 \in DOMAIN globalQueue /\ e = globalQueue[1] /\ globalQueue[1] \in Queued
      BY <2>1
    <3>2. globalQueue[1].conn # c
      BY <1>2, <3>1 DEF Unknown
    <3> QED
      BY <3>1, <3>2 DEF Queued
  <2>3. \A n \in DOMAIN globalQueue' : globalQueue'[n].conn # c
    <3>1. \A n \in DOMAIN globalQueue' : n + 1 \in DOMAIN globalQueue
            /\ globalQueue'[n] = globalQueue[n + 1]
      BY <2>1
    <3> QED
      BY <1>2, <3>1 DEF Unknown
  <2>4. Idle \in Jobs /\ Idle.conn # c /\ Nobody \notin Conns
    BY IdleIsJob DEF Idle, ConnectionAssumption
  <2>5. \A j \in Jobs : \A d, n : CallsSend(j, d, n).conn = j.conn
    BY DEF CallsSend, Jobs
  <2>6. \A d \in Conns : CallsClose(Idle, d).conn \in {Idle.conn, d}
    BY <2>4, CallsCloseIsJob
  <2>7. UNCHANGED job \/ \E p \in Procs : \E j : job' = [job EXCEPT ![p] = j] /\ j.conn # c
          /\ p # Recv(c)
    <3> HIDE DEF e
    <3>1. CASE HandleUser(e.conn, e.msg)
      <4>1. \E d, n : \/ job' = [job EXCEPT ![Global] = CallsSend(Idle, d, n)]
                      \/ job' = [job EXCEPT ![Global] = Idle]
        BY <3>1 DEF HandleUser
      <4>2. PICK d, n : \/ job' = [job EXCEPT ![Global] = CallsSend(Idle, d, n)]
                         \/ job' = [job EXCEPT ![Global] = Idle]
        BY <4>1
      <4>3. CallsSend(Idle, d, n).conn # c /\ Global \in Procs /\ Global # Recv(c)
        BY <2>4, <2>5, ProcsDiffer
      <4> QED
        BY <4>2, <4>3, <2>4
    <3>2. CASE HandleDisconnect(e.conn, e.msg)
      <4>1. CASE e.msg.to # Nobody /\ Found(e.msg.to)
        <5>1. e.msg.to \in Conns /\ e.msg.to # c
          BY <1>2, <2>2, <4>1 DEF ClientMessage, Found, Unknown
        <5>2. job' = [job EXCEPT ![Global] = CallsClose(Idle, e.msg.to)]
          BY <3>2, <4>1 DEF HandleDisconnect
        <5>3. CallsClose(Idle, e.msg.to).conn # c
          BY <2>4, <2>6, <5>1
        <5> QED
          BY <5>2, <5>3, ProcsDiffer
      <4>2. CASE ~(e.msg.to # Nobody /\ Found(e.msg.to))
        BY <3>2, <4>2 DEF HandleDisconnect
      <4> QED
        BY <4>1, <4>2
    <3>3. CASE HandleAuth(e.conn, e.msg)
      <4>1. CASE job' = [job EXCEPT ![Global] = CallsClose(Idle, e.conn)]
        <5>1. CallsClose(Idle, e.conn).conn # c
          BY <2>2, <2>4, <2>6
        <5> QED
          BY <4>1, <5>1, ProcsDiffer
      <4>2. CASE /\ auths < MaxAuths
                 /\ job' = [job EXCEPT ![AuthGo(auths + 1)] =
                              [Idle EXCEPT !.at = "auth", !.conn = e.conn, !.msg = e.msg]]
        <5>1. auths + 1 \in 1 .. MaxAuths
          BY <4>2 DEF TypeInv, ConnectionAssumption
        <5>2. [Idle EXCEPT !.at = "auth", !.conn = e.conn, !.msg = e.msg].conn = e.conn
          BY DEF Idle
        <5> QED
          BY <4>2, <5>1, <5>2, <2>2, ProcsDiffer
      <4> QED
        BY <3>3, <4>1, <4>2 DEF HandleAuth
    <3> QED
      BY <1>9, <3>1, <3>2, <3>3 DEF HandleMessage, e
  <2>8. job'[Recv(c)].at = "idle" /\ \A q \in Procs : job'[q].conn # c
    <3>1. CASE UNCHANGED job
      BY <1>2, <3>1 DEF Unknown
    <3>2. ASSUME NEW p \in Procs, NEW j, job' = [job EXCEPT ![p] = j], j.conn # c, p # Recv(c)
          PROVE  job'[Recv(c)].at = "idle" /\ \A q \in Procs : job'[q].conn # c
      <4>1. job'[p] = j /\ \A q \in Procs \ {p} : job'[q] = job[q]
        BY <3>2 DEF TypeInv
      <4> QED
        BY <1>2, <3>2, <4>1 DEF Unknown
    <3> QED
      BY <2>7, <3>1, <3>2
  <2> QED
    BY <1>2, <2>1, <2>3, <2>8 DEF Unknown
<1>10. ASSUME BanUnauth \/ \E d \in Conns : CheckUnauth(d) PROVE Unknown(c)'
  <2>1. /\ UNCHANGED <<allConnections, unauthenticated, sendq, globalQueue>>
        /\ Checker \in Procs /\ Checker # Recv(c) /\ job[Checker] \in Jobs /\ job[Checker].conn # c
    BY <1>2, <1>10, ProcsDiffer DEF BanUnauth, CheckUnauth, tables, sending, TypeInv, Unknown
  <2>2. \E j : job' = [job EXCEPT ![Checker] = j] /\ j.conn # c
    <3>1. CASE BanUnauth
      <4>1. job[Checker].conn \in Conns
        BY <2>1, <3>1, ProcsDiffer DEF BanUnauth, LabelInv, JobOK, At
      <4>2. Goes(Checker, "idle") \in Jobs /\ Goes(Checker, "idle").conn = job[Checker].conn
        BY <2>1, GoesIsJob DEF Labels, RecvLabels
      <4>3. CallsClose(Goes(Checker, "idle"), job[Checker].conn).conn # c
        BY <2>1, <4>1, <4>2, CallsCloseIsJob
      <4>4. job' = [job EXCEPT ![Checker] = CallsClose(Goes(Checker, "idle"), job[Checker].conn)]
        BY <3>1 DEF BanUnauth
      <4> QED
        BY <4>3, <4>4
    <3>2. ASSUME NEW d \in Conns, CheckUnauth(d)
          PROVE  \E j : job' = [job EXCEPT ![Checker] = j] /\ j.conn # c
      <4>1. job' = [job EXCEPT ![Checker] = [job[Checker] EXCEPT !.at = "ban", !.conn = d]] /\ d # c
        BY <1>2, <3>2 DEF CheckUnauth, Unknown
      <4>2. [job[Checker] EXCEPT !.at = "ban", !.conn = d].conn = d
        BY <2>1 DEF Jobs
      <4> QED
        BY <4>1, <4>2
    <3> QED
      BY <1>10, <3>1, <3>2
  <2>3. job'[Recv(c)].at = "idle" /\ \A q \in Procs : job'[q].conn # c
    <3>1. PICK j : job' = [job EXCEPT ![Checker] = j] /\ j.conn # c
      BY <2>2
    <3>2. job'[Checker] = j /\ \A q \in Procs \ {Checker} : job'[q] = job[q]
      BY <2>1, <3>1 DEF TypeInv
    <3> QED
      BY <1>2, <2>1, <3>1, <3>2 DEF Unknown
  <2> QED
    BY <1>2, <2>1, <2>3 DEF Unknown
<1> QED
  BY <1>2, <1>3, <1>4, <1>5, <1>6, <1>7, <1>8, <1>9, <1>10 DEF Next

TableInv == CoreInv /\ AcceptedInv /\ ClosedInv

\* Only Owner is known at the start.
LEMMA AcceptedInit == ASSUME ConnectionAssumption, CoreInv, Init PROVE AcceptedInv /\ ClosedInv
<1>1. /\ \A c \in Conns : ~sendq[c].closed
      /\ \A c \in Conns \ {Owner} : job[Recv(c)].at = "idle"
      /\ \A p \in Procs : job[p].conn = Nobody
      /\ globalQueue = <<>> /\ allConnections = {Owner} /\ unauthenticated = {}
      /\ state[Owner] = "AUTHENTICATED" /\ Owner \in Conns /\ Nobody \notin Conns
  <2>1. Owner \in Conns /\ Nobody \notin Conns
    BY DEF Conns, ConnectionAssumption
  <2>2. \A c \in Conns \ {Owner} : job[Recv(c)].at = "idle"
    BY <2>1, ProcsDiffer DEF Init, Idle
  <2>3. \A p \in Procs : job[p].conn = Nobody
    BY DEF Init, Idle
  <2> QED
    BY <2>1, <2>2, <2>3 DEF Init, NewQueue
<1> QED
  BY <1>1 DEF AcceptedInv, Unknown, ClosedInv

\* A closed connection is never put into a table again.
LEMMA ClosedStep ==
  ASSUME ConnectionAssumption, TableInv, Next
  PROVE  ClosedInv'
<1> USE DEF TableInv, CoreInv
<1>0. sendq \in [Conns -> Queues] /\ \A q \in Queues : q.closed \in BOOLEAN
  BY DEF TypeInv, Queues
<1>1. ASSUME NEW c \in Conns, Accept(c) PROVE ClosedInv'
  <2>1. ~sendq[c].closed
    BY <1>1 DEF Accept, AcceptedInv, Unknown
  <2> QED
    BY <1>1, <2>1 DEF Accept, ClosedInv, sending
<1>2. ASSUME NEW p \in Procs, FinishClose(p) PROVE ClosedInv'
  <2> DEFINE c == job[p].conn
  <2>1. CASE UNCHANGED <<sendq, tables>>
    BY <2>1 DEF ClosedInv, tables
  <2>2. CASE /\ sendq' = [sendq EXCEPT ![c].closed = TRUE]
             /\ allConnections' = allConnections \ {c}
             /\ unauthenticated' = unauthenticated \ {c}
    <3>1. \A d \in Conns \ {c} : sendq'[d] = sendq[d]
      BY <1>0, <2>2
    <3> QED
      BY <2>2, <3>1 DEF ClosedInv
  <2> QED
    BY <1>2, <2>1, <2>2 DEF FinishClose
<1>3. ASSUME NEW p \in Procs, PutSend(p) PROVE ClosedInv'
  <2> DEFINE m == [id |-> accepted[job[p].sendTo] + 1, size |-> job[p].size]
  <2>1. UNCHANGED sendq \/ sendq' = [sendq EXCEPT ![job[p].sendTo] = Enqueued(@, m)]
    BY <1>3 DEF PutSend
  <2> HIDE DEF m
  <2>2. \A q \in Queues : Enqueued(q, m).closed = q.closed
    BY DEF Queues, Enqueued
  <2>3. \A c \in Conns : sendq'[c].closed = sendq[c].closed
    <3> SUFFICES ASSUME NEW c \in Conns PROVE sendq'[c].closed = sendq[c].closed
      OBVIOUS
    <3>1. sendq'[c] \in {sendq[c], Enqueued(sendq[c], m)}
      BY <1>0, <2>1
    <3> QED
      BY <1>0, <2>2, <3>1
  <2> QED
    BY <1>3, <2>3 DEF PutSend, ClosedInv, tables
<1>4. ASSUME NEW c \in Conns, Collect(c) PROVE ClosedInv'
  <2>1. sendq' = [sendq EXCEPT ![c] = Flushed(sendq[c])]
    BY <1>4 DEF Collect
  <2>2. Flushed(sendq[c]).closed = sendq[c].closed
    BY <1>0, FlushedType
  <2>3. \A d \in Conns : sendq'[d].closed = sendq[d].closed
    BY <1>0, <2>1, <2>2
  <2> QED
    BY <1>4, <2>3 DEF Collect, ClosedInv, tables
<1>5. ASSUME NEW k \in 1 .. MaxAuths, OnAuthenticated(k) PROVE ClosedInv'
  BY <1>5 DEF OnAuthenticated, ClosedInv, sending
<1>6. ASSUME UNCHANGED <<sendq, tables>> PROVE ClosedInv'
  BY <1>6 DEF ClosedInv, tables
<1>7. ASSUME NEW c \in Conns,
             \/ HangUp(c) \/ Expire(c) \/ Write(c) \/ Read(c) \/ ReadEnds(c)
             \/ ReadPacket(c) \/ ReceiveMessage(c) \/ CheckUnauth(c)
      PROVE  ClosedInv'
  BY <1>6, <1>7
  DEF HangUp, Expire, Write, Read, ReadEnds, ReadPacket, ReceiveMessage, CheckUnauth, sending
<1>8. ASSUME NEW p \in Procs, StoreClosing(p) PROVE ClosedInv'
  BY <1>6, <1>8 DEF StoreClosing, sending
<1>9. ASSUME NEW k \in 1 .. MaxAuths,
             DoAuth(k) \/ Authenticate(k) \/ Reply(k) \/ ReadCounter(k) \/ WriteCounter(k)
      PROVE  ClosedInv'
  BY <1>6, <1>9 DEF DoAuth, Authenticate, Reply, ReadCounter, WriteCounter, sending
<1>10. ASSUME HandleMessage \/ BanUnauth PROVE ClosedInv'
  BY <1>6, <1>10 DEF HandleMessage, BanUnauth, sending
<1> QED
  BY <1>1, <1>2, <1>3, <1>4, <1>5, <1>7, <1>8, <1>9, <1>10 DEF Next

\* The invariant of the tables is inductive.
LEMMA TableInductive ==
  ASSUME ConnectionAssumption, SendQueueAssumption, FramingAssumption
  PROVE  (Init => TableInv) /\ (TableInv /\ [Next]_vars => TableInv')
<1>1. Init => TableInv
  BY CoreInit, AcceptedInit DEF TableInv
<1>2. ASSUME TableInv, Next PROVE TableInv'
  <2>1. CoreInv'
    BY <1>2, CoreStep DEF TableInv
  <2>2. AcceptedInv'
    BY <1>2, UnknownStep DEF TableInv, AcceptedInv
  <2>3. ClosedInv'
    BY <1>2, ClosedStep
  <2> QED
    BY <2>1, <2>2, <2>3 DEF TableInv
<1>3. ASSUME TableInv, UNCHANGED vars PROVE TableInv'
  BY <1>3
  DEF vars, tables, net, receiving, session, sending, bans, sendHist, authHist, TableInv, CoreInv,
    TypeInv, LabelInv, MessageInv, HandledPacket, Stream, AcceptedInv, Unknown, ClosedInv
<1> QED
  BY <1>1, <1>2, <1>3

\* A connection that has been closed is in no table, however many Close calls overlap
\* (Connection.Close, connection.go).
THEOREM ClosedIsNowhere == Spec => []ClosedIsForgotten
<1>1. ConnectionAssumption /\ SendQueueAssumption /\ FramingAssumption
  BY ConnectionAssumption, SendQueueAssumption, FramingAssumption
<1>2. Init => TableInv
  BY <1>1, TableInductive
<1>3. TableInv /\ [Next]_vars => TableInv'
  BY <1>1, TableInductive
<1>4. TableInv => ClosedIsForgotten
  BY DEF TableInv, ClosedInv, ClosedIsForgotten
<1> QED
  BY <1>2, <1>3, <1>4, PTL DEF Spec

-----------------------------------------------------------------------------
(* Nothing before authentication.                                          *)

\* A client whose FSM has moved has been authenticated.
FsmInv ==
  /\ Owner \in wasAuthenticated
  /\ \A c \in Clients : c \notin wasAuthenticated => fsm[c] = 1

\* A message that the FSM lets through in its first state is AUTH.
LEMMA AuthenticationStep ==
  ASSUME ConnectionAssumption, CoreInv, FsmInv, NothingBeforeAuthentication,
         ClientFsm[1] \subseteq {"AUTH"}, Next
  PROVE  FsmInv' /\ NothingBeforeAuthentication'
<1>1. ASSUME NEW k \in 1 .. MaxAuths, OnAuthenticated(k)
      PROVE  FsmInv' /\ NothingBeforeAuthentication'
  <2> DEFINE c == job[AuthGo(k)].conn
  <2>1. /\ wasAuthenticated' = wasAuthenticated \cup {c} /\ UNCHANGED globalQueue
        /\ fsm' = [fsm EXCEPT ![c] = NextState(c, @)]
    BY <1>1 DEF OnAuthenticated
  <2>2. FsmInv'
    BY <2>1 DEF FsmInv, CoreInv, TypeInv, Conns
  <2> QED
    BY <2>1, <2>2 DEF NothingBeforeAuthentication
<1>2. ASSUME NEW c \in Conns, Read(c) \/ ReadEnds(c) \/ ReadPacket(c) \/ ReceiveMessage(c)
      PROVE  FsmInv' /\ NothingBeforeAuthentication'
  <2>1. UNCHANGED <<fsm, wasAuthenticated>>
    BY <1>2 DEF Read, ReadEnds, ReadPacket, ReceiveMessage, session, authHist
  <2>2. FsmInv'
    BY <2>1 DEF FsmInv
  <2>3. CASE UNCHANGED globalQueue
    BY <2>1, <2>2, <2>3 DEF NothingBeforeAuthentication
  <2>4. ASSUME NEW m, IsAllowed(c, m), globalQueue' = Append(globalQueue, [conn |-> c, msg |-> m])
        PROVE  NothingBeforeAuthentication'
    <3>1. m.type # "AUTH" => c \in wasAuthenticated
      <4> SUFFICES ASSUME m.type # "AUTH", c \notin wasAuthenticated PROVE FALSE
        OBVIOUS
      <4>1. c # Owner /\ c \in Clients
        BY DEF FsmInv, Conns
      <4>2. fsm[c] = 1 /\ FsmOf(c) = ClientFsm
        BY <4>1 DEF FsmInv, FsmOf
      <4> QED
        BY <2>4, <4>2 DEF IsAllowed
    <3>2. globalQueue \in Seq(Queued)
      BY DEF CoreInv, TypeInv
    <3>3. \A n \in DOMAIN globalQueue' : globalQueue'[n] = [conn |-> c, msg |-> m]
             \/ (n \in DOMAIN globalQueue /\ globalQueue'[n] = globalQueue[n])
      BY <2>4, <3>2
    <3> QED
      BY <2>1, <3>1, <3>3 DEF NothingBeforeAuthentication
  <2> QED
    BY <1>2, <2>2, <2>3, <2>4, ReceiverStep
<1>3. ASSUME HandleMessage PROVE FsmInv' /\ NothingBeforeAuthentication'
  <2>1. /\ globalQueue # <<>> /\ globalQueue' = Tail(globalQueue) /\ globalQueue \in Seq(Queued)
        /\ UNCHANGED <<fsm, wasAuthenticated>>
    BY <1>3 DEF HandleMessage, CoreInv, TypeInv, session, authHist
  <2>2. \A n \in DOMAIN globalQueue' : n + 1 \in DOMAIN globalQueue
          /\ globalQueue'[n] = globalQueue[n + 1]
    BY <2>1
  <2> QED
    BY <2>1, <2>2 DEF FsmInv, NothingBeforeAuthentication
<1>4. ASSUME UNCHANGED <<fsm, wasAuthenticated, globalQueue>>
      PROVE  FsmInv' /\ NothingBeforeAuthentication'
  BY <1>4 DEF FsmInv, NothingBeforeAuthentication
<1>5. ASSUME NEW c \in Conns,
             Accept(c) \/ HangUp(c) \/ Expire(c) \/ Collect(c) \/ Write(c) \/ CheckUnauth(c)
      PROVE  FsmInv' /\ NothingBeforeAuthentication'
  BY <1>4, <1>5 DEF Accept, HangUp, Expire, Collect, Write, CheckUnauth, session, authHist
<1>6. ASSUME NEW p \in Procs, StoreClosing(p) \/ FinishClose(p) \/ PutSend(p)
      PROVE  FsmInv' /\ NothingBeforeAuthentication'
  BY <1>4, <1>6 DEF StoreClosing, FinishClose, PutSend, session, authHist
<1>7. ASSUME NEW k \in 1 .. MaxAuths,
             DoAuth(k) \/ Authenticate(k) \/ Reply(k) \/ ReadCounter(k) \/ WriteCounter(k)
      PROVE  FsmInv' /\ NothingBeforeAuthentication'
  BY <1>4, <1>7 DEF DoAuth, Authenticate, Reply, ReadCounter, WriteCounter, session, authHist
<1>8. ASSUME BanUnauth PROVE FsmInv' /\ NothingBeforeAuthentication'
  BY <1>4, <1>8 DEF BanUnauth, session, authHist
<1> QED
  BY <1>1, <1>2, <1>3, <1>5, <1>6, <1>7, <1>8 DEF Next

\* Nothing but AUTH reaches the GLOBAL channel before authentication, if the first state
\* of the clients' FSM allows nothing else, as in config/client_authoratative_fsm.json.
THEOREM AuthenticationComesFirst ==
  ASSUME ClientFsm[1] \subseteq {"AUTH"}
  PROVE  Spec => []NothingBeforeAuthentication
<1> DEFINE Inv == CoreInv /\ FsmInv /\ NothingBeforeAuthentication
<1>1. ConnectionAssumption /\ SendQueueAssumption /\ FramingAssumption
  BY ConnectionAssumption, SendQueueAssumption, FramingAssumption
<1>2. Init => Inv
  <2> SUFFICES ASSUME Init PROVE Inv
    OBVIOUS
  <2>1. CoreInv
    BY <1>1, CoreInit
  <2>2. FsmInv /\ NothingBeforeAuthentication
    BY <1>1 DEF Init, FsmInv, NothingBeforeAuthentication, ConnectionAssumption, Conns
  <2> QED
    BY <2>1, <2>2
<1>3. Inv /\ [Next]_vars => Inv'
  <2>1. ASSUME Inv, Next PROVE Inv'
    <3>1. CoreInv'
      BY <1>1, <2>1, CoreStep
    <3> QED
      BY <1>1, <2>1, <3>1, AuthenticationStep
  <2>2. ASSUME Inv, UNCHANGED vars PROVE Inv'
    <3>1. CoreInv'
      BY <1>1, <2>2, CoreStep
    <3> QED
      BY <2>2, <3>1 DEF vars, session, authHist, FsmInv, NothingBeforeAuthentication
  <2> QED
    BY <2>1, <2>2
<1> QED
  BY <1>2, <1>3, PTL DEF Spec

-----------------------------------------------------------------------------
(* Failures and bans.                                                      *)

\* Of a token or address that no two goroutines counted at the same time: one goroutine
\* at most is counting it, with the count it read, and the count is that of the attempts.
CountOf(k) ==
  /\ \A p, q \in Procs :
       Counting(p) /\ Counting(q) /\ Key(p) = k /\ Key(q) = k => p = q
  /\ \A p \in Procs : Counting(p) /\ Key(p) = k =>
       job[p].next = failedAuths[k] /\ attempts[k] = failedAuths[k] + 1
  /\ (\A p \in Procs : ~(Counting(p) /\ Key(p) = k)) => attempts[k] = failedAuths[k]
  /\ failedAuths[k] >= MaxFailedAuthAttempts => k \in pitBlacklist \cup ipBlacklist
CountInv == \A k \in Keys \ overlapped : CountOf(k)

\* A step that neither counts nor lifts a ban.
LEMMA CountKept ==
  ASSUME NEW k \in Keys, CountOf(k), UNCHANGED <<failedAuths, attempts>>,
         \A p \in Procs : Counting(p)' <=> Counting(p),
         \A p \in Procs : Counting(p) => Key(p)' = Key(p) /\ job'[p].next = job[p].next,
         pitBlacklist \subseteq pitBlacklist', ipBlacklist \subseteq ipBlacklist'
  PROVE  CountOf(k)'
<1>1. \A p \in Procs : (Counting(p) /\ Key(p) = k)' <=> (Counting(p) /\ Key(p) = k)
  OBVIOUS
<1> QED
  BY <1>1 DEF CountOf

\* Only the goroutine of an authentication starts or ends to count.
LEMMA OthersCount ==
  ASSUME ConnectionAssumption, CoreInv, Next,
         ~ \E k \in 1 .. MaxAuths : ReadCounter(k) \/ WriteCounter(k)
  PROVE  /\ \A p \in Procs : Counting(p)' <=> Counting(p)
         /\ \A p \in Procs : Counting(p) => Key(p)' = Key(p) /\ job'[p].next = job[p].next
         /\ pitBlacklist \subseteq pitBlacklist' /\ ipBlacklist \subseteq ipBlacklist'
         /\ UNCHANGED <<failedAuths, attempts, overlapped>>
<1> DEFINE Goal == /\ \A p \in Procs : Counting(p)' <=> Counting(p)
                   /\ \A p \in Procs : Counting(p) => Key(p)' = Key(p) /\ job'[p].next = job[p].next
           Bans == /\ pitBlacklist \subseteq pitBlacklist' /\ ipBlacklist \subseteq ipBlacklist'
                   /\ UNCHANGED <<failedAuths, attempts, overlapped>>
<1>0. CoreInv'
  BY CoreStep
<1>1. ASSUME NEW p \in Procs, \A q \in Procs \ {p} : job'[q] = job[q],
             job[p].at # "count", job'[p].at # "count"
      PROVE  Goal
  BY <1>1 DEF Counting, Key
<1>2. ASSUME NEW c \in Conns, Accept(c) PROVE Goal /\ Bans
  <2>1. job' = [job EXCEPT ![Recv(c)].at = "read"] /\ Recv(c) \in Procs /\ job[Recv(c)] \in Jobs
    BY <1>2, ProcsDiffer DEF Accept, CoreInv, TypeInv
  <2>2. job[Recv(c)].at # "count" /\ job'[Recv(c)].at = "read"
    BY <2>1, ProcsDiffer DEF CoreInv, LabelInv, JobOK, RecvLabels, TypeInv, Jobs
  <2>3. \A q \in Procs \ {Recv(c)} : job'[q] = job[q]
    BY <2>1 DEF CoreInv, TypeInv
  <2>4. Goal
    BY <1>1, <2>1, <2>2, <2>3
  <2> QED
    BY <1>2, <2>4 DEF Accept, bans, authHist
<1>3. ASSUME NEW c \in Conns, HangUp(c) \/ Expire(c) \/ Collect(c) \/ Write(c) PROVE Goal /\ Bans
  BY <1>3 DEF HangUp, Expire, Collect, Write, bans, authHist, Counting, Key
<1>4. ASSUME NEW p \in Procs, StoreClosing(p) \/ FinishClose(p) \/ PutSend(p) PROVE Goal /\ Bans
  <2>1. \A q \in Procs : /\ job'[q].at = job[q].at /\ job'[q].conn = job[q].conn
                         /\ job'[q].msg = job[q].msg /\ job'[q].next = job[q].next
    BY <1>4, CallStep DEF CoreInv
  <2> QED
    BY <1>4, <2>1 DEF StoreClosing, FinishClose, PutSend, bans, authHist, Counting, Key
<1>5. ASSUME NEW c \in Conns, Read(c) \/ ReadEnds(c) \/ ReadPacket(c) \/ ReceiveMessage(c)
      PROVE  Goal /\ Bans
  <2>1. Recv(c) \in Procs /\ \A q \in Procs \ {Recv(c)} : job'[q] = job[q]
    BY <1>5, ReceiverStep, ProcsDiffer
  <2>2. job[Recv(c)].at # "count" /\ job'[Recv(c)].at # "count"
    BY <1>0, ProcsDiffer DEF CoreInv, LabelInv, JobOK, RecvLabels
  <2>3. Goal
    BY <1>1, <2>1, <2>2
  <2>4. Bans
    BY <1>5 DEF Read, ReadEnds, ReadPacket, ReceiveMessage, bans, authHist
  <2> QED
    BY <2>3, <2>4
<1>6. ASSUME NEW k \in 1 .. MaxAuths, DoAuth(k) \/ Authenticate(k) \/ OnAuthenticated(k) \/ Reply(k)
      PROVE  Goal /\ Bans
  <2>1. AuthGo(k) \in Procs /\ job[AuthGo(k)] \in Jobs
          /\ \A q \in Procs \ {AuthGo(k)} : job'[q] = job[q]
    BY <1>6, AuthStep DEF CoreInv, TypeInv
  <2> DEFINE p == AuthGo(k)
             c == job[p].conn
  <2>2. job[p].at # "count"
    BY <1>6 DEF DoAuth, Authenticate, OnAuthenticated, Reply, At
  <2>3. \A l \in AuthLabels : Goes(p, l) \in Jobs /\ Goes(p, l).at = l
    BY <2>1, GoesIsJob DEF CoreInv, Labels
  <2>4. c \in Conns /\ Owner \in Conns
    BY <1>6, AuthStep DEF Conns
  <2>5. \A j \in Jobs : CallsClose(j, c).at = j.at /\ CallsSend(j, c, ResultSize).at = j.at
          /\ CallsSend(j, Owner, ResultSize).at = j.at
    BY DEF CallsClose, CallsSend, Jobs
  <2>6. job'[p] \in {Goes(p, l) : l \in AuthLabels \ {"count"}}
          \cup {CallsClose(Goes(p, "done"), c)}
          \cup {CallsSend(Goes(p, "tell"), c, ResultSize),
            CallsSend(Goes(p, "event"), Owner, ResultSize)}
    <3>1. CASE DoAuth(k)
      <4>1. job'[p] \in {CallsClose(Goes(p, "done"), c), Goes(p, "done"),
              Goes(p, "authenticate"), Goes(p, "reply")}
        BY <2>1, <3>1 DEF DoAuth, CoreInv, TypeInv
      <4> QED
        BY <4>1 DEF AuthLabels
    <3>2. CASE Authenticate(k)
      <4>1. job'[p] \in {Goes(p, "store"), Goes(p, "reply")}
        BY <2>1, <3>2 DEF Authenticate, CoreInv, TypeInv
      <4> QED
        BY <4>1 DEF AuthLabels
    <3>3. CASE OnAuthenticated(k)
      <4>1. job'[p] = Goes(p, "reply")
        BY <2>1, <3>3 DEF OnAuthenticated, CoreInv, TypeInv
      <4> QED
        BY <4>1 DEF AuthLabels
    <3>4. CASE Reply(k)
      <4>1. job'[p] \in {CallsSend(Goes(p, "tell"), c, ResultSize), Goes(p, "event"),
                       CallsSend(Goes(p, "event"), Owner, ResultSize)}
        BY <2>1, <3>4 DEF Reply, CoreInv, TypeInv
      <4> QED
        BY <4>1 DEF AuthLabels
    <3> QED
      BY <1>6, <3>1, <3>2, <3>3, <3>4
  <2>7. job'[p].at # "count"
    <3>1. CASE job'[p] \in {Goes(p, l) : l \in AuthLabels \ {"count"}}
      BY <2>3, <3>1
    <3>2. CASE job'[p] \in {CallsClose(Goes(p, "done"), c),
               CallsSend(Goes(p, "tell"), c, ResultSize),
                            CallsSend(Goes(p, "event"), Owner, ResultSize)}
      BY <2>3, <2>5, <3>2 DEF AuthLabels
    <3> QED
      BY <2>6, <3>1, <3>2
  <2>8. Goal
    BY <1>1, <2>1, <2>2, <2>7
  <2> QED
    BY <1>6, <2>8 DEF DoAuth, Authenticate, OnAuthenticated, Reply, bans, authHist
<1>7. ASSUME HandleMessage PROVE Goal /\ Bans
  <2>1. UNCHANGED job \/ \E p \in Procs : job[p].at = "idle" /\ job'[p].at # "count"
                                          /\ \A q \in Procs \ {p} : job'[q] = job[q]
    <3> DEFINE e == Head(globalQueue)
    <3>1. /\ Global \in Procs /\ job[Global].at = "idle" /\ job'[Global].at = "idle"
      BY <1>0, <1>7, ProcsDiffer DEF CoreInv, LabelInv, JobOK
    <3> HIDE DEF e
    <3>2. CASE HandleUser(e.conn, e.msg)
      <4>1. \A q \in Procs \ {Global} : job'[q] = job[q]
        BY <3>2, <3>1 DEF HandleUser, CoreInv, TypeInv
      <4> QED
        BY <3>1, <4>1
    <3>3. CASE HandleDisconnect(e.conn, e.msg)
      <4>1. \A q \in Procs \ {Global} : job'[q] = job[q]
        BY <3>3, <3>1 DEF HandleDisconnect, CoreInv, TypeInv
      <4> QED
        BY <3>1, <4>1
    <3>4. CASE HandleAuth(e.conn, e.msg)
      <4>1. CASE job' = [job EXCEPT ![Global] = CallsClose(Idle, e.conn)]
        <5>1. \A q \in Procs \ {Global} : job'[q] = job[q]
          BY <4>1, <3>1 DEF CoreInv, TypeInv
        <5> QED
          BY <3>1, <5>1
      <4>2. CASE /\ auths < MaxAuths
                 /\ job' = [job EXCEPT ![AuthGo(auths + 1)] =
                              [Idle EXCEPT !.at = "auth", !.conn = e.conn, !.msg = e.msg]]
        <5> DEFINE j == [Idle EXCEPT !.at = "auth", !.conn = e.conn, !.msg = e.msg]
                   p == AuthGo(auths + 1)
        <5>1. auths \in Nat /\ auths + 1 \in 1 .. MaxAuths
          BY <4>2 DEF CoreInv, TypeInv, ConnectionAssumption
        <5>2. j.at = "auth" /\ p \in Procs
          BY <5>1, ProcsDiffer DEF Idle
        <5>3. job[p].at = "idle"
          BY <5>1, <5>2 DEF CoreInv, LabelInv, JobOK
        <5>4. job' = [job EXCEPT ![p] = j]
          BY <4>2
        <5> HIDE DEF j, p
        <5>5. job'[p] = j /\ \A q \in Procs \ {p} : job'[q] = job[q]
          BY <5>2, <5>4 DEF CoreInv, TypeInv
        <5> QED
          BY <5>2, <5>3, <5>5
      <4> QED
        BY <3>4, <4>1, <4>2 DEF HandleAuth
    <3> QED
      BY <1>7, <3>2, <3>3, <3>4 DEF HandleMessage, e
  <2>2. Goal
    BY <1>1, <2>1 DEF Counting, Key
  <2> QED
    BY <1>7, <2>2 DEF HandleMessage, bans, authHist
<1>8. ASSUME BanUnauth \/ \E c \in Conns : CheckUnauth(c) PROVE Goal /\ Bans
  <2>1. /\ Checker \in Procs /\ \A q \in Procs \ {Checker} : job'[q] = job[q]
        /\ job[Checker].at # "count" /\ job'[Checker].at # "count"
    <3>1. Checker \in Procs /\ job[Checker].at # "count" /\ job'[Checker].at # "count"
      BY <1>0, ProcsDiffer DEF CoreInv, LabelInv, JobOK
    <3>2. \E j : job' = [job EXCEPT ![Checker] = j]
      BY <1>8 DEF BanUnauth, CheckUnauth
    <3> QED
      BY <3>1, <3>2 DEF CoreInv, TypeInv
  <2>2. Goal
    BY <1>1, <2>1
  <2> QED
    BY <1>8, <2>2 DEF BanUnauth, CheckUnauth, bans, authHist
<1> QED
  BY <1>2, <1>3, <1>4, <1>5, <1>6, <1>7, <1>8 DEF Next

\* A goroutine that starts to count alone has read the true count.
LEMMA ReadCounterStep ==
  ASSUME ConnectionAssumption, CoreInv, NEW a \in 1 .. MaxAuths, ReadCounter(a),
         NEW k \in Keys, CountOf(k), k \notin overlapped'
  PROVE  CountOf(k)'
<1> DEFINE p == AuthGo(a)
           counts == job[p].msg.result \in {"INVALID_LT", "INVALID_PIT"} /\ job[p].conn # Owner
<1>1. /\ p \in Procs /\ job[p] \in Jobs /\ job[p].at = "event" /\ UNCHANGED bans
      /\ \A q \in Procs \ {p} : job'[q] = job[q]
  BY AuthStep DEF CoreInv, TypeInv, ReadCounter, At
<1>2. \A l \in AuthLabels : /\ Goes(p, l) \in Jobs /\ Goes(p, l).at = l
         /\ Goes(p, l).conn = job[p].conn /\ Goes(p, l).msg = job[p].msg
  BY <1>1, GoesIsJob DEF CoreInv, Labels
<1>3. \A q \in Procs \ {p} : (Counting(q)' <=> Counting(q)) /\ Key(q)' = Key(q)
  BY <1>1 DEF Counting, Key
<1>4. CASE ~counts
  <2>1. job'[p] = Goes(p, "done") /\ UNCHANGED attempts
    BY <1>1, <1>4 DEF ReadCounter, CoreInv, TypeInv
  <2>2. ~Counting(p) /\ ~Counting(p)'
    BY <1>1, <1>2, <2>1 DEF Counting, AuthLabels
  <2> QED
    BY <1>1, <1>3, <2>1, <2>2, CountKept DEF Counting, bans
<1>5. CASE counts
  <2> DEFINE g == Goes(p, "count")
             n == failedAuths[Key(p)]
  <2>1. /\ job'[p] = [g EXCEPT !.next = n] /\ attempts' = [attempts EXCEPT ![Key(p)] = @ + 1]
        /\ overlapped' = overlapped
              \cup {Key(p) : q \in {q \in Procs : Counting(q) /\ Key(q) = Key(p)}}
    BY <1>1, <1>5 DEF ReadCounter, CoreInv, TypeInv
  <2>2. g \in Jobs /\ g.at = "count" /\ g.conn = job[p].conn /\ g.msg = job[p].msg
    BY <1>2 DEF AuthLabels
  <2>3. job'[p].next = n /\ job'[p].at = "count" /\ job'[p].conn = job[p].conn
          /\ job'[p].msg = job[p].msg
    <3> HIDE DEF g, n
    <3> QED
      BY <2>1, <2>2 DEF Jobs
  <2>4. Counting(p)' /\ ~Counting(p) /\ Key(p)' = Key(p)
    BY <1>1, <2>3 DEF Counting, Key
  <2>5. attempts \in [Keys -> Nat] /\ failedAuths \in [Keys -> Nat]
    BY DEF CoreInv, TypeInv
  <2>6. CASE Key(p) = k
    <3>1. \A q \in Procs : ~(Counting(q) /\ Key(q) = k)
      BY <2>1, <2>6
    <3>2. attempts[k] = failedAuths[k]
      BY <3>1 DEF CountOf
    <3>3. attempts'[k] = failedAuths'[k] + 1 /\ job'[p].next = failedAuths'[k]
      BY <1>1, <2>1, <2>3, <2>5, <2>6, <3>2 DEF bans
    <3>4. \A q \in Procs : (Counting(q) /\ Key(q) = k)' <=> q = p
      BY <1>1, <1>3, <2>4, <2>6, <3>1
    <3> QED
      BY <1>1, <3>3, <3>4 DEF CountOf, bans
  <2>7. CASE Key(p) # k
    <3>1. attempts'[k] = attempts[k] /\ failedAuths'[k] = failedAuths[k]
      BY <1>1, <2>1, <2>5, <2>7 DEF bans
    <3>2. \A q \in Procs : (Counting(q) /\ Key(q) = k)' <=> (Counting(q) /\ Key(q) = k)
      BY <1>3, <2>4, <2>7
    <3>3. \A q \in Procs : (Counting(q) /\ Key(q) = k) => job'[q] = job[q]
      BY <1>1, <2>7
    <3> QED
      BY <1>1, <3>1, <3>2, <3>3 DEF CountOf, bans
  <2> QED
    BY <2>6, <2>7
<1> QED
  BY <1>4, <1>5

\* It then writes the next one, and bans at the limit.
LEMMA WriteCounterStep ==
  ASSUME ConnectionAssumption, CoreInv, NEW a \in 1 .. MaxAuths, WriteCounter(a),
         NEW k \in Keys, CountOf(k)
  PROVE  CountOf(k)'
<1> DEFINE p == AuthGo(a)
           n == job[p].next + 1
           ban == n >= MaxFailedAuthAttempts
<1>1. /\ p \in Procs /\ job[p] \in Jobs /\ job[p].at = "count"
      /\ \A q \in Procs \ {p} : job'[q] = job[q]
      /\ job[p].conn \in Conns /\ job[p].next \in Nat
  BY AuthStep DEF CoreInv, TypeInv, WriteCounter, At
<1>2. /\ UNCHANGED attempts /\ failedAuths' = [failedAuths EXCEPT ![Key(p)] = n]
      /\ pitBlacklist' = pitBlacklist \cup {x \in Pits : x = Key(p) /\ ban}
      /\ ipBlacklist' = ipBlacklist \cup {x \in IPs : x = Key(p) /\ ban}
  BY DEF WriteCounter, authHist
<1>3. Goes(p, "done") \in Jobs /\ Goes(p, "done").at = "done"
  BY <1>1, GoesIsJob DEF CoreInv, Labels, AuthLabels
<1>4. job'[p].at = "done"
  <2>1. job'[p] \in {CallsClose(Goes(p, "done"), job[p].conn), Goes(p, "done")}
    BY <1>1 DEF WriteCounter, CoreInv, TypeInv
  <2> QED
    BY <1>1, <1>3, <2>1, CallsCloseIsJob
<1>5. Counting(p) /\ ~Counting(p)'
  BY <1>1, <1>4 DEF Counting
<1>6. \A q \in Procs \ {p} : (Counting(q)' <=> Counting(q)) /\ Key(q)' = Key(q)
  BY <1>1 DEF Counting, Key
<1>7. failedAuths \in [Keys -> Nat] /\ attempts \in [Keys -> Nat]
  BY DEF CoreInv, TypeInv
<1> HIDE DEF p
<1>8. CASE Key(p) = k
  <2>1. job[p].next = failedAuths[k] /\ attempts[k] = failedAuths[k] + 1
        /\ \A q \in Procs : Counting(q) /\ Key(q) = k => q = p
    BY <1>1, <1>5, <1>8 DEF CountOf
  <2>2. \A q \in Procs : ~(Counting(q) /\ Key(q) = k)'
    BY <1>5, <1>6, <2>1
  <2>3. failedAuths'[k] = n /\ attempts'[k] = n
    BY <1>2, <1>7, <1>8, <2>1
  <2>4. ban => k \in pitBlacklist' \cup ipBlacklist'
    BY <1>2, <1>8 DEF Keys
  <2> QED
    BY <2>2, <2>3, <2>4 DEF CountOf
<1>9. CASE Key(p) # k
  <2>1. attempts'[k] = attempts[k] /\ failedAuths'[k] = failedAuths[k]
    BY <1>2, <1>7, <1>9
  <2>2. \A q \in Procs : (Counting(q) /\ Key(q) = k)' <=> (Counting(q) /\ Key(q) = k)
    BY <1>5, <1>6, <1>9
  <2>3. \A q \in Procs : (Counting(q) /\ Key(q) = k) => job'[q] = job[q]
    BY <1>1, <1>9
  <2>4. pitBlacklist \subseteq pitBlacklist' /\ ipBlacklist \subseteq ipBlacklist'
    BY <1>2
  <2> QED
    BY <2>1, <2>2, <2>3, <2>4 DEF CountOf
<1> QED
  BY <1>8, <1>9

\* The count is inductive.
LEMMA CountStep ==
  ASSUME ConnectionAssumption, CoreInv, CountInv, [Next]_vars
  PROVE  CountInv'
<1> USE DEF CountInv
<1>1. SUFFICES ASSUME NEW k \in Keys, k \notin overlapped' PROVE CountOf(k)'
  OBVIOUS
<1>2. ASSUME NEW a \in 1 .. MaxAuths, ReadCounter(a) PROVE CountOf(k)'
  <2>1. overlapped \subseteq overlapped'
    BY <1>2 DEF ReadCounter
  <2> QED
    BY <1>1, <1>2, <2>1, ReadCounterStep
<1>3. ASSUME NEW a \in 1 .. MaxAuths, WriteCounter(a) PROVE CountOf(k)'
  <2>1. UNCHANGED overlapped
    BY <1>3 DEF WriteCounter, authHist
  <2> QED
    BY <1>1, <1>3, <2>1, WriteCounterStep
<1>4. ASSUME Next, ~ \E a \in 1 .. MaxAuths : ReadCounter(a) \/ WriteCounter(a) PROVE CountOf(k)'
  BY <1>1, <1>4, OthersCount, CountKept
<1>5. ASSUME UNCHANGED vars PROVE CountOf(k)'
  BY <1>1, <1>5 DEF vars, bans, authHist, CountOf, Counting, Key
<1> QED
  BY <1>2, <1>3, <1>4, <1>5

\* A token or address that failed MaxFailedAuthAttempts times is banned, unless two
\* goroutines counted its failures at the same time (the listener of InitAntiDDoS, ddos.go).
THEOREM FailuresAreBanned == Spec => []FailuresLeadToBan
<1> DEFINE Inv == CoreInv /\ CountInv
<1>1. ConnectionAssumption /\ SendQueueAssumption /\ FramingAssumption
  BY ConnectionAssumption, SendQueueAssumption, FramingAssumption
<1>2. Init => Inv
  <2> SUFFICES ASSUME Init PROVE Inv
    OBVIOUS
  <2>1. CoreInv
    BY <1>1, CoreInit
  <2>2. \A p \in Procs : ~Counting(p)
    BY DEF Init, Idle, Counting
  <2>3. \A k \in Keys : attempts[k] = 0 /\ failedAuths[k] = 0
    BY DEF Init, Keys
  <2>4. ~ (0 >= MaxFailedAuthAttempts)
    BY <1>1 DEF ConnectionAssumption
  <2> QED
    BY <2>1, <2>2, <2>3, <2>4 DEF CountInv, CountOf
<1>3. Inv /\ [Next]_vars => Inv'
  BY <1>1, CoreStep, CountStep
<1>4. Inv => FailuresLeadToBan
  BY DEF CountInv, CountOf, FailuresLeadToBan, Keys
<1> QED
  BY <1>2, <1>3, <1>4, PTL DEF Spec

-----------------------------------------------------------------------------
(* The stream of messages.                                                 *)

\* What has been accepted and not yet written or lost, in the order it will leave: it ends
\* with the message accepted last, and begins right after the one written last, unless
\* packets may have been lost.
Pending(c) == writing[c] \o (sendq[c].kept \o sendq[c].queue)
LastSent(c) == IF written[c] = <<>> THEN 0 ELSE written[c][Len(written[c])]
StreamOf(c) ==
  /\ \A i \in DOMAIN Pending(c) : Pending(c)[i].id = accepted[c] - Len(Pending(c)) + i
  /\ Len(Pending(c)) <= accepted[c]
  /\ LastSent(c) <= accepted[c] - Len(Pending(c))
  /\ LastSent(c) = accepted[c] - Len(Pending(c)) \/ compression[c] \/ netClosed[c]

StreamInv == \A c \in Conns : StreamOf(c)

\* The types of what is pending.
LEMMA PendingType ==
  ASSUME TypeInv, NEW c \in Conns
  PROVE  /\ Pending(c) \in Seq(SentMessage) /\ writing[c] \in Seq(SentMessage)
         /\ sendq[c] \in Queues /\ sendq[c].kept \in Seq(SentMessage)
         /\ sendq[c].queue \in Seq(SentMessage)
         /\ sendq[c].kept \o sendq[c].queue \in Seq(SentMessage)
         /\ accepted[c] \in Nat /\ written[c] \in Seq(Nat) /\ LastSent(c) \in Nat
<1>1. /\ writing[c] \in Seq(SentMessage) /\ sendq[c] \in Queues /\ accepted[c] \in Nat
      /\ written[c] \in Seq(Nat)
  BY DEF TypeInv
<1>2. sendq[c].kept \in Seq(SentMessage) /\ sendq[c].queue \in Seq(SentMessage)
  BY <1>1 DEF Queues
<1>3. sendq[c].kept \o sendq[c].queue \in Seq(SentMessage)
  BY <1>2
<1>4. Pending(c) \in Seq(SentMessage)
  BY <1>1, <1>3 DEF Pending
<1>5. LastSent(c) \in Nat
  BY <1>1 DEF LastSent
<1> QED
  BY <1>1, <1>2, <1>3, <1>4, <1>5

\* The identifiers of a tail of the pending messages, counted from their end.
LEMMA TailOfPending ==
  ASSUME NEW a \in Seq(SentMessage), NEW b \in Seq(SentMessage), NEW n \in Nat,
         Len(a \o b) <= n,
         \A i \in DOMAIN (a \o b) : (a \o b)[i].id = n - Len(a \o b) + i
  PROVE  /\ Len(a \o b) = Len(a) + Len(b) /\ Len(b) <= n
         /\ \A i \in DOMAIN b : b[i].id = n - Len(b) + i
         /\ \A i \in DOMAIN a : a[i].id = n - Len(a \o b) + i
<1>1. /\ Len(a \o b) = Len(a) + Len(b) /\ Len(a) \in Nat /\ Len(b) \in Nat
      /\ DOMAIN a = 1 .. Len(a) /\ DOMAIN b = 1 .. Len(b) /\ DOMAIN (a \o b) = 1 .. Len(a) + Len(b)
      /\ \A i \in 1 .. Len(a) : (a \o b)[i] = a[i]
      /\ \A i \in 1 .. Len(b) : (a \o b)[Len(a) + i] = b[i]
  OBVIOUS
<1>2. ASSUME NEW i \in 1 .. Len(b) PROVE b[i].id = n - Len(b) + i
  <2>1. Len(a) + i \in DOMAIN (a \o b) /\ (a \o b)[Len(a) + i] = b[i]
    BY <1>1
  <2>2. b[i].id = n - (Len(a) + Len(b)) + (Len(a) + i)
    BY <1>1, <2>1
  <2> QED
    BY <1>1, <2>2
<1>3. ASSUME NEW i \in 1 .. Len(a) PROVE a[i].id = n - Len(a \o b) + i
  <2>1. i \in DOMAIN (a \o b) /\ (a \o b)[i] = a[i]
    BY <1>1
  <2> QED
    BY <2>1
<1> QED
  BY <1>1, <1>2, <1>3

\* A step that leaves the stream of c alone, and does not make it reliable again.
LEMMA StreamKept ==
  ASSUME NEW c \in Conns, StreamOf(c), Pending(c)' = Pending(c),
         accepted'[c] = accepted[c], written'[c] = written[c],
         compression[c] => compression'[c], netClosed[c] => netClosed'[c]
  PROVE  StreamOf(c)'
BY DEF StreamOf, LastSent

\* flush takes the pending messages from their front, or loses the front of them.
LEMMA CollectStream ==
  ASSUME CoreInv, NEW c \in Conns, StreamOf(c), NEW d \in Conns, Collect(d)
  PROVE  StreamOf(c)'
<1> DEFINE P == Packet(sendq[c])
           F == Flushed(sendq[c])
           rest == F.kept \o F.queue
<1>1. /\ UNCHANGED <<accepted, written, compression, netClosed>>
      /\ sendq' = [sendq EXCEPT ![d] = Flushed(sendq[d])] /\ writing[d] = <<>>
      /\ \/ writing' = [writing EXCEPT ![d] = Packet(sendq[d])]
         \/ compression[d] /\ UNCHANGED writing
  BY DEF Collect, net, sendHist
<1>2. CASE c # d
  <2>1. Pending(c)' = Pending(c)
    BY <1>1, <1>2 DEF Pending, CoreInv, TypeInv
  <2> QED
    BY <1>1, <2>1, StreamKept
<1>3. CASE c = d
  <2>1. /\ P \in Seq(SentMessage) /\ F \in Queues /\ P \o rest = sendq[c].kept \o sendq[c].queue
    BY PendingType, FlushedType DEF CoreInv
  <2>2. sendq'[c] = F /\ (writing'[c] = P \/ (compression[c] /\ writing'[c] = <<>>))
          /\ writing[c] = <<>>
    BY <1>1, <1>3 DEF CoreInv, TypeInv
  <2>3. rest \in Seq(SentMessage)
    BY <2>1 DEF Queues
  <2>4. Pending(c) = P \o rest
    <3>1. <<>> \o (sendq[c].kept \o sendq[c].queue) = sendq[c].kept \o sendq[c].queue
      BY PendingType, ConcatEmptySeq DEF CoreInv
    <3> QED
      BY <2>1, <2>2, <3>1 DEF Pending
  <2>5. CASE writing'[c] = P
    <3>1. Pending(c)' = Pending(c)
      BY <2>2, <2>4, <2>5 DEF Pending
    <3> QED
      BY <1>1, <3>1, StreamKept
  <2>6. CASE compression[c] /\ writing'[c] = <<>>
    <3>1. Pending(c)' = rest
      <4>1. Pending(c)' = <<>> \o rest
        BY <2>2, <2>6 DEF Pending
      <4>2. <<>> \o rest = rest
        BY <2>3, ConcatEmptySeq
      <4> QED
        BY <4>1, <4>2
    <3>2. /\ accepted[c] \in Nat /\ Len(P \o rest) <= accepted[c]
          /\ \A i \in DOMAIN (P \o rest) : (P \o rest)[i].id = accepted[c] - Len(P \o rest) + i
      BY <2>4, PendingType DEF StreamOf, CoreInv
    <3> HIDE DEF P, rest
    <3>3. /\ Len(P \o rest) = Len(P) + Len(rest) /\ Len(rest) <= accepted[c]
          /\ \A i \in DOMAIN rest : rest[i].id = accepted[c] - Len(rest) + i
      BY <2>1, <2>3, <3>2, TailOfPending
    <3>4. LastSent(c) <= accepted[c] - Len(P \o rest) /\ LastSent(c) \in Nat
      BY <2>4, PendingType DEF StreamOf, CoreInv
    <3>5. LastSent(c) <= accepted[c] - Len(rest)
      BY <3>2, <3>3, <3>4, <2>1, <2>3
    <3>6. LastSent(c)' = LastSent(c)
      BY <1>1 DEF LastSent
    <3> QED
      BY <1>1, <2>6, <3>1, <3>3, <3>5, <3>6 DEF StreamOf
  <2> QED
    BY <2>2, <2>5, <2>6
<1> QED
  BY <1>2, <1>3

\* What a Write delivers is the interval that follows what may have been lost.
LEMMA WriteStream ==
  ASSUME CoreInv, NEW c \in Conns, StreamOf(c), Write(c)
  PROVE  /\ StreamOf(c)'
         /\ UNCHANGED written \/ Sent!Deliver(c)
<1> DEFINE w == writing[c]
           rest == sendq[c].kept \o sendq[c].queue
           n == accepted[c]
           ids == [k \in DOMAIN w |-> w[k].id]
<1>1. /\ w \in Seq(SentMessage) /\ rest \in Seq(SentMessage) /\ n \in Nat /\ written[c] \in Seq(Nat)
      /\ LastSent(c) \in Nat /\ w # <<>>
  BY PendingType DEF CoreInv, Write
<1>2. /\ UNCHANGED <<accepted, compression, netClosed, sendq>>
            /\ writing' = [writing EXCEPT ![c] = <<>>]
      /\ \/ netClosed[c] /\ UNCHANGED written
         \/ ~netClosed[c] /\ written' = [written EXCEPT ![c] = written[c] \o ids]
  BY DEF Write, net
<1>3. Pending(c)' = rest
  <2>1. Pending(c)' = <<>> \o rest
    BY <1>2 DEF Pending, CoreInv, TypeInv
  <2>2. <<>> \o rest = rest
    BY <1>1, ConcatEmptySeq
  <2> QED
    BY <2>1, <2>2
<1>4. /\ Len(w \o rest) = Len(w) + Len(rest) /\ Len(rest) <= n /\ Len(w \o rest) <= n
      /\ \A i \in DOMAIN rest : rest[i].id = n - Len(rest) + i
      /\ \A i \in DOMAIN w : w[i].id = n - Len(w \o rest) + i
  <2>1. /\ Len(w \o rest) <= n
        /\ \A i \in DOMAIN (w \o rest) : (w \o rest)[i].id = n - Len(w \o rest) + i
    BY DEF StreamOf, Pending
  <2> HIDE DEF w, rest, n
  <2> QED
    BY <1>1, <2>1, TailOfPending
<1>5. /\ LastSent(c) <= n - Len(w \o rest)
      /\ LastSent(c) = n - Len(w \o rest) \/ compression[c] \/ netClosed[c]
  BY DEF StreamOf, Pending
<1> HIDE DEF rest
<1>6. Len(w) \in Nat \ {0} /\ Len(rest) \in Nat /\ DOMAIN w = 1 .. Len(w)
  BY <1>1
<1>7. CASE netClosed[c] /\ UNCHANGED written
  <2>1. LastSent(c)' = LastSent(c)
    BY <1>7 DEF LastSent
  <2>2. LastSent(c) <= n - Len(rest)
    BY <1>1, <1>4, <1>5, <1>6
  <2> QED
    BY <1>2, <1>3, <1>4, <1>7, <2>1, <2>2 DEF StreamOf
<1>8. CASE ~netClosed[c] /\ written' = [written EXCEPT ![c] = written[c] \o ids]
  <2> DEFINE first == n - Len(w \o rest) + 1
             last == n - Len(rest)
  <2>1. first \in Nat /\ last \in Nat /\ last - first + 1 = Len(w) /\ first <= last /\ last <= n
          /\ LastSent(c) + 1 <= first
    <3> DEFINE all == Len(w \o rest)
    <3>1. /\ all = Len(w) + Len(rest) /\ all <= n /\ n \in Nat /\ LastSent(c) \in Nat
          /\ Len(w) \in Nat \ {0} /\ Len(rest) \in Nat /\ LastSent(c) <= n - all
      BY <1>1, <1>4, <1>5, <1>6
    <3> HIDE DEF all, n, w
    <3>2. all \in Nat
      BY <3>1
    <3>3. last = n - Len(rest) /\ first = n - all + 1
      BY DEF all
    <3> HIDE DEF first, last
    <3> QED
      BY <3>1, <3>2, <3>3
  <2>2. ids = Sent!Interval(first, last)
    <3>1. ASSUME NEW k \in 1 .. Len(w) PROVE w[k].id = first + k - 1
      <4>1. w[k].id = n - Len(w \o rest) + k
        BY <1>4, <1>6
      <4>2. n - Len(w \o rest) \in Nat
        BY <1>1, <1>4, <1>6
      <4> QED
        BY <4>1, <4>2
    <3> HIDE DEF w, first, last
    <3> QED
      BY <1>6, <2>1, <3>1 DEF Sent!Interval
  <2>3. ids \in Seq(Nat) /\ Len(ids) = Len(w) /\ ids[Len(w)] = last
    <3>1. ids \in Seq(Nat)
      BY <1>1, WrittenType
    <3>2. ids[Len(w)] = w[Len(w)].id /\ DOMAIN ids = 1 .. Len(w)
      BY <1>6
    <3>3. Len(ids) = Len(w)
      <4> HIDE DEF ids
      <4> QED
        BY <1>6, <3>1, <3>2
    <3>4. w[Len(w)].id = n - Len(w \o rest) + Len(w)
      BY <1>4, <1>6
    <3>5. n - Len(w \o rest) + Len(w) = n - Len(rest)
      <4> DEFINE a == Len(w)
                 b == Len(rest)
                 s == Len(w \o rest)
      <4>1. a \in Nat /\ b \in Nat /\ n \in Nat /\ s = a + b
        BY <1>1, <1>4, <1>6
      <4> HIDE DEF a, b, s, n
      <4>2. n - s + a = n - b
        BY <4>1
      <4> QED
        BY <4>2 DEF a, b, s
    <3>6. ids[Len(w)] = last
      BY <3>2, <3>4, <3>5
    <3> HIDE DEF ids, last
    <3> QED
      BY <3>1, <3>3, <3>6
  <2>4. written'[c] = written[c] \o ids
    BY <1>1, <1>8 DEF CoreInv, TypeInv
  <2>5. LastSent(c)' = last
    <3>1. /\ Len(written'[c]) = Len(written[c]) + Len(w) /\ written'[c] # <<>>
          /\ written'[c][Len(written[c]) + Len(w)] = ids[Len(w)]
      <4> HIDE DEF ids, w
      <4>1. Len(written[c] \o ids) = Len(written[c]) + Len(ids)
        <5>1. \A s, t \in Seq(Nat) : Len(s \o t) = Len(s) + Len(t)
          OBVIOUS
        <5>2. written[c] \in Seq(Nat) /\ ids \in Seq(Nat)
          BY <1>1, <2>3
        <5> QED
          BY <5>1, <5>2
      <4>2. Len(written[c]) \in Nat /\ Len(w) \in 1 .. Len(ids)
        BY <1>1, <1>6, <2>3
      <4>3. (written[c] \o ids)[Len(written[c]) + Len(w)] = ids[Len(w)]
        <5>1. \A s, t \in Seq(Nat) : \A i \in 1 .. Len(t) : (s \o t)[Len(s) + i] = t[i]
          OBVIOUS
        <5>2. written[c] \in Seq(Nat) /\ ids \in Seq(Nat)
          BY <1>1, <2>3
        <5> QED
          BY <5>1, <5>2, <4>2
      <4>4. Len(written'[c]) = Len(written[c]) + Len(w) /\ Len(written'[c]) > 0
        BY <2>3, <2>4, <4>1, <4>2
      <4>5. written'[c] # <<>>
        BY <4>4
      <4> QED
        BY <2>4, <4>3, <4>4, <4>5
    <3> HIDE DEF ids, last
    <3> QED
      BY <2>3, <3>1 DEF LastSent
  <2>6. StreamOf(c)'
    <3>1. LastSent(c)' = accepted'[c] - Len(rest)
      BY <1>2, <2>5
    <3>2. accepted'[c] - Len(rest) <= accepted'[c] - Len(rest)
      BY <1>1, <1>2, <1>6
    <3> QED
      BY <1>2, <1>3, <1>4, <3>1, <3>2 DEF StreamOf
  <2>7. Sent!Deliver(c)
    <3>1. Sent!LastDelivered(c) = LastSent(c)
      BY DEF Sent!LastDelivered, LastSent
    <3>2. first \in LastSent(c) + 1 .. accepted[c] /\ last \in first .. accepted[c]
      BY <1>1, <2>1
    <3>3. first = LastSent(c) + 1 \/ compression[c]
      BY <1>1, <1>4, <1>5, <1>6, <1>8
    <3>4. written' = [written EXCEPT ![c] = @ \o Sent!Interval(first, last)]
      BY <1>8, <2>2
    <3> HIDE DEF first, last
    <3> QED
      BY <1>2, <3>1, <3>2, <3>3, <3>4 DEF Sent!Deliver
  <2> QED
    BY <2>6, <2>7
<1> QED
  BY <1>2, <1>7, <1>8

\* A message put in sendQueue follows the pending ones.
LEMMA PutOne ==
  ASSUME CoreInv, NEW c \in Conns, StreamOf(c), NEW m \in SentMessage, m.id = accepted[c] + 1,
         sendq'[c] = Enqueued(sendq[c], m), accepted'[c] = accepted[c] + 1,
         UNCHANGED <<written, writing, compression, netClosed>>
  PROVE  StreamOf(c)'
<1>1. /\ writing[c] \in Seq(SentMessage) /\ sendq[c].kept \in Seq(SentMessage)
      /\ sendq[c].queue \in Seq(SentMessage) /\ Pending(c) \in Seq(SentMessage)
      /\ accepted[c] \in Nat /\ LastSent(c) \in Nat /\ sendq[c] \in Queues
  BY PendingType DEF CoreInv
<1>2. sendq'[c].kept = sendq[c].kept /\ sendq'[c].queue = Append(sendq[c].queue, m)
  BY <1>1 DEF Enqueued, Queues
<1>3. Pending(c)' = Append(Pending(c), m)
  <2>1. ASSUME NEW s \in Seq(SentMessage), NEW t \in Seq(SentMessage)
        PROVE  s \o Append(t, m) = Append(s \o t, m)
    <3>1. /\ Len(s \o Append(t, m)) = Len(Append(s \o t, m))
          /\ \A i \in 1 .. Len(s) + Len(t) + 1 : (s \o Append(t, m))[i] = Append(s \o t, m)[i]
          /\ s \o Append(t, m) \in Seq(SentMessage) /\ Append(s \o t, m) \in Seq(SentMessage)
          /\ Len(Append(s \o t, m)) = Len(s) + Len(t) + 1
      OBVIOUS
    <3> QED
      BY <3>1, SeqEqual
  <2>2. Pending(c)' = writing[c] \o (sendq[c].kept \o Append(sendq[c].queue, m))
    BY <1>2 DEF Pending
  <2>3. sendq[c].kept \o Append(sendq[c].queue, m) = Append(sendq[c].kept \o sendq[c].queue, m)
    BY <1>1, <2>1
  <2>4. sendq[c].kept \o sendq[c].queue \in Seq(SentMessage)
    BY <1>1
  <2>5. writing[c] \o Append(sendq[c].kept \o sendq[c].queue, m)
          = Append(writing[c] \o (sendq[c].kept \o sendq[c].queue), m)
    BY <1>1, <2>1, <2>4
  <2> QED
    BY <2>2, <2>3, <2>5 DEF Pending
<1> DEFINE P == Pending(c)
           n == accepted[c]
<1>4. /\ \A i \in 1 .. Len(P) : P[i].id = n - Len(P) + i
      /\ Len(P) <= n /\ LastSent(c) <= n - Len(P)
      /\ LastSent(c) = n - Len(P) \/ compression[c] \/ netClosed[c]
      /\ Len(P) \in Nat /\ n \in Nat
  BY <1>1 DEF StreamOf
<1>5. LastSent(c)' = LastSent(c)
  BY DEF LastSent
<1>6. P' = Append(P, m) /\ n' = n + 1 /\ P \in Seq(SentMessage)
  BY <1>1, <1>3
<1>7. /\ Len(P') = Len(P) + 1 /\ DOMAIN P' = 1 .. Len(P) + 1
      /\ \A i \in 1 .. Len(P) : P'[i] = P[i]
      /\ P'[Len(P) + 1] = m
  <2> HIDE DEF P
  <2> QED
    BY <1>6
<1>8. m.id = n + 1
  OBVIOUS
<1> HIDE DEF P, n
<1>9. \A i \in DOMAIN P' : P'[i].id = n' - Len(P') + i
  <2> SUFFICES ASSUME NEW i \in 1 .. Len(P) + 1 PROVE P'[i].id = n' - Len(P') + i
    BY <1>7
  <2>1. CASE i = Len(P) + 1
    BY <1>4, <1>6, <1>7, <1>8, <2>1
  <2>2. CASE i \in 1 .. Len(P)
    BY <1>4, <1>6, <1>7, <2>2
  <2> QED
    BY <1>4, <2>1, <2>2
<1>10. n' - Len(P') = n - Len(P) /\ Len(P') <= n'
  BY <1>4, <1>6, <1>7
<1> QED
  BY <1>4, <1>5, <1>9, <1>10 DEF StreamOf, P, n

\* Send accepts one message, or none.
LEMMA PutStream ==
  ASSUME CoreInv, StreamInv, NEW p \in Procs, PutSend(p)
  PROVE  /\ StreamInv'
         /\ UNCHANGED accepted \/ \E c \in Conns : accepted' = [accepted EXCEPT ![c] = @ + 1]
<1> DEFINE M(c) == [id |-> accepted[c] + 1, size |-> job[p].size]
<1>1. /\ UNCHANGED <<written, writing, compression, netClosed>>
      /\ job[p].sendTo \in Conns /\ job[p].size \in Nat
  <2>1. job[p] \in Jobs /\ job[p].sendTo # Nobody
    BY DEF PutSend, CoreInv, TypeInv
  <2> QED
    BY <2>1 DEF PutSend, Jobs, net
<1>2. \/ UNCHANGED <<sendq, accepted>>
      \/ \E c \in Conns : /\ sendq' = [sendq EXCEPT ![c] = Enqueued(sendq[c], M(c))]
                          /\ accepted' = [accepted EXCEPT ![c] = accepted[c] + 1]
  BY <1>1 DEF PutSend
<1>3. CASE UNCHANGED <<sendq, accepted>>
  BY <1>1, <1>3 DEF StreamInv, StreamOf, Pending, LastSent
<1>4. ASSUME NEW c \in Conns, sendq' = [sendq EXCEPT ![c] = Enqueued(sendq[c], M(c))],
             accepted' = [accepted EXCEPT ![c] = accepted[c] + 1]
      PROVE  StreamInv'
  <2>1. /\ sendq'[c] = Enqueued(sendq[c], M(c)) /\ accepted'[c] = accepted[c] + 1
        /\ \A d \in Conns \ {c} : sendq'[d] = sendq[d] /\ accepted'[d] = accepted[d]
    BY <1>4 DEF CoreInv, TypeInv
  <2>2. ASSUME NEW d \in Conns, d # c PROVE StreamOf(d)'
    <3>1. Pending(d)' = Pending(d)
      BY <1>1, <2>1, <2>2 DEF Pending
    <3> QED
      BY <1>1, <2>1, <2>2, <3>1, StreamKept DEF StreamInv
  <2>3. M(c) \in SentMessage /\ M(c).id = accepted[c] + 1
    BY <1>1 DEF CoreInv, TypeInv, SentMessage
  <2> HIDE DEF M
  <2>4. StreamOf(c)'
    BY <1>1, <2>1, <2>3, PutOne DEF StreamInv
  <2> QED
    BY <2>2, <2>4 DEF StreamInv
<1> QED
  BY <1>2, <1>3, <1>4

\* The steps that leave the streams alone, and only may close or compress.
LEMMA StreamElsewhere ==
  ASSUME StreamInv, UNCHANGED <<accepted, written, writing>>,
         \A c \in Conns : /\ sendq'[c].kept = sendq[c].kept /\ sendq'[c].queue = sendq[c].queue
                          /\ compression[c] => compression'[c]
                          /\ netClosed[c] => netClosed'[c]
  PROVE  StreamInv' /\ Sent!Next
<1>1. ASSUME NEW c \in Conns PROVE StreamOf(c)'
  <2>1. Pending(c)' = Pending(c)
    BY DEF Pending
  <2> QED
    BY <2>1, StreamKept DEF StreamInv
<1>2. Sent!Next
  BY DEF Sent!Next, Sent!Loses
<1> QED
  BY <1>1, <1>2 DEF StreamInv

\* Every step of a connection is a step of the stream, or leaves it alone.
LEMMA StreamStep ==
  ASSUME ConnectionAssumption, CoreInv, StreamInv, Next
  PROVE  StreamInv' /\ Sent!Next
<1>0. sendq \in [Conns -> Queues] /\ compression \in [Conns -> BOOLEAN]
        /\ netClosed \in [Conns -> BOOLEAN]
  BY DEF CoreInv, TypeInv
<1>1. ASSUME UNCHANGED <<accepted, written, writing, sendq, compression, netClosed>>
      PROVE  StreamInv' /\ Sent!Next
  BY <1>1, StreamElsewhere
<1>2. ASSUME NEW c \in Conns, Collect(c) PROVE StreamInv' /\ Sent!Next
  <2>1. \A d \in Conns : StreamOf(d)'
    BY <1>2, CollectStream DEF StreamInv
  <2>2. UNCHANGED <<accepted, written, compression>>
    BY <1>2 DEF Collect, sendHist
  <2> QED
    BY <2>1, <2>2 DEF StreamInv, Sent!Next, Sent!Loses
<1>3. ASSUME NEW c \in Conns, Write(c) PROVE StreamInv' /\ Sent!Next
  <2>1. /\ StreamOf(c)' /\ (UNCHANGED written \/ Sent!Deliver(c))
        /\ UNCHANGED <<accepted, compression, netClosed, sendq>>
    BY <1>3, WriteStream DEF StreamInv, Write, net
  <2>2. ASSUME NEW d \in Conns \ {c} PROVE StreamOf(d)'
    <3>1. writing'[d] = writing[d] /\ written'[d] = written[d]
      BY <1>3 DEF Write, CoreInv, TypeInv
    <3>2. Pending(d)' = Pending(d)
      BY <2>1, <3>1 DEF Pending
    <3> QED
      BY <2>1, <3>1, <3>2, StreamKept DEF StreamInv
  <2>3. StreamInv'
    BY <2>1, <2>2 DEF StreamInv
  <2>4. (\E x \in Conns : Sent!Accept(x) \/ Sent!Deliver(x)) \/ UNCHANGED <<accepted, written>>
    BY <2>1
  <2>5. Sent!Loses
    BY <2>1 DEF Sent!Loses
  <2> QED
    BY <2>3, <2>4, <2>5 DEF Sent!Next
<1>4. ASSUME NEW p \in Procs, PutSend(p) PROVE StreamInv' /\ Sent!Next
  <2>1. UNCHANGED <<written, compression>>
    BY <1>4 DEF PutSend
  <2>2. StreamInv' /\ (UNCHANGED accepted
          \/ \E c \in Conns : accepted' = [accepted EXCEPT ![c] = @ + 1])
    BY <1>4, PutStream
  <2> QED
    BY <2>1, <2>2 DEF Sent!Next, Sent!Loses, Sent!Accept
<1>5. ASSUME NEW p \in Procs, StoreClosing(p) PROVE StreamInv' /\ Sent!Next
  <2>1. /\ UNCHANGED <<accepted, written, writing, sendq, compression>>
        /\ netClosed' = [netClosed EXCEPT ![job[p].conn] = TRUE]
    BY <1>5 DEF StoreClosing, sending, sendHist
  <2>2. \A c \in Conns : netClosed[c] => netClosed'[c]
    BY <1>0, <2>1
  <2> QED
    BY <2>1, <2>2, StreamElsewhere
<1>6. ASSUME NEW p \in Procs, FinishClose(p) PROVE StreamInv' /\ Sent!Next
  <2>1. /\ UNCHANGED <<accepted, written, writing, netClosed, compression>>
        /\ UNCHANGED sendq \/ sendq' = [sendq EXCEPT ![job[p].conn].closed = TRUE]
    BY <1>6 DEF FinishClose, net, sendHist
  <2>2. \A c \in Conns : sendq'[c].kept = sendq[c].kept /\ sendq'[c].queue = sendq[c].queue
    <3>1. \A q \in Queues : [q EXCEPT !.closed = TRUE].kept = q.kept
                            /\ [q EXCEPT !.closed = TRUE].queue = q.queue
      BY DEF Queues
    <3>2. \A c \in Conns : sendq'[c] \in {sendq[c], [sendq[c] EXCEPT !.closed = TRUE]}
      BY <1>0, <2>1
    <3> QED
      BY <1>0, <3>1, <3>2
  <2> QED
    BY <2>1, <2>2, StreamElsewhere
<1>7. ASSUME NEW c \in Conns, ReadPacket(c) PROVE StreamInv' /\ Sent!Next
  <2>1. UNCHANGED <<accepted, written, writing, sendq, netClosed>>
    BY <1>7 DEF ReadPacket, sending, sendHist, net
  <2>2. UNCHANGED compression
        \/ \E x : compression' = [compression EXCEPT ![c] = compression[c] \/ x]
    BY <1>7 DEF ReadPacket
  <2>3. \A d \in Conns : compression[d] => compression'[d]
    <3>1. CASE UNCHANGED compression
      BY <3>1
    <3>2. ASSUME NEW x, compression' = [compression EXCEPT ![c] = compression[c] \/ x],
                 NEW d \in Conns,
                 compression[d]
          PROVE  compression'[d]
      <4>1. CASE d = c
        <5>1. compression'[d] = (compression[d] \/ x)
          BY <1>0, <3>2, <4>1
        <5> QED
          BY <3>2, <5>1, Zenon
      <4>2. CASE d # c
        BY <1>0, <3>2, <4>2
      <4> QED
        BY <4>1, <4>2
    <3> QED
      BY <2>2, <3>1, <3>2
  <2> QED
    BY <2>1, <2>3, StreamElsewhere
<1>8. ASSUME HandleMessage PROVE StreamInv' /\ Sent!Next
  <2>1. UNCHANGED <<accepted, written, writing, sendq, compression>>
    BY <1>8 DEF HandleMessage, sending, sendHist
  <2>2. UNCHANGED netClosed \/ \E c : netClosed' = [netClosed EXCEPT ![c] = TRUE]
    <3>1. ASSUME NEW c, NEW m, HandleUser(c, m) \/ HandleAuth(c, m) PROVE UNCHANGED netClosed
      BY <3>1 DEF HandleUser, HandleAuth
    <3>2. ASSUME NEW c, NEW m, HandleDisconnect(c, m)
          PROVE  UNCHANGED netClosed \/ netClosed' = [netClosed EXCEPT ![m.to] = TRUE]
      BY <3>2 DEF HandleDisconnect
    <3> QED
      BY <1>8, <3>1, <3>2 DEF HandleMessage
  <2>3. \A c \in Conns : netClosed[c] => netClosed'[c]
    BY <1>0, <2>2
  <2> QED
    BY <2>1, <2>3, StreamElsewhere
<1>9. ASSUME NEW c \in Conns,
             \/ Accept(c) \/ HangUp(c) \/ Expire(c) \/ Read(c) \/ ReadEnds(c)
             \/ ReceiveMessage(c) \/ CheckUnauth(c)
      PROVE  StreamInv' /\ Sent!Next
  BY <1>1, <1>9
  DEF Accept, HangUp, Expire, Read, ReadEnds, ReceiveMessage, CheckUnauth, net, sending, sendHist
<1>10. ASSUME NEW k \in 1 .. MaxAuths,
              \/ DoAuth(k) \/ Authenticate(k) \/ OnAuthenticated(k) \/ Reply(k) \/ ReadCounter(k)
              \/ WriteCounter(k)
       PROVE  StreamInv' /\ Sent!Next
  BY <1>1, <1>10 DEF DoAuth, Authenticate, OnAuthenticated, Reply, ReadCounter, WriteCounter,
    net, sending, sendHist
<1>11. ASSUME BanUnauth PROVE StreamInv' /\ Sent!Next
  BY <1>1, <1>11 DEF BanUnauth, net, sending, sendHist
<1> QED
  BY <1>2, <1>3, <1>4, <1>5, <1>6, <1>7, <1>8, <1>9, <1>10, <1>11 DEF Next

\* Both start empty.
LEMMA StreamInit ==
  ASSUME ConnectionAssumption, Init
  PROVE  StreamInv /\ Sent!Init
<1>1. ASSUME NEW c \in Conns PROVE StreamOf(c)
  <2>1. writing[c] = <<>> /\ sendq[c].kept = <<>> /\ sendq[c].queue = <<>> /\ accepted[c] = 0
          /\ written[c] = <<>>
    BY DEF Init, NewQueue
  <2>2. Pending(c) = <<>>
    BY <2>1 DEF Pending
  <2>3. DOMAIN Pending(c) = {} /\ Len(Pending(c)) = 0 /\ LastSent(c) = 0
    BY <2>1, <2>2 DEF LastSent
  <2> QED
    BY <2>1, <2>3 DEF StreamOf
<1>2. Sent!Init
  BY DEF Init, Sent!Init
<1> QED
  BY <1>1, <1>2 DEF StreamInv

\* What Send accepts is written in its order, none twice, and none left out before a
\* compressed packet was too large: every step of Connection implements one of MessageStream
\* (Send, flush and oversizedMsgPack, connection.go).
THEOREM SendIsAStream == Spec => SentIsStream
<1> DEFINE Inv == CoreInv /\ StreamInv
<1>1. ConnectionAssumption /\ SendQueueAssumption /\ FramingAssumption
  BY ConnectionAssumption, SendQueueAssumption, FramingAssumption
<1>2. Init => Inv /\ Sent!Init
  BY <1>1, CoreInit, StreamInit
<1>3. Inv /\ [Next]_vars => Inv' /\ [Sent!Next]_Sent!vars
  <2>1. ASSUME Inv, Next PROVE Inv' /\ Sent!Next
    BY <1>1, <2>1, CoreStep, StreamStep
  <2>2. ASSUME Inv, UNCHANGED vars PROVE Inv' /\ UNCHANGED Sent!vars
    <3>1. CoreInv'
      BY <1>1, <2>2, CoreStep
    <3>2. StreamInv' /\ UNCHANGED Sent!vars
      BY <2>2 DEF vars, net, sending, sendHist, StreamInv, StreamOf, Pending, LastSent, Sent!vars
    <3> QED
      BY <3>1, <3>2
  <2> QED
    BY <2>1, <2>2
<1> QED
  BY <1>2, <1>3, PTL DEF Spec, SentIsStream, Sent!Spec
=============================================================================

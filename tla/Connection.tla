----------------------------- MODULE Connection -----------------------------
(***************************************************************************)
(* Connections: packets received and put together again, authentication,   *)
(* the messages handled by the GLOBAL channel, the messages sent, and      *)
(* Close.  The goroutines (processes) are, for each connection, one that   *)
(* receives and one that flushes; that of the GLOBAL channel; one for each *)
(* authentication in progress; and checkUnauthConns.  Any of them may      *)
(* close a connection or wait for room in its sendQueue.                   *)
(*                                                                         *)
(* One server connection, Owner, has been authenticated and possesses the  *)
(* GLOBAL channel; the peers of a scenario connect, send the packets the   *)
(* scenario gives them and may hang up.  A message of a client goes to     *)
(* Owner, a message of Owner to the client it names, an AUTH message leads *)
(* to a result for its sender and for Owner.                               *)
(***************************************************************************)
EXTENDS SendQueue, FiniteSets

CONSTANTS
  Clients, Owner, Nobody,
  IPs, IPOf,        \* the address of each connection
  Pits, NoPit,      \* player identifier tokens; NoPit is the empty string
  WebSockets,       \* the connections over WebSocket: a message is read as a whole
  ClientFsm, ServerFsm,   \* the message types allowed in each state, in their order
  MaxFailedAuthAttempts, MaxFsmDisallowed,
  MaxAuths,         \* bound: authentications in progress in one behaviour
  Scenarios         \* bound: what the peers do

Conns == Clients \cup {Owner}
Types == {"AUTH", "USER", "DISCONNECT"}
Results == {"SUCCESSFUL", "INVALID_LT", "INVALID_PIT", "error"}

\* result is what DoAuth finds; to is the connection named in the message.
ClientMessage ==
  [type : Types, size : Nat, pit : Pits, result : Results, to : Conns \cup {Nobody}]
Contents == {"ok", "malformed", "undecodable"}
Packets ==
  [tag : BOOLEAN, content : Contents, snappy : BOOLEAN, size : Nat \ {0}, messages : Seq(ClientMessage)]

ASSUME ConnectionAssumption ==
  /\ Owner \notin Clients /\ Nobody \notin Conns
  /\ IPOf \in [Conns -> IPs] /\ NoPit \in Pits /\ WebSockets \subseteq Conns
  /\ ClientFsm \in Seq(SUBSET Types) /\ ClientFsm # <<>>
  /\ ServerFsm \in Seq(SUBSET Types) /\ Len(ServerFsm) > 1
  /\ MaxFailedAuthAttempts \in Nat \ {0} /\ MaxFsmDisallowed \in Nat \ {0} /\ MaxAuths \in Nat
  /\ \A s \in Scenarios :
       /\ s.peers \subseteq Conns /\ Owner \in s.peers
       /\ s.hangups \subseteq Conns /\ s.stalled \subseteq Conns
       /\ s.slow \subseteq Clients /\ s.cut \subseteq Conns \ WebSockets
       /\ s.packets \in [Conns -> Seq(Packets)]
       /\ \A c \in Conns : \A n \in DOMAIN s.packets[c] :
            LET p == s.packets[c][n] IN
              /\ p.size <= MaxPacketSize
              /\ p.content = "undecodable" => p.snappy
              /\ p.content = "ok" => p.messages # <<>>

VARIABLES
  scenario,
  state,         \* "NONE" before the connection is accepted
  netClosed,     \* conn.Close() has been called
  hungUp,        \* the peer has closed its end
  allConnections, unauthenticated,          \* the tables
  wire,          \* how many bytes of the peer have been read
  reader,        \* readBuffer, readPos, bufPos
  compression,   \* compressionType is SNAPPY
  fsm, disallowed, pit,
  sendq,         \* sendQueue and oversizedMsgPack
  writing,       \* the packet flush has taken from sendq
  expired,       \* ConnectionAuthTimeoutMs have passed since connTime
  globalQueue,   \* inMsgQueue of the GLOBAL channel
  job,           \* per process: what it is about to do
  auths,         \* how many authentications have been started
  ipBlacklist, pitBlacklist, failedAuths,
  panicked,      \* what ended the program: "no", "send" or "map"
  \* history variables, read by properties only
  received, accepted, written,   \* per connection: messages received, put in sendq, written
  wasAuthenticated, attempts, overlapped

tables    == <<allConnections, unauthenticated>>
receiving == <<wire, reader>>
session   == <<fsm, disallowed, pit>>
sending   == <<sendq, writing>>
bans      == <<ipBlacklist, pitBlacklist, failedAuths>>
authHist  == <<wasAuthenticated, attempts, overlapped>>
sendHist  == <<accepted, written>>
net       == <<netClosed, hungUp>>
vars == <<scenario, state, net, tables, receiving, compression, session, sending, expired,
          globalQueue, job, auths, bans, panicked, received, sendHist, authHist>>

Recv(c) == <<"recv", c>>
AuthGo(k) == <<"auth", k>>
Global == <<"global", 0>>
Checker == <<"checker", 0>>
Procs == {Recv(c) : c \in Conns} \cup {AuthGo(k) : k \in 1 .. MaxAuths} \cup {Global, Checker}

NoMessage == [type |-> "USER", size |-> 0, pit |-> NoPit, result |-> "error", to |-> Nobody]
Idle == [at |-> "idle", conn |-> Nobody, msg |-> NoMessage, next |-> 0,
         close |-> "no", sendTo |-> Nobody, size |-> 0]

IsClosing(c) == state[c] = "CLOSING"
Running == panicked = "no"
Stream(c) == scenario.packets[c]
BytesLeft(c) == Bytes(Stream(c)) - wire[c]

\* A process goes on only when it has left Close and Send.
Free(p) == Running /\ job[p].close = "no" /\ job[p].sendTo = Nobody
At(p, label) == Free(p) /\ job[p].at = label
Goes(p, label) == [job[p] EXCEPT !.at = label]

\* What the job becomes when it calls Close(c), or Send to c: neither does
\* anything for a connection that is closing.
CallsClose(j, c) == IF IsClosing(c) THEN j ELSE [j EXCEPT !.close = "begun", !.conn = c]
CallsSend(j, c, size) ==
  IF IsClosing(c) \/ ~Sendable(size) THEN j ELSE [j EXCEPT !.sendTo = c, !.size = size]

\* Owner has been accepted and authenticated.
Init ==
  /\ scenario \in Scenarios
  /\ state = [c \in Conns |-> IF c = Owner THEN "AUTHENTICATED" ELSE "NONE"]
  /\ netClosed = [c \in Conns |-> FALSE] /\ hungUp = [c \in Conns |-> FALSE]
  /\ allConnections = {Owner} /\ unauthenticated = {}
  /\ wire = [c \in Conns |-> 0] /\ reader = [c \in Conns |-> NewReader]
  /\ compression = [c \in Conns |-> FALSE]
  /\ fsm = [c \in Conns |-> IF c = Owner THEN 2 ELSE 1]
  /\ disallowed = [c \in Conns |-> 0] /\ pit = [c \in Conns |-> NoPit]
  /\ sendq = [c \in Conns |-> NewQueue] /\ writing = [c \in Conns |-> <<>>]
  /\ expired = {} /\ globalQueue = <<>> /\ auths = 0
  /\ job = [p \in Procs |-> IF p = Recv(Owner) THEN [Idle EXCEPT !.at = "read"] ELSE Idle]
  /\ ipBlacklist = {} /\ pitBlacklist = {} /\ failedAuths = [k \in Pits \cup IPs |-> 0]
  /\ panicked = "no"
  /\ received = [c \in Conns |-> <<>>] /\ accepted = [c \in Conns |-> 0]
  /\ written = [c \in Conns |-> <<>>] /\ wasAuthenticated = {Owner}
  /\ attempts = [k \in Pits \cup IPs |-> 0] /\ overlapped = {}
-----------------------------------------------------------------------------
(* The network and the clock.                                              *)

\* StartListening (which refuses a banned address; startWebSocketServer does not),
\* AddConnection and startGoroutines.
Accept(c) ==
  /\ Running /\ c \in scenario.peers /\ state[c] = "NONE"
  /\ c \in WebSockets \/ IPOf[c] \notin ipBlacklist
  /\ state' = [state EXCEPT ![c] = "UNAUTHENTICATED"]
  /\ allConnections' = allConnections \cup {c}
  /\ unauthenticated' = unauthenticated \cup {c}
  /\ job' = [job EXCEPT ![Recv(c)].at = "read"]
  /\ UNCHANGED <<scenario, net, receiving, compression, session, sending, expired,
                 globalQueue, auths, bans, panicked, received, sendHist, authHist>>

HangUp(c) ==
  /\ Running /\ c \in scenario.hangups
  /\ state[c] # "NONE" /\ ~hungUp[c]
  /\ hungUp' = [hungUp EXCEPT ![c] = TRUE]
  /\ UNCHANGED <<scenario, state, netClosed, tables, receiving, compression, session, sending,
                 expired, globalQueue, job, auths, bans, panicked, received, sendHist, authHist>>

Expire(c) ==
  /\ Running /\ c \in scenario.slow
  /\ state[c] = "UNAUTHENTICATED" /\ c \notin expired
  /\ expired' = expired \cup {c}
  /\ UNCHANGED <<scenario, state, net, tables, receiving, compression, session, sending,
                 globalQueue, job, auths, bans, panicked, received, sendHist, authHist>>

-----------------------------------------------------------------------------
(* Close: the test, the state and the net.Conn, the queue and the tables.   *)

\* A second Close that has passed the test does this once more.
StoreClosing(p) ==
  /\ Running /\ job[p].close = "begun"
  /\ LET c == job[p].conn IN
       /\ state' = [state EXCEPT ![c] = "CLOSING"]
       /\ netClosed' = [netClosed EXCEPT ![c] = TRUE]
  /\ job' = [job EXCEPT ![p].close = "stored"]
  /\ UNCHANGED <<scenario, hungUp, tables, receiving, compression, session, sending,
                 expired, globalQueue, auths, bans, panicked, received, sendHist, authHist>>

\* Mutant of FinishClose: the table of unauthenticated connections is not cleared.
FinishCloseKeeps(p) ==
  /\ Running /\ job[p].close = "stored"
  /\ sendq' = [sendq EXCEPT ![job[p].conn].closed = TRUE]
  /\ allConnections' = allConnections \ {job[p].conn} /\ UNCHANGED unauthenticated
  /\ job' = [job EXCEPT ![p].close = "no"]
  /\ UNCHANGED <<scenario, state, net, receiving, compression, session, writing,
                 expired, globalQueue, auths, bans, panicked, received, sendHist, authHist>>

\* Closing a closed queue panics; Close recovers and leaves the rest out.
FinishClose(p) ==
  /\ Running /\ job[p].close = "stored"
  /\ LET c == job[p].conn IN
       \/ /\ sendq[c].closed /\ UNCHANGED <<sendq, tables>>
       \/ /\ ~sendq[c].closed
          /\ sendq' = [sendq EXCEPT ![c].closed = TRUE]
          /\ allConnections' = allConnections \ {c}
          /\ unauthenticated' = unauthenticated \ {c}
  /\ job' = [job EXCEPT ![p].close = "no"]
  /\ UNCHANGED <<scenario, state, net, receiving, compression, session, writing,
                 expired, globalQueue, auths, bans, panicked, received, sendHist, authHist>>
-----------------------------------------------------------------------------
(* Send and flush.                                                         *)

\* The send to the channel, after the tests of IsClosing: it waits for room, and
\* panics if the channel is, or meanwhile has been, closed.
PutSend(p) ==
  /\ Running /\ job[p].sendTo # Nobody /\ job[p].close = "no"
  /\ LET c == job[p].sendTo IN
       \/ /\ sendq[c].closed
          /\ panicked' = "send"
          /\ UNCHANGED <<sendq, accepted>>
       \/ /\ ~sendq[c].closed /\ HasRoom(sendq[c])
          /\ sendq' = [sendq EXCEPT ![c] =
                         Enqueued(@, [id |-> accepted[c] + 1, size |-> job[p].size])]
          /\ accepted' = [accepted EXCEPT ![c] = @ + 1]
          /\ UNCHANGED panicked
  /\ job' = [job EXCEPT ![p].sendTo = Nobody]
  /\ UNCHANGED <<scenario, state, net, tables, receiving, compression, session, writing,
                 expired, globalQueue, auths, bans, received, written, authHist>>

\* Mutant of Collect: a kept message has to be written on its own, which never happens.
CollectNothingKept(c) ==
  /\ Running /\ state[c] \notin {"NONE", "CLOSING"}
  /\ writing[c] = <<>> /\ sendq[c].queue # <<>> /\ sendq[c].kept = <<>>
  /\ writing' = [writing EXCEPT ![c] = Packet(sendq[c])]
  /\ sendq' = [sendq EXCEPT ![c] = Flushed(@)]
  /\ UNCHANGED <<scenario, state, net, tables, receiving, compression, session, expired,
                 globalQueue, job, auths, bans, panicked, received, sendHist, authHist>>

\* flush: nothing while the queue is empty, even if a message has been kept.  A
\* compressed packet may turn out too large, and is dropped.
Collect(c) ==
  /\ Running /\ state[c] \notin {"NONE", "CLOSING"}
  /\ writing[c] = <<>> /\ sendq[c].queue # <<>>
  /\ \/ writing' = [writing EXCEPT ![c] = Packet(sendq[c])]
     \/ /\ compression[c] /\ SizeOf(Packet(sendq[c])) = MaxPacketSize
        /\ UNCHANGED writing
  /\ sendq' = [sendq EXCEPT ![c] = Flushed(@)]
  /\ UNCHANGED <<scenario, state, net, tables, receiving, compression, session, expired,
                 globalQueue, job, auths, bans, panicked, received, sendHist, authHist>>

\* conn.Write: it waits for a peer that does not read, and fails on a closed net.Conn.
Write(c) ==
  /\ Running /\ writing[c] # <<>>
  /\ \/ netClosed[c] /\ UNCHANGED written
     \/ /\ ~netClosed[c] /\ c \notin scenario.stalled
        /\ written' = [written EXCEPT ![c] = @ \o [k \in DOMAIN writing[c] |-> writing[c][k].id]]
  /\ writing' = [writing EXCEPT ![c] = <<>>]
  /\ UNCHANGED <<scenario, state, net, tables, receiving, compression, session, sendq, expired,
                 globalQueue, job, auths, bans, panicked, received, accepted, authHist>>

-----------------------------------------------------------------------------
(* The receive goroutine.                                                  *)

\* conn.Read: any part of what the peer has sent (where the scenario cuts packets, else
\* up to the end of a packet), or one WebSocket message, which is one packet, cut off
\* where readBuffer ends.
RestOfPacket(c, n) == \E k \in DOMAIN Stream(c) : StartOf(Stream(c), k + 1) = wire[c] + n + 1
ReadCounts(c) ==
  {n \in 1 .. BytesLeft(c) :
     /\ c \notin scenario.cut => RestOfPacket(c, n)
     /\ IF c \in WebSockets THEN \A m \in 1 .. n - 1 : ~RestOfPacket(c, m)
        ELSE n <= Room(reader[c])}

Read(c) ==
  /\ At(Recv(c), "read") /\ ~IsClosing(c) /\ ~netClosed[c]
  /\ \E n \in ReadCounts(c) :
       LET fit == IF n <= Room(reader[c]) THEN n ELSE Room(reader[c]) IN
         /\ wire' = [wire EXCEPT ![c] = @ + n]
         /\ reader' = [reader EXCEPT ![c] = Filled(@, wire[c] + 1, fit)]
  /\ job' = [job EXCEPT ![Recv(c)] =
               Goes(Recv(c), IF reader'[c].readPos < PacketHeaderSize THEN "read" ELSE "parse")]
  /\ UNCHANGED <<scenario, state, net, tables, compression, session, sending, expired,
                 globalQueue, auths, bans, panicked, received, sendHist, authHist>>

\* The loop of the goroutine ends with IsClosing; an error, or the end of the
\* stream, closes the connection.
ReadEnds(c) ==
  /\ At(Recv(c), "read")
  /\ \/ /\ IsClosing(c)
        /\ job' = [job EXCEPT ![Recv(c)] = Goes(Recv(c), "done")]
     \/ /\ ~IsClosing(c)
        /\ netClosed[c] \/ (hungUp[c] /\ BytesLeft(c) = 0 /\ Room(reader[c]) > 0)
        /\ job' = [job EXCEPT ![Recv(c)] = CallsClose(@, c)]
  /\ UNCHANGED <<scenario, state, net, tables, receiving, compression, session, sending, expired,
                 globalQueue, auths, bans, panicked, received, sendHist, authHist>>

\* receive calls readPacket until it takes no packet out.  A wrong tag, and a
\* content that cannot be decompressed, close the connection.  A content that
\* cannot be unmarshalled stays in the buffer.
ReadPacket(c) ==
  LET rd == reader[c]
      n  == PacketAt(Stream(c), rd)
      p  == Stream(c)[n]
      ok == Intact(Stream(c), rd) /\ p.content = "ok"
      EndReceive == /\ reader' = [reader EXCEPT ![c] = MovedToFront(@)]
                    /\ job' = [job EXCEPT ![Recv(c)] = Goes(Recv(c), "read")]
      Compress == compression' = [compression EXCEPT ![c] = @ \/ p.snappy]
  IN
  /\ At(Recv(c), "parse")
  /\ \/ /\ rd.bufPos >= rd.readPos \/ UnfinishedHeader(rd)
        /\ EndReceive /\ UNCHANGED compression
     \/ /\ ~UnfinishedHeader(rd) /\ ReadSize(Stream(c), rd) = 0
        /\ reader' = [reader EXCEPT ![c].readPos = 0]
        /\ job' = [job EXCEPT ![Recv(c)] = CallsClose(Goes(Recv(c), "read"), c)]
        /\ UNCHANGED compression
     \/ /\ ~UnfinishedHeader(rd) /\ ReadSize(Stream(c), rd) # 0
        /\ UnfinishedPacket(Stream(c), rd)
        /\ EndReceive /\ UNCHANGED compression
     \/ /\ ~UnfinishedHeader(rd) /\ ReadSize(Stream(c), rd) # 0
        /\ ~UnfinishedPacket(Stream(c), rd)
        /\ Compress
        /\ \/ /\ ok
              /\ job' = [job EXCEPT ![Recv(c)] = [Goes(Recv(c), "message") EXCEPT !.next = 1]]
              /\ UNCHANGED reader
           \/ /\ ~ok /\ p.content = "undecodable"
              /\ job' = [job EXCEPT ![Recv(c)] = CallsClose(Goes(Recv(c), "read"), c)]
              /\ UNCHANGED reader
           \/ ~ok /\ p.content # "undecodable" /\ EndReceive
  /\ UNCHANGED <<scenario, state, net, tables, wire, session, sending, expired, globalQueue,
                 auths, bans, panicked, received, sendHist, authHist>>

\* Mutant of IsAllowed: every message is, in every state.
IsAllowedAlways(c, m) == TRUE

FsmOf(c) == IF c = Owner THEN ServerFsm ELSE ClientFsm
IsAllowed(c, m) == m.type \in FsmOf(c)[fsm[c]]

\* receiveMessage: the FSM, Event_FsmDisallowed and its listener, PutMessage.
ReceiveMessage(c) ==
  LET p == Recv(c)
      packet == Stream(c)[PacketAt(Stream(c), reader[c])]
      k == job[p].next
      m == packet.messages[k]
      ban == c # Owner /\ disallowed[c] + 1 >= MaxFsmDisallowed
      next == IF k < Len(packet.messages) THEN [job[p] EXCEPT !.next = k + 1]
              ELSE [Goes(p, "parse") EXCEPT !.next = 0]
  IN
  /\ At(p, "message")
  /\ received' = [received EXCEPT ![c] = Append(@, <<PacketAt(Stream(c), reader[c]), k>>)]
  /\ reader' = IF k < Len(packet.messages) THEN reader
               ELSE [reader EXCEPT ![c] = Skipped(Stream(c), @)]
  /\ \/ /\ IsAllowed(c, m)
        /\ globalQueue' = Append(globalQueue, [conn |-> c, msg |-> m])
        /\ job' = [job EXCEPT ![p] = next]
        /\ UNCHANGED <<disallowed, pitBlacklist>>
     \/ /\ ~IsAllowed(c, m)
        /\ disallowed' = IF c = Owner THEN disallowed ELSE [disallowed EXCEPT ![c] = @ + 1]
        /\ pitBlacklist' = IF ban THEN pitBlacklist \cup {pit[c]} ELSE pitBlacklist
        /\ job' = [job EXCEPT ![p] = IF ban THEN CallsClose(next, c) ELSE next]
        /\ UNCHANGED globalQueue
  /\ UNCHANGED <<scenario, state, net, tables, wire, compression, fsm, pit, sending, expired,
                 auths, ipBlacklist, failedAuths, panicked, sendHist, authHist>>
-----------------------------------------------------------------------------
(* The GLOBAL channel handles one message after the other.                 *)

HasOwner == ~IsClosing(Owner)

\* GetConnection finds a connection that is in the table and not closing.
Found(c) == c \in allConnections /\ ~IsClosing(c)

\* handleClientToServerUserMessage; HandleServerToClientUserMessage for a single connection.
HandleUser(c, m) ==
  LET to == IF c = Owner THEN m.to ELSE Owner
      reached == IF c = Owner THEN to # Nobody /\ Found(to) ELSE HasOwner
  IN /\ job' = [job EXCEPT ![Global] = IF reached THEN CallsSend(Idle, to, m.size) ELSE Idle]
     /\ UNCHANGED <<netClosed, auths>>

\* handleDisconnect: Disconnect closes the net.Conn, then Close.
HandleDisconnect(c, m) ==
  /\ IF m.to # Nobody /\ Found(m.to)
     THEN /\ netClosed' = [netClosed EXCEPT ![m.to] = TRUE]
          /\ job' = [job EXCEPT ![Global] = CallsClose(Idle, m.to)]
     ELSE UNCHANGED <<netClosed, job>>
  /\ UNCHANGED auths

\* handleAuth: a banned token closes the connection; else a goroutine asks the provider.
HandleAuth(c, m) ==
  /\ \/ /\ m.pit \in pitBlacklist
        /\ job' = [job EXCEPT ![Global] = CallsClose(Idle, c)]
        /\ UNCHANGED auths
     \/ /\ m.pit \notin pitBlacklist /\ auths < MaxAuths
        /\ auths' = auths + 1
        /\ job' = [job EXCEPT ![AuthGo(auths + 1)] =
                     [Idle EXCEPT !.at = "auth", !.conn = c, !.msg = m]]
  /\ UNCHANGED netClosed

HandleMessage ==
  /\ At(Global, "idle") /\ globalQueue # <<>>
  /\ globalQueue' = Tail(globalQueue)
  /\ LET c == Head(globalQueue).conn
         m == Head(globalQueue).msg
     IN \/ m.type = "USER" /\ HandleUser(c, m)
        \/ m.type = "DISCONNECT" /\ HandleDisconnect(c, m)
        \/ m.type = "AUTH" /\ HandleAuth(c, m)
  /\ UNCHANGED <<scenario, state, hungUp, tables, receiving, compression, session, sending,
                 expired, bans, panicked, received, sendHist, authHist>>

-----------------------------------------------------------------------------
(* Authentication: a goroutine for each AUTH message, through onAuthComplete. *)

DoAuth(k) ==
  LET p == AuthGo(k)
      m == job[p].msg
      c == job[p].conn
  IN
  /\ At(p, "auth")
  /\ job' = [job EXCEPT ![p] =
       IF m.result = "error" THEN CallsClose(Goes(p, "done"), c)
       ELSE IF IsClosing(c) THEN Goes(p, "done")
       ELSE Goes(p, IF m.result = "SUCCESSFUL" THEN "authenticate" ELSE "reply")]
  /\ UNCHANGED <<scenario, state, net, tables, receiving, compression, session, sending, expired,
                 globalQueue, auths, bans, panicked, received, sendHist, authHist>>

\* OnAuthenticated tests IsClosing once more ...
Authenticate(k) ==
  LET p == AuthGo(k) IN
  /\ At(p, "authenticate")
  /\ job' = [job EXCEPT ![p] = Goes(p, IF IsClosing(job[p].conn) THEN "reply" ELSE "store")]
  /\ UNCHANGED <<scenario, state, net, tables, receiving, compression, session, sending, expired,
                 globalQueue, auths, bans, panicked, received, sendHist, authHist>>

\* MoveToNextState stays in the last state.
NextState(c, n) == IF n < Len(FsmOf(c)) THEN n + 1 ELSE n

\* ... and stores the state, which a Close in between may have made CLOSING.
OnAuthenticated(k) ==
  LET p == AuthGo(k)
      c == job[p].conn
  IN
  /\ At(p, "store")
  /\ state' = [state EXCEPT ![c] = "AUTHENTICATED"]
  /\ unauthenticated' = unauthenticated \ {c}
  /\ pit' = [pit EXCEPT ![c] = job[p].msg.pit]
  /\ fsm' = [fsm EXCEPT ![c] = NextState(c, @)]
  /\ wasAuthenticated' = wasAuthenticated \cup {c}
  /\ job' = [job EXCEPT ![p] = Goes(p, "reply")]
  /\ UNCHANGED <<scenario, net, allConnections, receiving, compression, disallowed, sending,
                 expired, globalQueue, auths, bans, panicked, received, sendHist,
                 attempts, overlapped>>

\* The result is sent to the connection, then to the owner of the GLOBAL channel.
ResultSize == 1

Reply(k) ==
  LET p == AuthGo(k) IN
  /\ \/ /\ At(p, "reply")
        /\ job' = [job EXCEPT ![p] = CallsSend(Goes(p, "tell"), job[p].conn, ResultSize)]
     \/ /\ At(p, "tell")
        /\ job' = [job EXCEPT ![p] = IF HasOwner THEN CallsSend(Goes(p, "event"), Owner, ResultSize)
                                     ELSE Goes(p, "event")]
  /\ UNCHANGED <<scenario, state, net, tables, receiving, compression, session, sending, expired,
                 globalQueue, auths, bans, panicked, received, sendHist, authHist>>

\* The listener of Event_AuthComplete counts what a client failed for: the token,
\* or the address.
Key(p) == IF job[p].msg.result = "INVALID_LT" THEN job[p].msg.pit ELSE IPOf[job[p].conn]
Counting(p) == job[p].at = "count"

ReadCounter(k) ==
  LET p == AuthGo(k)
      counts == job[p].msg.result \in {"INVALID_LT", "INVALID_PIT"} /\ job[p].conn # Owner
  IN
  /\ At(p, "event")
  /\ job' = [job EXCEPT ![p] = IF counts THEN [Goes(p, "count") EXCEPT !.next = failedAuths[Key(p)]]
                               ELSE Goes(p, "done")]
  /\ attempts' = IF counts THEN [attempts EXCEPT ![Key(p)] = @ + 1] ELSE attempts
  /\ overlapped' = IF counts THEN overlapped \cup {Key(p) : q \in {q \in Procs : Counting(q) /\ Key(q) = Key(p)}}
                   ELSE overlapped
  /\ UNCHANGED <<scenario, state, net, tables, receiving, compression, session, sending, expired,
                 globalQueue, auths, bans, panicked, received, sendHist, wasAuthenticated>>

\* Mutant of WriteCounter: one failure more is allowed.
WriteCounterLate(k) ==
  LET p == AuthGo(k)
      n == job[p].next + 1
  IN
  /\ At(p, "count")
  /\ failedAuths' = [failedAuths EXCEPT ![Key(p)] = n]
  /\ pitBlacklist' = pitBlacklist \cup {x \in Pits : x = Key(p) /\ n > MaxFailedAuthAttempts}
  /\ ipBlacklist' = ipBlacklist \cup {x \in IPs : x = Key(p) /\ n > MaxFailedAuthAttempts}
  /\ job' = [job EXCEPT ![p] = IF n > MaxFailedAuthAttempts THEN CallsClose(Goes(p, "done"), @.conn)
                               ELSE Goes(p, "done")]
  /\ UNCHANGED panicked
  /\ UNCHANGED <<scenario, state, net, tables, receiving, compression, session, sending, expired,
                 globalQueue, auths, received, sendHist, authHist>>

\* The map has no lock: the runtime may stop the program when two goroutines write it.
WriteCounter(k) ==
  LET p == AuthGo(k)
      n == job[p].next + 1
      ban == n >= MaxFailedAuthAttempts
  IN
  /\ At(p, "count")
  /\ failedAuths' = [failedAuths EXCEPT ![Key(p)] = n]
  /\ pitBlacklist' = pitBlacklist \cup {x \in Pits : x = Key(p) /\ ban}
  /\ ipBlacklist' = ipBlacklist \cup {x \in IPs : x = Key(p) /\ ban}
  /\ job' = [job EXCEPT ![p] = IF ban THEN CallsClose(Goes(p, "done"), @.conn) ELSE Goes(p, "done")]
  /\ panicked' \in {"no"} \cup {"map" : q \in {q \in Procs \ {p} : Counting(q)}}
  /\ UNCHANGED <<scenario, state, net, tables, receiving, compression, session, sending, expired,
                 globalQueue, auths, received, sendHist, authHist>>

-----------------------------------------------------------------------------
(* checkUnauthConns.                                                       *)

\* Mutant of CheckUnauth: it looks at one address only once.
CheckUnauthOnce(c) ==
  /\ At(Checker, "idle") /\ c \in unauthenticated /\ IPOf[c] \notin ipBlacklist
  /\ state[c] = "UNAUTHENTICATED" /\ c \in expired
  /\ job' = [job EXCEPT ![Checker] = [@ EXCEPT !.at = "ban", !.conn = c]]
  /\ UNCHANGED <<scenario, state, net, tables, receiving, compression, session, sending, expired,
                 globalQueue, auths, bans, panicked, received, sendHist, authHist>>

\* The tests and the actions on what they have found are two steps.
CheckUnauth(c) ==
  /\ At(Checker, "idle") /\ c \in unauthenticated
  /\ state[c] = "UNAUTHENTICATED" /\ c \in expired
  /\ job' = [job EXCEPT ![Checker] = [@ EXCEPT !.at = "ban", !.conn = c]]
  /\ UNCHANGED <<scenario, state, net, tables, receiving, compression, session, sending, expired,
                 globalQueue, auths, bans, panicked, received, sendHist, authHist>>

BanUnauth ==
  /\ At(Checker, "ban")
  /\ ipBlacklist' = ipBlacklist \cup {IPOf[job[Checker].conn]}
  /\ job' = [job EXCEPT ![Checker] = CallsClose(Goes(Checker, "idle"), @.conn)]
  /\ UNCHANGED <<scenario, state, net, tables, receiving, compression, session, sending, expired,
                 globalQueue, auths, pitBlacklist, failedAuths, panicked, received, sendHist, authHist>>
-----------------------------------------------------------------------------
Next ==
  \/ \E c \in Conns :
       Accept(c) \/ HangUp(c) \/ Expire(c) \/ Collect(c) \/ Write(c) \/ Read(c) \/ ReadEnds(c)
         \/ ReadPacket(c) \/ ReceiveMessage(c) \/ CheckUnauth(c)
  \/ \E p \in Procs : StoreClosing(p) \/ FinishClose(p) \/ PutSend(p)
  \/ \E k \in 1 .. MaxAuths :
       DoAuth(k) \/ Authenticate(k) \/ OnAuthenticated(k) \/ Reply(k) \/ ReadCounter(k)
         \/ WriteCounter(k)
  \/ HandleMessage
  \/ BanUnauth

\* Goroutines run on, time passes and the provider answers; whether a peer connects
\* or hangs up is up to it.
Calls(p) == StoreClosing(p) \/ FinishClose(p) \/ PutSend(p)
Fairness ==
  /\ \A c \in Conns :
       /\ WF_vars(Read(c) \/ ReadEnds(c) \/ ReadPacket(c) \/ ReceiveMessage(c) \/ Calls(Recv(c)))
       /\ WF_vars(Collect(c) \/ Write(c))
  /\ \A c \in Clients : WF_vars(Expire(c))
  /\ \A k \in 1 .. MaxAuths :
       WF_vars(DoAuth(k) \/ Authenticate(k) \/ OnAuthenticated(k) \/ Reply(k)
                 \/ ReadCounter(k) \/ WriteCounter(k) \/ Calls(AuthGo(k)))
  /\ WF_vars(HandleMessage \/ Calls(Global))
  /\ WF_vars(BanUnauth \/ Calls(Checker))
  /\ \A c \in Clients : WF_vars(CheckUnauth(c))

Spec == Init /\ [][Next]_vars /\ Fairness
-----------------------------------------------------------------------------
(* Properties.                                                             *)

\* The state variables have their types; readPos stays within readBuffer, the counter
\* of failures and the queue of messages to send within their bounds.
TypeOK ==
  /\ \A c \in Conns :
       /\ state[c] \in {"NONE", "UNAUTHENTICATED", "AUTHENTICATED", "CLOSING"}
       /\ reader[c].bufPos \in 0 .. BufferSize /\ reader[c].readPos \in 0 .. BufferSize
       /\ Len(sendq[c].queue) <= QueueSize /\ Len(sendq[c].kept) <= 1
       /\ fsm[c] \in DOMAIN FsmOf(c)
       /\ SizeOf(writing[c]) <= MaxPacketSize
  /\ allConnections \subseteq Conns /\ unauthenticated \subseteq Clients
  /\ ipBlacklist \subseteq IPs /\ pitBlacklist \subseteq Pits
  /\ panicked \in {"no", "send", "map"}
  /\ \A p \in Procs : /\ job[p].close \in {"no", "begun", "stored"}
                      /\ job[p].sendTo \in Conns \cup {Nobody}

\* The messages put in sendQueue are written in their order, none twice, none left
\* out unless a compressed packet became too large: flush and its kept message
\* (connection.go:627) implement a message stream.
Sent == INSTANCE MessageStream
  WITH Streams <- Conns, accepted <- accepted, delivered <- written, lossy <- compression
SentIsStream == Sent!Spec

\* The messages a peer has sent are received in their order, none twice and none
\* left out, however the bytes arrive: readPacket and readBuffer implement a
\* lossless stream.
Before(c, n) == FoldLeft(LAMBDA sum, p : sum + Len(p.messages), 0, SubSeq(Stream(c), 1, n - 1))
Received == INSTANCE MessageStream
  WITH Streams <- Conns,
       accepted <- [c \in Conns |-> Before(c, Len(Stream(c)) + 1)],
       delivered <- [c \in Conns |->
                       [k \in DOMAIN received[c] |-> Before(c, received[c][k][1]) + received[c][k][2]]],
       lossy <- [c \in Conns |-> FALSE]
ReceivedIsStream == Received!Spec

\* The GLOBAL channel handles nothing but AUTH messages for a connection that has
\* not been authenticated, though the FSM is moved by another goroutine.
NothingBeforeAuthentication ==
  \A n \in DOMAIN globalQueue :
    globalQueue[n].msg.type # "AUTH" => globalQueue[n].conn \in wasAuthenticated

\* A connection that has been closed, when nobody is inside Close any more, is in no
\* table: two Close calls at the same time, the second of which panics, leave nothing.
ClosedIsForgotten ==
  \A c \in Conns :
    sendq[c].closed /\ (\A p \in Procs : job[p].conn # c \/ job[p].close = "no")
      => c \notin allConnections \cup unauthenticated

\* A token, or an address, that has failed MaxFailedAuthAttempts times is banned,
\* unless two goroutines counted its failures at the same time (one is lost then).
FailuresLeadToBan ==
  \A k \in (Pits \cup IPs) \ overlapped :
    /\ attempts[k] >= MaxFailedAuthAttempts
    /\ \A p \in Procs : ~(Counting(p) /\ Key(p) = k)
    => k \in pitBlacklist \cup ipBlacklist

\* What Send has accepted leaves for the peer: the queue and flush run empty, unless
\* the connection is closed, its peer does not read, or the program has ended.  A
\* message kept from the last packet waits for the next message.
AcceptedIsWritten ==
  []<>(\/ ~Running
       \/ \A c \in Conns : \/ sendq[c].queue = <<>> /\ writing[c] = <<>>
                           \/ netClosed[c] \/ c \in scenario.stalled)

\* A connection does not stay unauthenticated for ever: checkUnauthConns finds it,
\* whatever its other goroutines wait for.
UnauthenticatedIsClosed ==
  []<>(~Running \/ \A c \in Conns : state[c] # "UNAUTHENTICATED")

\* All that arrives is handled: the bytes of a connection that gives no reason to close
\* it are all taken out of readBuffer, and the GLOBAL channel finishes its messages;
\* unless it waits for a peer that does not read.
BadPacket(c) == \E n \in DOMAIN Stream(c) : ~Stream(c)[n].tag \/ Stream(c)[n].content # "ok"
MayBeClosed(c) ==
  \/ hungUp[c] \/ c \in expired \/ BadPacket(c) \/ disallowed[c] >= MaxFsmDisallowed
  \/ \E d \in Conns : \E n \in DOMAIN Stream(d) : \E m \in ToSet(Stream(d)[n].messages) :
       m.type = "DISCONNECT" \/ (m.type = "AUTH" /\ m.result # "SUCCESSFUL")
PacketsAreHandled ==
  []<>(\/ ~Running \/ scenario.stalled # {}
       \/ /\ globalQueue = <<>> /\ job[Global].sendTo = Nobody
          /\ \A c \in Conns : state[c] # "NONE" /\ ~MayBeClosed(c)
               => BytesLeft(c) = 0 /\ reader[c].readPos = 0)
=============================================================================

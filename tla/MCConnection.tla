---------------------------- MODULE MCConnection ----------------------------
EXTENDS Connection

CONSTANTS a, b, o, x, y, px, py

\* Both clients connect from the same address.
MCIPOf == [c \in {a, b, o} |-> IF c = o THEN y ELSE x]

\* As in config/client_non_authoratative_fsm.json and server_authoratative_fsm.json, for the types modelled.
MCClientFsm == <<{"AUTH"}, {"USER"}>>
MCServerFsm == <<{"AUTH"}, {"USER", "DISCONNECT"}>>

auth(size, p, result) ==
  [type |-> "AUTH", size |-> size, pit |-> p, result |-> result, to |-> Nobody]
user(size, c) == [type |-> "USER", size |-> size, pit |-> NoPit, result |-> "error", to |-> c]
disconnect(c) == [user(1, c) EXCEPT !.type = "DISCONNECT"]

packet(ms) ==
  [tag |-> TRUE, content |-> "ok", snappy |-> FALSE, size |-> SizeOf(ms), messages |-> ms]
snappy(p) == [p EXCEPT !.snappy = TRUE]
bad(content) == [packet(<<>>) EXCEPT !.content = content, !.size = 1, !.snappy = content = "undecodable"]
badTag == [packet(<<user(1, Nobody)>>) EXCEPT !.tag = FALSE]

login(p) == packet(<<auth(1, p, "SUCCESSFUL")>>)
failing(p, result) == packet(<<auth(1, p, result)>>)

nothing == [c \in Conns |-> <<>>]
plays(packets) ==
  [peers |-> Conns, hangups |-> {}, stalled |-> {}, slow |-> {}, cut |-> {}, packets |-> packets]
alone(c, packets) == [plays(packets) EXCEPT !.peers = {Owner, c}]

MCScenarios == {
  \* messages to one connection, of sizes that do not all fit into one packet
  alone(a, [nothing EXCEPT ![a] = <<login(px)>>,
              ![Owner] = <<packet(<<user(4, a)>>), packet(<<user(4, a)>>), packet(<<user(4, a)>>)>>]),
  alone(a, [nothing EXCEPT ![a] = <<snappy(login(px))>>,
              ![Owner] = <<packet(<<user(4, a), user(3, a)>>), packet(<<user(1, a)>>)>>]),
  \* packets cut anywhere
  [alone(a, [nothing EXCEPT ![a] = <<packet(<<auth(1, px, "SUCCESSFUL"), user(1, Nobody)>>),
              packet(<<user(2, Nobody)>>)>>]) EXCEPT !.cut = {a}],
  [alone(a, [nothing EXCEPT ![a] = <<login(px), badTag, packet(<<user(1, Nobody)>>)>>])
              EXCEPT !.cut = {a}],
  [alone(a, [nothing EXCEPT ![a] =
              <<login(px), bad("malformed"), packet(<<user(1, Nobody)>>)>>]) EXCEPT !.cut = {a}],
  alone(a, [nothing EXCEPT ![a] = <<login(px), bad("undecodable")>>]),
  \* closed by several at once
  [alone(a, [nothing EXCEPT ![Owner] = <<packet(<<disconnect(a)>>)>>])
              EXCEPT !.hangups = {a}, !.slow = {a}],
  [alone(a, [nothing EXCEPT ![a] = <<login(px)>>]) EXCEPT !.hangups = {a}, !.slow = {a}],
  [alone(a, [nothing EXCEPT ![a] = <<login(px)>>,
              ![Owner] = <<packet(<<user(1, a), user(2, a), user(1, a)>>)>>])
              EXCEPT !.stalled = {a}, !.hangups = {a}],
  [plays(nothing) EXCEPT !.slow = {a, b}],
  \* failing authentication
  [alone(a, [nothing EXCEPT ![a] =
              <<packet(<<auth(1, px, "INVALID_LT"), auth(1, px, "INVALID_LT")>>)>>])
              EXCEPT !.slow = {a}],
  [alone(a, [nothing EXCEPT ![a] =
              <<packet(<<auth(1, px, "INVALID_PIT"), auth(1, py, "INVALID_PIT")>>)>>])
              EXCEPT !.slow = {a}],
  alone(a, [nothing EXCEPT ![a] = <<failing(px, "error"), login(px)>>]),
  alone(a, [nothing EXCEPT ![a] = <<packet(<<user(1, Nobody), user(1, Nobody), auth(1, NoPit, "SUCCESSFUL")>>)>>])
}
=============================================================================

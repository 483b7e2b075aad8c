SPECIFICATION Spec
CONSTANTS
  a = a
  b = b
  o = o
  x = x
  y = y
  px = px
  py = py
  Nobody = Nobody
  NoPit = NoPit
  Clients = {a, b}
  Owner = o
  IPs = {x, y}
  IPOf <- MCIPOf
  Pits = {px, py, NoPit}
  WebSockets = {b}
  ClientFsm <- MCClientFsm
  ServerFsm <- MCServerFsm
  MaxFailedAuthAttempts = 2
  MaxFsmDisallowed = 2
  MaxAuths = 3
  PacketHeaderSize = 2
  MaxPacketSize = 7
  QueueSize = 2
  Scenarios <- MCScenarios
INVARIANTS TypeOK NothingBeforeAuthentication ClosedIsForgotten FailuresLeadToBan
PROPERTIES SentIsStream ReceivedIsStream AcceptedIsWritten UnauthenticatedIsClosed PacketsAreHandled
CHECK_DEADLOCK FALSE

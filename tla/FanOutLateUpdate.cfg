SPECIFICATION Spec
CONSTANTS
  Conns = {s, c}
  Servers = {s}
  FirstOwner = s
  None = None
  Fields = {f}
  SubOptions <- Reader
  BufferSize = 2
  MaxTime = 3
  MaxUpdates = 1
  Senders = {s}
  MaxCalls = 1
  Closable = {}
INVARIANT
  EveryUpdateReceived
CHECK_DEADLOCK FALSE

SPECIFICATION Spec
CONSTANTS
  Conns = {s, c}
  Servers = {s}
  FirstOwner = s
  None = None
  Fields = {"name", "position"}
  SubOptions <- MaskedReader
  BufferSize = 2
  MaxTime = 2
  MaxUpdates = 1
  Senders = {s}
  MaxCalls = 1
  Closable = {}
INVARIANT
  DataHoldsEveryUpdate
CHECK_DEADLOCK FALSE

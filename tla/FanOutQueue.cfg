SPECIFICATION QueueSpec
CONSTANTS
  Conns = {c1, c2, c3}
  Servers = {}
  FirstOwner = None
  None = None
  Fields = {f}
  SubOptions <- Readers
  BufferSize = 1
  MaxTime = 2
  MaxUpdates = 1
  Senders = {c1}
  MaxCalls = 3
  Closable = {c1}
INVARIANT
  WalkCoversQueue
PROPERTIES
  EveryTickEnds
  DueAreServed
CHECK_DEADLOCK FALSE

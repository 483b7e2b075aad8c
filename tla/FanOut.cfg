SPECIFICATION Spec
CONSTANTS
  Conns = {s, c}
  Servers = {s}
  FirstOwner = s
  None = None
  Fields = {f}
  SubOptions <- ReaderAndWriter
  BufferSize = 1
  MaxTime = 3
  MaxUpdates = 2
  Senders = {s, c}
  MaxCalls = 2
  Closable = {c}
INVARIANTS
  TypeOK
  SubscriptionHasElement
  ReceivedAtMostTwice
  OnTimeUpdatesReceived
  NobodyDueAfterTickData
  ViewIsChannelData
PROPERTIES
  DropOnlyWhenOverdue
CHECK_DEADLOCK FALSE

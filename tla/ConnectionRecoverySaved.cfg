SPECIFICATION Spec
CONSTANTS
  a1 = a1
  a2 = a2
  a3 = a3
  Conns = {a1, a2, a3}
  PitOf <- OneServer
  Ids = {a1, a2, a3}
  IdChoices <- OwnIds
  MayClose = {a1, a2}
  Channels = {g}
  RemoveAfter = {}
  None = None
  RecoverTimeout = 0
INVARIANT
  SavedUntilRecoveredOrTimeout
CHECK_DEADLOCK FALSE

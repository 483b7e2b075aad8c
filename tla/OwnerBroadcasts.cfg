SPECIFICATION FairBroadcastSpec
CONSTANTS
  Conns = {"a1", "a2", "b1"}
  PitOf <- TwoServers
  Ids = {1, 2, 3}
  IdChoices <- OwnIds
  MayClose = {"a1"}
  Channels = {g}
  RemoveAfter = {g}
  Announces = {g}
  None = None
  RecoverTimeout = 0
PROPERTIES
  RecoveryEnds
  LossIsTakenBack
CHECK_DEADLOCK FALSE

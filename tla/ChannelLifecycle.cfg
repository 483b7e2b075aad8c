SPECIFICATION Spec
CONSTANTS
  s1 = s1
  s2 = s2
  r1 = r1
  Nobody = Nobody
  Conns = {s1, s2, r1}
  MaxId = 2
  SpatialIds = {3}
  EntityIds = {4}
  MaxInst = 5
  QueueSize = 2
  Requests <- MCRequests
  Scenarios <- MCScenarios
  Recoverable = {r1}
  ACL <- MCACL
  RemoveAfterOwnerRemoved = {"NORMAL", "ENTITY"}
  SendOwnerLost = {"NORMAL", "ENTITY"}
INVARIANTS TypeOK FullFlagIsTrue LiveChannelIsFound OneRemovalIsSafe
PROPERTIES LostOwnerRemovesChannel QueuesDrain
CHECK_DEADLOCK FALSE

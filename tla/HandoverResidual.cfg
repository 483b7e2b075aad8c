CONSTANTS
  s1 = s1
  s2 = s2
  s3 = s3
  c1 = c1
  A = A
  B = B
  Master = Master
  NoConn = NoConn
  NoPos = NoPos
  Servers <- ServersDef
  Clients <- ClientsDef
  Entities <- EntitiesDef
  GridWidth = 8
  MaxCells = 4
  MaxGen = 3
  Scenarios <- ResidualScenarios
SPECIFICATION Spec
PROPERTIES
  ResidualUpdateIgnored
CHECK_DEADLOCK FALSE

SPECIFICATION FairSpec
CONSTANTS
  a = a
  b = b
  None = None
  Path <- MCPath
  RawCap = 2
  Cap = 2
  EventPaths <- MCEventPaths
  MaxReports = 4
INVARIANTS
  TypeOK
  BridgeOutlivesWatcher
PROPERTIES
  ImplementsFifo
  PathsAreDelivered
  BridgeEnds
CHECK_DEADLOCK FALSE

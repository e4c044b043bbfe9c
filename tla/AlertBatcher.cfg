CONSTANTS
  Capacity = 3
  Size = 2
  MaxAlerts = 5
SPECIFICATION Spec
INVARIANTS TypeOK NoLostWakeup DrainedBeforeClose
PROPERTIES ImplementsFeed NobodyWaitsForever
CHECK_DEADLOCK FALSE

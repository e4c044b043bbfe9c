CONSTANTS
  a = a
  b = b
  c = c
  None = None
  Keys <- MCKeys
  Graphs <- MCGraphs
  Dashboards <- MCDashboards
SPECIFICATION Spec
INVARIANTS TypeOK PanelsSeeFreshOptions GraphsAreRight ParentsFirst
PROPERTIES QueueDrains
CHECK_DEADLOCK FALSE

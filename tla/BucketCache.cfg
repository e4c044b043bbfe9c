SPECIFICATION Spec
CONSTANTS
  p1 = p1
  p2 = p2
  Processes = {p1, p2}
  Windows <- SomeWindows
  Shifts = {0, 1, 2}
  Step = 2
  Flux = 3
  Late = 2
  MaxDuration = 1
  Start = 6
  MaxTime = 9
  MaxQueries = 3
INVARIANTS TypeOK AnswersAreComplete OnlyEdgesAreStale
SYMMETRY Symmetry
CHECK_DEADLOCK FALSE

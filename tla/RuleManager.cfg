CONSTANTS
  r1 = r1
  r2 = r2
  q1 = q1
  q2 = q2
  None = None
  Rules = {r1, r2}
  Stored = {r1}
  Requests = {q1, q2}
  Kinds = {"create", "edit", "patch", "delete"}
  CreateDisabled = TRUE
  CommitsFail = TRUE
  MaxRestarts = 1
SPECIFICATION Spec
INVARIANTS TypeOK AtMostOneRunner NoOrphanRunner StoreMatchesTasks
PROPERTIES RequestsEnd
CHECK_DEADLOCK FALSE

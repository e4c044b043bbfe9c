SPECIFICATION Spec
CONSTANTS
  n1 = n1
  n2 = n2
  Names = {n1, n2}
  Rules = {u}
  Requests = {a, b}
  Kinds = {"createRule", "editRule"}
  Choices <- SomeChoices
  Broken = {b}
  None = None
  MaxRestarts = 1
INVARIANTS EmptyMeansAll
CHECK_DEADLOCK FALSE

SPECIFICATION Spec
CONSTANTS
  n1 = n1
  n2 = n2
  Names = {n1, n2}
  Rules = {u}
  Requests = {a, b}
  Kinds = {"createChannel", "updateChannel", "deleteChannel", "createRule", "editRule", "deleteRule"}
  Choices <- SomeChoices
  Broken = {b}
  None = None
  MaxRestarts = 1
INVARIANTS TypeOK ReceiversMatchChannels RoutesMatchRules
PROPERTIES RoutesAreKept ServerCatchesUp StartRepairs
CHECK_DEADLOCK FALSE

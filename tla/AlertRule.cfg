CONSTANTS
  Setups <- AllRules
SPECIFICATION Spec
INVARIANTS TypeOK AlertmanagerAgrees HistoryAgrees
PROPERTIES NoSpuriousResolve ForgottenOnlyAfterResolved
CHECK_DEADLOCK FALSE

CONSTANTS
  Setups <- AbsentRestarted
SPECIFICATION Spec
INVARIANTS NoDataOnlyAfterAbsentFor
CHECK_DEADLOCK FALSE

SPECIFICATION Spec
CONSTANTS
  MaxRetries = 0
INVARIANTS
  RiskyHandlersWaitForApproval
CHECK_DEADLOCK FALSE

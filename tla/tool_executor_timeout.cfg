SPECIFICATION FairSpec
CONSTANTS
  MaxRetries = 0
PROPERTIES
  TimeoutEndsTheCall
CHECK_DEADLOCK FALSE

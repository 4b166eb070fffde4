SPECIFICATION TerminatingSpec
CONSTANTS
  MaxRetries = 2
INVARIANTS
  TypeOK
  HandlersNeverOverlap
  EffectsRepeatOnlyAfterTimeout
  ResultTellsLastAttempt
PROPERTIES
  CallReturns
CHECK_DEADLOCK FALSE

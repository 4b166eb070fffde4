SPECIFICATION Spec
CONSTANTS
  Configs <- MCConfigs
  Requests <- MCRequests
  Behaviors <- MCBehaviors
  StatusCodes = {401, 404, 429, 500, 503}
  MaxMockCalls = 3
INVARIANTS
  TypeOK
  FallbackIsJustified
  NoNeedlessFailure
  StrongTierIsKept
  AsksFollowTheRecord
  ResponseTellsItsRoute
CHECK_DEADLOCK FALSE

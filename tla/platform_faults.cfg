SPECIFICATION FairSpec
CONSTANTS
  Run = {r1, r2}
  Approval = {a1, a2}
  NoRun = NoRun
  NoApproval = NoApproval
  lookup = lookup
  refund = refund
  Tool <- MCTool
  Risky <- MCRisky
  Plans <- MCPlans
  ForeignKeys = FALSE
  Faults = {"crash", "abort"}
INVARIANTS
  TypeOK
  PlatformInv
  NoResponseBeforeApproval
  ApprovalGatesOutcome
  TraceExplainsStatus
  OneResolutionPerDecision
  ToolResultsFollowCalls
  AnswerMatchesDecision
PROPERTIES
  TraceGrowsWithoutGaps
  ImplementsLifecycle
  HandlerReturns
CHECK_DEADLOCK FALSE

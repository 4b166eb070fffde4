SPECIFICATION FairSpec
CONSTANTS
  Run = {r1, r2}
  Approval = {a1, a2}
  NoRun = NoRun
  NoApproval = NoApproval
  lookup = lookup
  refund = refund
  Tool <- MCTool
  Risky <- MCRisky
  Plans <- MCPlans
  ForeignKeys = FALSE
  Faults = {}
INVARIANTS
  WaitingRunsAreResumable
  MemoryHoldsOnlyWaitingRuns
PROPERTIES
  ImplementsFairLifecycle
CHECK_DEADLOCK FALSE

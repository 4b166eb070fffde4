SPECIFICATION FairSpec
CONSTANTS
  Run = {r1, r2}
  Approval = {a1, a2}
  NoRun = NoRun
  NoApproval = NoApproval
  lookup = lookup
  refund = refund
  Tool <- MCTool
  Risky <- MCRisky
  Plans <- MCPlans
  ForeignKeys = TRUE
  Faults = {}
INVARIANTS
  StartedRunsAreRecorded
CHECK_DEADLOCK FALSE

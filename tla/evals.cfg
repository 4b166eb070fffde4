SPECIFICATION FairSpec
CONSTANTS
  Process = {s1, s2, script}
  Server = {s1, s2}
  Name = {"smoke-suite"}
  Catalogue <- MCTwoCases
  Faults = {"tool", "crash"}
  MaxRuns = 3
INVARIANTS
  TypeOK
  CommittedRunsAreComplete
  ReportMatchesRows
  PassedCasesAreGrounded
  NoCircularWait
PROPERTIES
  RequestsAreAnswered
CHECK_DEADLOCK FALSE

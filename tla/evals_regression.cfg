SPECIFICATION Spec
CONSTANTS
  Process = {server}
  Server = {server}
  Name = {"smoke-suite", "demo-suite"}
  Catalogue <- MCCatalogue
  Faults = {"slow"}
  MaxRuns = 2
INVARIANT RegressionIsReported
CHECK_DEADLOCK FALSE

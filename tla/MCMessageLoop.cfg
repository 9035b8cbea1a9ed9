SPECIFICATION MCSpec
CONSTANTS
  c1 = c1
  c2 = c2
  CallIds <- MCCallIds
  CallLists <- MCCallLists
  MaxBound = 2
  Parts = {"loop", "stages", "tool runs", "mcp"}
  StagePlans <- MCPlans
  MaxRuns = 5
  MaxBytesKept = 2
  MaxWrote = 4
  Callers = {1, 2}
  MaxTransports = 2
  MaxAttempts = 2
INVARIANTS
  TypesOK
  NoDispatchBeforeVerdicts
  ContinuationAnswersEveryCall
  StagesAndOutputWhole
  McpCallsFindConnections
PROPERTIES
  TurnSettles
  AbortedWorkEnds

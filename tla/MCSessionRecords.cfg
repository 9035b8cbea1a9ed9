SPECIFICATION MCSpec
CONSTANTS
  Parts = {"streams", "wire", "context", "sources", "attachment", "scopes", "handlers", "audit trail", "session states", "file tools"}
  CallIds = {"c1", "c2"}
  MaxText = 2
  GrantTuples = {"g1", "g2"}
  Executions = {"e1"}
  ExecutionOf <- MCExecutionOf
  Machines = {"m1", "m2"}
  SlotValues = {"s1"}
  MaxScopes = 3
  MaxTasks = 2
  MaxRecords = 2
  RotateAt = 1
  MaxRotatedFiles = 1
  MaxNow = 2
  Triggerers = {1, 2}
  MaxTurn = 2
  MaxKills = 1
  FileCallers = {1, 2}
  FileArgs <- MCArgs
  StartTexts <- MCTexts
  Ticks = {"t1", "t2"}
  Limits = {2, 3}
CHECK_DEADLOCK FALSE
INVARIANTS
  TypesOK
  NothingOutlivesItsScope
  MessagesAreWhole
  
PROPERTIES
  StepsKeepTheirWord

SPECIFICATION FairSpec
CONSTANTS
  Tools = {"edit"}
  Gated = {"edit"}
  Envelopes = {{}, {"edit", "delegate"}}
  MaxDepth = 2
  MaxRounds = 2
  MaxBatch = 1
  MaxChildren = 2
  MaxLines = 2
  MaxResumes = 1
INVARIANTS
  TypeOK
  ChildRecordsAddUp
  ToolsRunOnlyIfApproved
PROPERTIES
  CancelledTurnEnds
CHECK_DEADLOCK FALSE

SPECIFICATION Spec
CONSTANTS
  Tools = {"edit", "read"}
  Gated = {"edit"}
  Envelopes = {{}, {"edit", "delegate"}}
  MaxDepth = 2
  MaxRounds = 2
  MaxBatch = 1
  MaxChildren = 2
  MaxLines = 2
  MaxResumes = 1
INVARIANTS
  CancelEndsInput
CHECK_DEADLOCK FALSE

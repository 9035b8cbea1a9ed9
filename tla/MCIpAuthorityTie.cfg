SPECIFICATION MCSpec
CONSTANTS
  s1 = s1
  s2 = s2
  Subagents = {s1, s2}
  Parent = Parent
  MaxRaises = 3
  MaxTick = 1
  Timed = {FALSE}
  Answers = {"accepted"}
  None = None
  IPRequests = {"r1", "r2", "r3"}
  RARequests = {"r1", "r2"}
  NInteractors = 3
  Parts = {"authority"}
CHECK_DEADLOCK FALSE
PROPERTY SpawnOrderOnTie

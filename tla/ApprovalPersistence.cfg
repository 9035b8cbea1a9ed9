SPECIFICATION Spec
CONSTANTS
  Keys = {k1, k2}
  Data <- Documents
  Size <- DocumentSize
  Writers = {w1, w2}
  Inodes = {i1, i2, i3}
  Nothing = Nothing
  Empty = Empty
  Torn = Torn
  MaxInFlight = 2
CONSTRAINT OverlapBound
SYMMETRY Symmetry
INVARIANTS TypeOK RestartFindsApprovals

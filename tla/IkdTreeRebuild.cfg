SPECIFICATION Spec
CONSTANTS
  p1 = p1
  p2 = p2
  Points <- MCPoints
  Boxes <- MCBoxes
  MaxOps <- MCMaxOps
  Q_LEN = 2
INVARIANTS
  TreeIsTruth
  NoSearchInDeletedNodes
PROPERTIES
  BothThreadsFinish
CHECK_DEADLOCK FALSE

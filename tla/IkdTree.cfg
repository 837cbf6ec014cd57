SPECIFICATION Spec
CONSTANTS
  Dim = 2
  Points <- MCPoints
  NewPoints <- MCNewPoints
  Maps <- MCMaps
  Boxes <- MCBoxes
  downsample_size = 2
  Minimal_Unbalanced_Tree_Size = 2
  Multi_Thread_Rebuild_Point_Num = 5
  delete_criterion_param = 50
  balance_criterion_param = 70
  k_nearest = 4
  MaxDistance = 10
  MaxOps = 5
INVARIANTS
  MapIsTruth
  RangeSearchFindsAll
  NearestAreFound
  NodesAreRight
  RemovedOnce
CHECK_DEADLOCK FALSE

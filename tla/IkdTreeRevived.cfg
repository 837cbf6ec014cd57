SPECIFICATION Spec
CONSTANTS
  Dim = 2
  Points <- LinePoints
  NewPoints <- LineNewPoints
  Maps <- LineMaps
  Boxes <- LineBoxes
  downsample_size = 2
  Minimal_Unbalanced_Tree_Size = 1
  Multi_Thread_Rebuild_Point_Num = 2
  delete_criterion_param = 50
  balance_criterion_param = 70
  k_nearest = 2
  MaxDistance = 5
  MaxOps = 4
INVARIANTS
  DeletedStaysDeleted
CHECK_DEADLOCK FALSE

SPECIFICATION Spec
CONSTANTS
  Size = 4
  IdxMod = 8
  MaxPackets = 18
INVARIANTS
  NoSlotConflict
  PopsOldestWhole
PROPERTIES
  ImplementsFifo
CHECK_DEADLOCK FALSE

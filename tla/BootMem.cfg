SPECIFICATION Spec
CONSTANTS
  PageSize = 4
  PtrSize = 1
  LowLimit = 12
  GiB = 32
  SlotSpan = 64
  TagLists <- Tags
  Machines <- All
INVARIANTS RegionUsable StackFits AreasKept PagesConserved
PROPERTY BootEnds
CHECK_DEADLOCK FALSE

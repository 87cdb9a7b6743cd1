SPECIFICATION Spec
CONSTANTS
  PageSize = 4
  PtrSize = 1
  LowLimit = 12
  GiB = 32
  SlotSpan = 64
  TagLists <- Tags
  Machines <- Unaligned
INVARIANT StackPagesFree
CHECK_DEADLOCK FALSE

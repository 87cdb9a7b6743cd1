SPECIFICATION Spec
CONSTANTS
  PageSize = 4096
  Hdr = 24
  MaxPages = 2
  EntrySize = 8
  FirstSize = 32
  TssSize = 104
  MaxTss = 8
CHECK_DEADLOCK FALSE
INVARIANT TssApart

SPECIFICATION Spec
CONSTANTS
  PageSize = 9
  Hdr = 1
  MaxPages = 2
  Sizes = {0, 1, 3, 6, 7, 8}
  MaxLive = 6
CONSTRAINT Disciplined
INVARIANTS HeapTiled HeapServes HeapCoalesced

SPECIFICATION Spec
CONSTANTS
  WordBits = 64
  IntBits = 32
  HEADER_BITS = 20
  MaxNodes = 10
  Base = 3
  NPages = 6
  Stale <- NullOrNode
INVARIANTS SearchesComplete LinkedNodesTaken BalancedUntilMove
PROPERTY RefinesRangeMap
CONSTRAINT StillIntact
VIEW TreeView
CHECK_DEADLOCK FALSE

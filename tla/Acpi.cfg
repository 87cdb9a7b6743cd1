SPECIFICATION AcpiSpec
CONSTANTS
  Base = 3
  NPages = 7
  PageSize = 4
  Tables <- MCTables
  Roots <- MCRoots
  MaxTables = 2
  MaxCalls = 2
CHECK_DEADLOCK FALSE
INVARIANTS Tiling NoFragments
           MappingsKept NothingLeaked TablesCovered
PROPERTY GetTableFinds

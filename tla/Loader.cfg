SPECIFICATION LoaderSpec
CONSTANTS
  PageSize = 2
  Radix = 4
  Word = 65536
  Addr32 = 128
  TableArea = 2
  ZeroPages = 11
  AreaPages = 12
  StackPage = 1
  Machines <- MCMachines
  VmmPages <- MCVmmPages
CHECK_DEADLOCK FALSE
INVARIANTS LoadedApart AddressSpace ImageLoaded ReadyForVmm

SPECIFICATION StartSpec
CONSTANTS
  LowPages = {1, 16}
  StubAt = 69
  Blocks = {0, 8192}
INVARIANTS Handshake KernelHasStack LateApHeld
PROPERTIES StartedRuns CallReturns
CHECK_DEADLOCK FALSE

SPECIFICATION FairSpec
CONSTANTS
  Cpus = {c1, c2}
  Base = 3
  NPages = 3
  Entries = 2
  MaxCount = 2
  RamFrames <- TwoFrames
  DevFrame = 20
  Garbage = 99
INVARIANTS TypeOK MutualExclusion FramesExclusive NoFrameLeaked MappingsMatch
PROPERTIES ImplementsRangeMap LockReleased

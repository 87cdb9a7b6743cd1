SPECIFICATION NodeSpec
CONSTANTS
  WordBits = 8
  IntBits = 6
  HEADER_BITS = 2
  PageIds = {1, 2}
  MaxLive = 6
  FrameContents <- StaleFrames
INVARIANTS FindsFirst LiveProtected ListLinked

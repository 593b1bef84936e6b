SPECIFICATION Spec
CONSTANTS
  Buffers = {b1, b2}
  Rects <- MCRects
  None = None
  Backends = {"screencopy"}
  Slots = 1
  MaxRegions = 2
  MaxTimers = 1
PROPERTIES MergedDamageCovers
CHECK_DEADLOCK FALSE

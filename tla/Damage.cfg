SPECIFICATION Spec
CONSTANTS
  Buffers = {b1, b2}
  Rects <- MCRects
  None = None
  Backends = {"ext", "screencopy"}
  Slots = 1
  MaxRegions = 2
  MaxTimers = 1
PROPERTIES DeliveredIsFresh ConsumerIsTold
SYMMETRY Symmetry
CHECK_DEADLOCK FALSE

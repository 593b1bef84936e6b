SPECIFICATION Spec
CONSTANTS
  Buffers = {b1, b2}
  Frames = {f1, f2}
  None = None
  Backends = {"screencopy"}
  Version = 3
  MaxTimers = 2
INVARIANTS ReadyBufferIsFilled
CHECK_DEADLOCK FALSE

SPECIFICATION FairSpec
CONSTANTS
  Buffers = {b1, b2}
  Frames = {f1, f2}
  None = None
  Backends = {"ext", "screencopy"}
  Version = 3
  MaxTimers = 2
INVARIANTS OneBufferOnLoan PausedHoldsNothing HeldBufferHasCapture
  CopiesIntoHeldBuffer OneCapturePerLoan NeverRefused
PROPERTIES ImplementsLoanContract BufferReturned
CHECK_DEADLOCK FALSE

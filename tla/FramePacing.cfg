SPECIFICATION Spec
CONSTANTS
  NSEC_PER_SEC = 4
  Intervals = {0, 3, 4}
  Timers = {t1, t2}
  None = None
  MaxFrames = 2
  MaxSec = 3
INVARIANTS PacingKept TimerIsExact

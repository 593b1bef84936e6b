SPECIFICATION FairSpec
CONSTANTS
  TimerIds = {t1, t2, t3}
  Owners = {o1, o2}
  None = None
  Idle = Idle
  MaxTime = 2
INVARIANTS NextIsEarliest ArmedForNext ReadReturns
PROPERTIES CalledWithLiveUser DueTimersAdvance ImplementsTimerService
  EveryTimerLeaves ReadUnblocks

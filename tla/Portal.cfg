SPECIFICATION FairSpec
CONSTANTS
  Sessions = {s1, s2}
  Casts = {c1, c2}
  Outputs = {o1}
  Toplevels = {w1}
  None = None
  Backends = {"ext", "screencopy"}
  PersistCap = 1
  MaxPersist = 2
INVARIANTS RefcountExact CastsAreUsed HooksBracketCasts MonitorIsThere
  AbortsOnlyForWindow StartKeepsItsCast
PROPERTIES CastsNeverChangeHands ImplementsSessionContract StartReturns
CHECK_DEADLOCK FALSE

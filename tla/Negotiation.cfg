SPECIFICATION FairSpec
CONSTANTS
  a = a
  x = x
  m1 = m1
  m2 = m2
  Buffers = {b1, b2}
  Sizes = {1, 2}
  Fourccs <- MCFourccs
  Opaque <- MCOpaque
  Modifiers <- MCModifiers
  Announced <- MCAnnounced
  Backends = {"ext", "screencopy"}
  None = None
  MaxChanges = 2
INVARIANTS OffersAreCurrent FallbackIsFinal BuffersMatchFormat
  RestIsSettled AssertsOnlyIfOvertaken
PROPERTIES Settles
CHECK_DEADLOCK FALSE

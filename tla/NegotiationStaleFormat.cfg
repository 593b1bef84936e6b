SPECIFICATION Spec
CONSTANTS
  a = a
  x = x
  m1 = m1
  m2 = m2
  Buffers = {b1, b2}
  Sizes = {1, 2}
  Fourccs <- MCFourccs
  Opaque <- MCOpaque
  Modifiers <- MCModifiers
  Announced <- MCAnnounced
  Backends = {"ext", "screencopy"}
  None = None
  MaxChanges = 2
INVARIANTS PickedFormatIsCurrent
CHECK_DEADLOCK FALSE

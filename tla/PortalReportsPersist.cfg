SPECIFICATION Spec
CONSTANTS
  Sessions = {s1, s2}
  Casts = {c1, c2}
  Outputs = {o1}
  Toplevels = {w1}
  None = None
  Backends = {"ext"}
  PersistCap = 1
  MaxPersist = 2
PROPERTIES StartReportsPersist
CHECK_DEADLOCK FALSE

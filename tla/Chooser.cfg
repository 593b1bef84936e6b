SPECIFICATION FairSpec
CONSTANTS
  Outputs = {o1, o2}
  Toplevels = {t1}
  None = None
  Junk = Junk
  default_chooser <- MCDefaultChooser
  Configs <- MCConfigs
  Masks <- MCMasks
  Sigpipes = {"default", "ignore"}
  Sigchlds = {"default", "ignore"}
  Capacity = 1
  MaxAnswer = 2
INVARIANTS FirstFoundDecides
PROPERTIES CallReturns
CHECK_DEADLOCK FALSE

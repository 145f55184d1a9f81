SPECIFICATION Spec
CONSTANTS
  MaxID = 5
  Silent <- MCSilent
  Limit = 2
  Configs <- MCConfigs
  MaxFaults = 2
  MaxStops = 2
INVARIANTS
  NothingForgottenUnhandled
  UpdateHandledOncePerRun
  PendingDropped
PROPERTIES
  EveryUpdateHandled
CHECK_DEADLOCK FALSE

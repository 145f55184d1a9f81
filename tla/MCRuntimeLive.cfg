SPECIFICATION Spec
CONSTANTS
  MaxPts = 3
  Log <- MCTextLog
  PTSLimit = 2
  UpdatesOptions = {TRUE}
  AutoReconnect = TRUE
  MaxReconnectAttempts = 0
  BackoffOptions <- MCBackoffs
  DurationBits = 7
  MaxErrors = 4
  TooLongGap = 5
  NetFaults = 4
  DialFaults = 0
  LoadFaults = 1
  SaveFaults = 1
  Crashes = 2
  Cancels = 1
INVARIANTS
  BackoffCapped
PROPERTIES
  EveryMessageHandled

SPECIFICATION Spec
CONSTANTS
  MaxPts = 3
  Log <- MCTextLog
  PTSLimit = 2
  UpdatesOptions = {TRUE}
  AutoReconnect = TRUE
  MaxReconnectAttempts = 0
  BackoffOptions <- MCBackoffs
  DurationBits = 7
  MaxErrors = 1
  TooLongGap = 5
  NetFaults = 0
  DialFaults = 1
  LoadFaults = 0
  SaveFaults = 0
  Crashes = 1
  Cancels = 0
PROPERTIES
  SavedRuntimeStateKept

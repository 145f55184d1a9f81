SPECIFICATION Spec
CONSTANTS
  MaxPts = 5
  Log <- MCMixedLog
  PTSLimit = 2
  UpdatesOptions = {TRUE, FALSE}
  AutoReconnect = TRUE
  MaxReconnectAttempts = 1
  BackoffOptions <- MCBackoffs
  DurationBits = 7
  MaxErrors = 2
  TooLongGap = 2
  NetFaults = 2
  DialFaults = 2
  LoadFaults = 1
  SaveFaults = 1
  Crashes = 1
  Cancels = 1
CHECK_DEADLOCK FALSE
INVARIANTS
  SavedStateCoversOnlyHandled
  PlainTextNeverDropped
  DispatchedOncePerRun
  GracefulStopRepeatsNothing
PROPERTIES
  SavedStateNeverRegresses

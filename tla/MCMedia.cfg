SPECIFICATION Spec
CONSTANTS
  AutoFloodWait = TRUE
  MaxAttempts = 3
  MaxFloods = 2
  MaxStale = 2
  Sizes <- MCSizes
  Limits <- MCLimits
  PartSizes <- MCPartSizes
  DefaultUploadPartSize = 4
  minUploadPartSize = 2
  maxUploadPartSize = 6
  PartStep = 2
CHECK_DEADLOCK FALSE
INVARIANTS
  SentWhole
  DownloadedTail
  PostedOnce

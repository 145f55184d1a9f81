SPECIFICATION Spec
CONSTANTS
  Actors = {"run", "user", "other"}
  Stores = {"plain", "password", ""}
  Sessions = {"short", "long"}
  Size <- MCSize
  MaxSaves = 3
  MaxLoads = 1
  MaxFaults = 1
INVARIANTS
  DamageIsReported
PROPERTIES
  ActsAsRegister
CHECK_DEADLOCK FALSE

SPECIFICATION Spec
CONSTANTS
  Messages <- MCMessages
  Limit = 2
  PeerIDs = {11, 12, 13}
  Hashes = {7}
  PeerLimit = 2
  Routes = {"a", "b"}
  Accepts <- MCAccepts
  CacheFilter <- MCCacheFilter
INVARIANTS
  TypeOK
  PeerCacheConsistent
  OnlyUsefulCached
  HandlerSeesOwnMessage
  DispatchRunsMatchingRoutes
PROPERTIES
  KeepsMostRecent
  EvictsOldestOnly

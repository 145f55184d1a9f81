SPECIFICATION Spec
CONSTANTS
  Dialogs <- MCShared
  PeerIDs <- MCPeerIDs
  Hashes = {11}
  Offset = 10
  MaxBatch = 1
  PeerLimit = 1
INVARIANTS
  ChatIDCanBePassedBack

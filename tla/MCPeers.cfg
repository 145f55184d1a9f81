SPECIFICATION Spec
CONSTANTS
  Dialogs <- MCMixed
  PeerIDs <- MCPeerIDs
  Hashes = {11, 13}
  Offset = 10
  MaxBatch = 2
  PeerLimit = 1
INVARIANTS
  ReplyReachesChat
  ChatIDIdentifiesChat
  RestoredPeersUsable
PROPERTIES
  PeersNeverForgotten

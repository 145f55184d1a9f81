---------------------------- MODULE MCPeerTable ----------------------------
(* A user and a basic group that share their raw id, and beside them a     *)
(* supergroup with an id of its own, the class with the most to go wrong:  *)
(* both of its keys differ, and its kind is learnt in two steps.           *)
EXTENDS PeerTable

MCShared ==
  { [id |-> 1, kind |-> "user", hash |-> 11], [id |-> 1, kind |-> "chat", hash |-> 0] }

MCMixed == MCShared \cup {[id |-> 3, kind |-> "supergroup", hash |-> 13]}

MCPeerIDs == {1, -1, -13}
=============================================================================

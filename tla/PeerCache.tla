------------------------------ MODULE PeerCache ------------------------------
(***************************************************************************)
(* updates.PeerCache: a bounded map from peer id to peer, with the ids in  *)
(* the order they were first inserted.  Inserting an unknown id into a     *)
(* full cache evicts the oldest id; storing a known id replaces its record *)
(* and leaves its place in the order alone.  Id 0 stands for no peer.      *)
(***************************************************************************)
EXTENDS Integers, Sequences

CONSTANTS PeerIDs,    \* the non-zero dialog ids in use
          Hashes,     \* access hashes; 0 stands for none
          PeerLimit   \* NewPeerCache's size, already clamped to >= 0

ASSUME PeerLimitAssumption == PeerLimit \in Nat /\ 0 \notin PeerIDs

Peers == [id : PeerIDs, hash : Hashes \cup {0}]

VARIABLES order,      \* ids, oldest insertion first
          known       \* the map: a function from the ids in order to Peers

peerVars == <<order, known>>

NewPeerCache ==
  /\ order = <<>>
  /\ known = [id \in {} |-> 0]

\* Mutant of Put: the evicted id leaves the order but not the map.
PutKeepsEvicted(peer) ==
  IF peer.id = 0 \/ PeerLimit = 0 THEN UNCHANGED peerVars
  ELSE LET exists == peer.id \in DOMAIN known
           evict  == ~exists /\ Len(order) >= PeerLimit
           kept   == IF evict THEN Tail(order) ELSE order
       IN  /\ order' = IF exists THEN order ELSE Append(kept, peer.id)
           /\ known' = [id \in DOMAIN known \cup {peer.id} |->
                          IF id = peer.id THEN peer ELSE known[id]]

\* Mutant of Put: the newest id is evicted instead of the oldest.
PutEvictsNewest(peer) ==
  IF peer.id = 0 \/ PeerLimit = 0 THEN UNCHANGED peerVars
  ELSE LET exists == peer.id \in DOMAIN known
           evict  == ~exists /\ Len(order) >= PeerLimit
           kept   == IF evict THEN SubSeq(order, 1, Len(order) - 1) ELSE order
           gone   == IF evict THEN {order[Len(order)]} ELSE {}
       IN  /\ order' = IF exists THEN order ELSE Append(kept, peer.id)
           /\ known' = [id \in (DOMAIN known \ gone) \cup {peer.id} |->
                          IF id = peer.id THEN peer ELSE known[id]]

Put(peer) ==
  IF peer.id = 0 \/ PeerLimit = 0 THEN UNCHANGED peerVars
  ELSE LET exists == peer.id \in DOMAIN known
           evict  == ~exists /\ Len(order) >= PeerLimit
           kept   == IF evict THEN Tail(order) ELSE order
           gone   == IF evict THEN {Head(order)} ELSE {}
       IN  /\ order' = IF exists THEN order ELSE Append(kept, peer.id)
           /\ known' = [id \in (DOMAIN known \ gone) \cup {peer.id} |->
                          IF id = peer.id THEN peer ELSE known[id]]

(***************************************************************************)
(* The map and the insertion order describe the same peers, each id once,  *)
(* and there are never more than PeerLimit of them: an id left in the map  *)
(* but not in the order could never be evicted, and the cache would grow.  *)
(***************************************************************************)
PeerCacheConsistent ==
  /\ Len(order) <= PeerLimit
  /\ DOMAIN known = {order[i] : i \in 1..Len(order)}
  /\ \A i, j \in 1..Len(order) : order[i] = order[j] => i = j
  /\ \A id \in DOMAIN known : known[id].id = id

(***************************************************************************)
(* Put drops a peer only when the cache is full, and then only the one     *)
(* that has been in it longest.                                            *)
(***************************************************************************)
EvictsOldestOnly ==
  [][\A id \in DOMAIN known \ DOMAIN known' :
       Len(order) = PeerLimit /\ id = Head(order)]_peerVars
==============================================================================

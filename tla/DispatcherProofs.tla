-------------------------- MODULE DispatcherProofs --------------------------
(***************************************************************************)
(* Proofs about the dispatcher and its two caches, for every set of        *)
(* messages, peers and routes and for every cache size.                    *)
(***************************************************************************)
EXTENDS Dispatcher, SequenceTheorems, TLAPS

(***************************************************************************)
(* The ring as an index computation.                                       *)
(***************************************************************************)
Rotation(s, p) == SubSeq(s, p + 1, Len(s)) \o SubSeq(s, 1, p)

LEMMA RotationIndex ==
  ASSUME NEW S, NEW s \in Seq(S), NEW p \in Nat, p <= Len(s)
  PROVE  /\ Rotation(s, p) \in Seq(S)
         /\ Len(Rotation(s, p)) = Len(s)
         /\ \A i \in 1..Len(s) :
              Rotation(s, p)[i] = IF i <= Len(s) - p THEN s[p + i]
                                                     ELSE s[i - (Len(s) - p)]
<1> DEFINE a == SubSeq(s, p + 1, Len(s))
           b == SubSeq(s, 1, p)
<1>1. /\ Len(s) \in Nat /\ p + 1 \in Int
      /\ \A i \in (p + 1)..Len(s) : s[i] \in S
      /\ \A i \in 1..p : s[i] \in S
  BY LenProperties, ElementOfSeq
<1>2. /\ a \in Seq(S) /\ Len(a) = Len(s) - p
      /\ \A i \in 1..(Len(s) - p) : a[i] = s[p + i]
  <2>1. /\ a \in Seq(S)
        /\ Len(a) = IF p + 1 <= Len(s) THEN Len(s) - (p + 1) + 1 ELSE 0
        /\ \A i \in 1..(Len(s) - (p + 1) + 1) : a[i] = s[(p + 1) + i - 1]
    BY <1>1, SubSeqProperties
  <2> QED BY <1>1, <2>1
<1>3. /\ b \in Seq(S) /\ Len(b) = p /\ \A i \in 1..p : b[i] = s[i]
  BY <1>1, SubSeqProperties
<1>4. /\ a \o b \in Seq(S)
      /\ Len(a \o b) = Len(a) + Len(b)
      /\ \A i \in 1..(Len(a) + Len(b)) :
           (a \o b)[i] = IF i <= Len(a) THEN a[i] ELSE b[i - Len(a)]
  BY <1>2, <1>3, ConcatProperties
<1>5. Rotation(s, p) = a \o b
  BY DEF Rotation
<1> HIDE DEF a, b
<1> QED BY <1>1, <1>2, <1>3, <1>4, <1>5

(***************************************************************************)
(* The part of the type invariant that concerns the ring, and what the     *)
(* refinement needs besides: pos stays 0 until the first overwrite.        *)
(***************************************************************************)
RingOK ==
  /\ items \in Seq(Messages) /\ Len(items) <= Limit
  /\ pos \in Nat /\ (pos > 0 => pos < Limit)
  /\ full \in BOOLEAN /\ (full => Len(items) = Limit /\ Limit > 0)
  /\ ~full => pos = 0

LEMMA AddKeepsRing ==
  ASSUME RingOK, NEW m \in Messages, Add(m)
  PROVE  RingOK'
<1> USE LimitAssumption
<1>1. CASE Limit = 0
  BY <1>1 DEF RingOK, Add, cacheVars
<1>2. CASE Limit # 0 /\ Len(items) < Limit
  BY <1>2 DEF RingOK, Add
<1>3. CASE Limit # 0 /\ ~(Len(items) < Limit)
  <2>1. /\ items' = [items EXCEPT ![pos + 1] = m]
        /\ pos' = (pos + 1) % Limit
        /\ full' = TRUE
    BY <1>3 DEF Add
  <2>2. Len(items) = Limit /\ Limit \in Nat /\ Limit > 0 /\ pos \in Nat
    BY <1>3 DEF RingOK
  <2>3. pos' \in Nat /\ pos' < Limit
    BY <2>1, <2>2
  <2>4. items' \in Seq(Messages) /\ Len(items') = Len(items)
    <3>1. items \in Seq(Messages) /\ pos + 1 \in 1..Len(items)
      BY <2>2 DEF RingOK
    <3> QED BY <2>1, <3>1, ExceptSeq
  <2> QED BY <2>1, <2>2, <2>3, <2>4 DEF RingOK
<1> QED BY <1>1, <1>2, <1>3

\* The ordered view of the ring is a list of messages.
LEMMA RingOrdered ==
  ASSUME RingOK
  PROVE  orderedLocked \in Seq(Messages)
<1>1. items \in Seq(Messages) /\ pos \in Nat
  BY DEF RingOK
<1>2. CASE full
  <2>1. pos <= Len(items)
    BY <1>1, <1>2, LimitAssumption DEF RingOK
  <2>2. Rotation(items, pos) \in Seq(Messages)
    BY <1>1, <2>1, RotationIndex
  <2> QED BY <1>2, <2>2 DEF orderedLocked, Rotation
<1>3. CASE ~full
  BY <1>1, <1>3 DEF orderedLocked
<1> QED BY <1>2, <1>3

(***************************************************************************)
(* One Add is one step of the abstract cache.                              *)
(***************************************************************************)
LEMMA AddRefines ==
  ASSUME RingOK, NEW m \in Messages, Add(m)
  PROVE  Recent!Remember(m)
<1> USE LimitAssumption
<1>1. CASE Limit = 0
  <2>1. UNCHANGED <<items, pos, full>>
    BY <1>1 DEF Add, cacheVars
  <2>2. orderedLocked' = orderedLocked
    BY <2>1 DEF orderedLocked
  <2>3. ~full /\ ~(Len(items) < Limit)
    BY <1>1 DEF RingOK
  <2>4. orderedLocked = items
    BY <2>3 DEF orderedLocked
  <2> QED BY <1>1, <2>2, <2>3, <2>4 DEF Recent!Remember
<1>2. CASE Limit # 0 /\ Len(items) < Limit
  <2>1. items' = Append(items, m) /\ full' = full /\ full = FALSE
    BY <1>2 DEF RingOK, Add
  <2>2. orderedLocked = items /\ orderedLocked' = Append(items, m)
    BY <2>1 DEF orderedLocked
  <2> QED BY <1>2, <2>2 DEF Recent!Remember
<1>3. CASE Limit # 0 /\ ~(Len(items) < Limit)
  <2> DEFINE old == orderedLocked
             want == Append(Tail(old), m)
  <2>1. /\ items' = [items EXCEPT ![pos + 1] = m]
        /\ pos' = (pos + 1) % Limit
        /\ full' = TRUE
    BY <1>3 DEF Add
  <2>2. /\ Len(items) = Limit /\ Limit \in Nat /\ Limit > 0
        /\ pos \in Nat /\ pos < Limit /\ items \in Seq(Messages)
        /\ pos <= Len(items)
    BY <1>3 DEF RingOK
  <2>3. pos' = IF pos + 1 = Limit THEN 0 ELSE pos + 1
    BY <2>1, <2>2
  <2>4. /\ items' \in Seq(Messages) /\ Len(items') = Limit
        /\ \A i \in 1..Limit : items'[i] = IF i = pos + 1 THEN m ELSE items[i]
    BY <2>1, <2>2
  <2>5. old = Rotation(items, pos)
    <3>1. CASE full
      BY <3>1 DEF orderedLocked, Rotation
    <3>2. CASE ~full
      <4>1. pos = 0
        BY <3>2 DEF RingOK
      <4>2. Rotation(items, 0) = items
        BY <2>2, RotationIndex, SeqEqual
      <4> QED BY <3>2, <4>1, <4>2 DEF orderedLocked
    <3> QED BY <3>1, <3>2 DEF RingOK
  <2>6. /\ old \in Seq(Messages) /\ Len(old) = Limit
        /\ \A i \in 1..Limit : old[i] = IF i <= Limit - pos THEN items[pos + i]
                                        ELSE items[i - (Limit - pos)]
    <3> HIDE DEF old
    <3>1. /\ Rotation(items, pos) \in Seq(Messages)
          /\ Len(Rotation(items, pos)) = Len(items)
          /\ \A i \in 1..Len(items) :
               Rotation(items, pos)[i] = IF i <= Len(items) - pos THEN items[pos + i]
                                         ELSE items[i - (Len(items) - pos)]
      BY <2>2, RotationIndex
    <3> QED BY <2>2, <2>5, <3>1
  <2>7. /\ want \in Seq(Messages) /\ Len(want) = Limit
        /\ \A i \in 1..Limit : want[i] = IF i = Limit THEN m ELSE old[i + 1]
    <3> HIDE DEF old
    <3> QED BY <2>2, <2>6
  <2>8. orderedLocked' = Rotation(items', pos')
    BY <2>1 DEF orderedLocked, Rotation
  <2>9. /\ Rotation(items', pos') \in Seq(Messages)
        /\ Len(Rotation(items', pos')) = Limit
        /\ \A i \in 1..Limit :
             Rotation(items', pos')[i] = IF i <= Limit - pos' THEN items'[pos' + i]
                                         ELSE items'[i - (Limit - pos')]
    <3>1. items' \in Seq(Messages) /\ pos' \in Nat /\ pos' <= Len(items')
      BY <2>2, <2>3, <2>4
    <3>2. /\ Rotation(items', pos') \in Seq(Messages)
          /\ Len(Rotation(items', pos')) = Len(items')
          /\ \A i \in 1..Len(items') :
               Rotation(items', pos')[i] =
                 IF i <= Len(items') - pos' THEN items'[pos' + i]
                 ELSE items'[i - (Len(items') - pos')]
      BY <3>1, RotationIndex
    <3> QED BY <2>4, <3>2
  <2>10. \A i \in 1..Limit : Rotation(items', pos')[i] = want[i]
    <3> SUFFICES ASSUME NEW i \in 1..Limit
                 PROVE  Rotation(items', pos')[i] = want[i]
      OBVIOUS
    <3> HIDE DEF old, want
    <3>1. CASE pos + 1 = Limit
      BY <3>1, <2>2, <2>3, <2>4, <2>6, <2>7, <2>9
    <3>2. CASE pos + 1 # Limit
      BY <3>2, <2>2, <2>3, <2>4, <2>6, <2>7, <2>9
    <3> QED BY <3>1, <3>2
  <2>11. orderedLocked' = want
    <3> HIDE DEF want
    <3> QED BY <2>7, <2>8, <2>9, <2>10, SeqEqual
  <2> QED BY <2>2, <2>6, <2>11 DEF Recent!Remember
<1> QED BY <1>1, <1>2, <1>3
(***************************************************************************)
(* The peer cache: types of its two parts, and their agreement.            *)
(***************************************************************************)
PeersOK ==
  /\ order \in Seq(PeerIDs)
  /\ DOMAIN known \subseteq PeerIDs
  /\ known = [id \in DOMAIN known |-> known[id]]
  /\ \A id \in DOMAIN known : known[id] \in Peers
  /\ PeerCacheConsistent

LEMMA PutKeepsPeers ==
  ASSUME PeersOK, NEW peer, peer.id # 0 => peer \in Peers, Put(peer)
  PROVE  PeersOK'
<1> USE PeerLimitAssumption
<1>1. CASE peer.id = 0 \/ PeerLimit = 0
  <2>1. order' = order /\ known' = known
    BY <1>1 DEF Put, peerVars
  <2> QED BY <2>1 DEF PeersOK, PeerCacheConsistent
<1>2. CASE ~(peer.id = 0 \/ PeerLimit = 0) /\ peer.id \in DOMAIN known
  <2>1. /\ order' = order
        /\ known' = [id \in DOMAIN known |-> IF id = peer.id THEN peer ELSE known[id]]
    BY <1>2 DEF Put, PeersOK
  <2> QED BY <1>2, <2>1 DEF PeersOK, PeerCacheConsistent, Peers
<1>3. CASE /\ ~(peer.id = 0 \/ PeerLimit = 0) /\ peer.id \notin DOMAIN known
           /\ Len(order) < PeerLimit
  <2>1. /\ order' = Append(order, peer.id)
        /\ known' = [id \in DOMAIN known \cup {peer.id} |->
                       IF id = peer.id THEN peer ELSE known[id]]
    BY <1>3 DEF Put, PeersOK
  <2>2. peer.id \in PeerIDs /\ peer \in Peers
    BY <1>3 DEF Peers
  <2>3. /\ order' \in Seq(PeerIDs) /\ Len(order') = Len(order) + 1
        /\ \A i \in 1..Len(order) : order'[i] = order[i]
        /\ order'[Len(order) + 1] = peer.id
    BY <2>1, <2>2 DEF PeersOK
  <2>4. DOMAIN known' = {order'[i] : i \in 1..Len(order')}
    BY <2>1, <2>3 DEF PeersOK, PeerCacheConsistent
  <2>5. \A i, j \in 1..Len(order') : order'[i] = order'[j] => i = j
    BY <1>3, <2>3 DEF PeersOK, PeerCacheConsistent
  <2>6. \A id \in DOMAIN known' : known'[id].id = id /\ known'[id] \in Peers
    BY <2>1, <2>2 DEF PeersOK, PeerCacheConsistent
  <2> QED BY <1>3, <2>1, <2>2, <2>3, <2>4, <2>5, <2>6 DEF PeersOK, PeerCacheConsistent
<1>4. CASE /\ ~(peer.id = 0 \/ PeerLimit = 0) /\ peer.id \notin DOMAIN known
           /\ ~(Len(order) < PeerLimit)
  <2>1. /\ order' = Append(Tail(order), peer.id)
        /\ known' = [id \in (DOMAIN known \ {Head(order)}) \cup {peer.id} |->
                       IF id = peer.id THEN peer ELSE known[id]]
    BY <1>4 DEF Put, PeersOK
  <2>2. peer.id \in PeerIDs /\ peer \in Peers
    BY <1>4 DEF Peers
  <2>3. Len(order) = PeerLimit /\ PeerLimit > 0 /\ order # <<>>
    BY <1>4 DEF PeersOK, PeerCacheConsistent
  <2>4. /\ order' \in Seq(PeerIDs) /\ Len(order') = Len(order)
        /\ \A i \in 1..(Len(order) - 1) : order'[i] = order[i + 1]
        /\ order'[Len(order)] = peer.id
        /\ Head(order) = order[1]
    BY <2>1, <2>2, <2>3 DEF PeersOK
  <2>5. DOMAIN known' = {order'[i] : i \in 1..Len(order')}
    <3>1. ASSUME NEW id \in DOMAIN known'
          PROVE  \E i \in 1..Len(order') : order'[i] = id
      <4>1. CASE id = peer.id
        BY <4>1, <2>3, <2>4
      <4>2. CASE id # peer.id
        <5>1. PICK j \in 1..Len(order) : order[j] = id
          BY <3>1, <4>2, <2>1 DEF PeersOK, PeerCacheConsistent
        <5>2. j # 1
          BY <5>1, <4>2, <3>1, <2>1, <2>4
        <5>3. j - 1 \in 1..(Len(order) - 1) /\ order'[j - 1] = order[j]
          BY <5>1, <5>2, <2>3, <2>4
        <5> QED BY <5>1, <5>3, <2>4
      <4> QED BY <4>1, <4>2
    <3>2. ASSUME NEW i \in 1..Len(order')
          PROVE  order'[i] \in DOMAIN known'
      <4>1. CASE i = Len(order)
        BY <4>1, <2>1, <2>4
      <4>2. CASE i # Len(order)
        <5>1. order'[i] = order[i + 1] /\ i + 1 \in 1..Len(order)
          BY <4>2, <3>2, <2>3, <2>4
        <5>2. order[i + 1] \in DOMAIN known /\ order[i + 1] # order[1]
          BY <5>1, <3>2, <2>3 DEF PeersOK, PeerCacheConsistent
        <5> QED BY <5>1, <5>2, <2>1, <2>4
      <4> QED BY <4>1, <4>2
    <3> QED BY <3>1, <3>2
  <2>6. \A i, j \in 1..Len(order') : order'[i] = order'[j] => i = j
    <3>1. \A i \in 1..Len(order) : order[i] # peer.id
      BY <1>4 DEF PeersOK, PeerCacheConsistent
    <3> QED BY <3>1, <2>3, <2>4 DEF PeersOK, PeerCacheConsistent
  <2>7. \A id \in DOMAIN known' : known'[id].id = id /\ known'[id] \in Peers
    BY <2>1, <2>2 DEF PeersOK, PeerCacheConsistent
  <2>8. DOMAIN known' \subseteq PeerIDs /\ known' = [id \in DOMAIN known' |-> known'[id]]
    BY <2>1, <2>2 DEF PeersOK
  <2>9. PeerCacheConsistent'
    BY <2>3, <2>4, <2>5, <2>6, <2>7 DEF PeerCacheConsistent
  <2> QED BY <2>4, <2>7, <2>8, <2>9 DEF PeersOK
<1> QED BY <1>1, <1>2, <1>3, <1>4

(***************************************************************************)
(* The inductive invariant: both caches and the dispatcher's own state.    *)
(***************************************************************************)
DispatcherOK ==
  /\ RingOK
  /\ PeersOK
  /\ config \in Configs
  /\ routes \in Seq(Routes)
  /\ call \in Calls

LEMMA InitOK == Init => DispatcherOK
<1> SUFFICES ASSUME Init PROVE DispatcherOK
  OBVIOUS
<1> USE LimitAssumption, PeerLimitAssumption
<1>1. RingOK
  <2>1. items = <<>> /\ pos = 0 /\ full = FALSE
    BY DEF Init, NewMessageCache
  <2>2. items \in Seq(Messages) /\ Len(items) = 0
    BY <2>1
  <2>3. Len(items) <= Limit /\ pos \in Nat /\ ~(pos > 0)
    BY <2>1, <2>2
  <2> QED BY <2>1, <2>2, <2>3, Zenon DEF RingOK
<1>2. PeersOK
  <2>1. order = <<>> /\ known = [id \in {} |-> 0]
    BY DEF Init, NewPeerCache
  <2>2. DOMAIN known = {} /\ Len(order) = 0 /\ known = [id \in DOMAIN known |-> known[id]]
    BY <2>1
  <2> QED BY <2>1, <2>2 DEF PeersOK, PeerCacheConsistent
<1>3. config \in Configs
  BY DEF Init, NewDispatcher, Configs, CacheModes
<1>4. routes \in Seq(Routes) /\ call \in Calls
  BY DEF Init, Idle, Calls
<1> QED BY <1>1, <1>2, <1>3, <1>4 DEF DispatcherOK

LEMMA RingUnchanged == RingOK /\ UNCHANGED cacheVars => RingOK'
  BY DEF RingOK, cacheVars

LEMMA PeersUnchanged == PeersOK /\ UNCHANGED peerVars => PeersOK'
  BY DEF PeersOK, PeerCacheConsistent, peerVars

LEMMA NextOK == DispatcherOK /\ [Next]_vars => DispatcherOK'
<1> SUFFICES ASSUME DispatcherOK, [Next]_vars PROVE DispatcherOK'
  OBVIOUS
<1> USE RingUnchanged, PeersUnchanged DEF DispatcherOK
<1>1. ASSUME NEW r \in Routes, OnMessage(r) PROVE DispatcherOK'
  BY <1>1 DEF OnMessage
<1>2. ASSUME NEW m \in Messages, Dispatch(m) PROVE DispatcherOK'
  <2>1. RingOK'
    BY <1>2, AddKeepsRing DEF Dispatch
  <2>2. /\ matchingRoutes(m) \in SUBSET Nat
        /\ shouldCacheMessage(m, matchingRoutes(m) # {}) \in BOOLEAN
        /\ Len(routes) \in Nat
    BY DEF matchingRoutes, shouldCacheMessage
  <2>3. call' \in Calls
    BY <1>2, <2>2 DEF Dispatch, Calls, afterCaching
  <2> QED BY <1>2, <2>1, <2>3 DEF Dispatch
<1>3. ASSUME CacheFrom PROVE DispatcherOK'
  <2>1. call.msg.from \in PeerIDs \cup {0}
    BY MessagesAssumption DEF Calls, NoMsg
  <2>2. PeersOK'
    <3> DEFINE peer == [id |-> call.msg.from, hash |-> 0]
    <3>1. Put(peer) /\ (peer.id # 0 => peer \in Peers)
      BY <1>3, <2>1 DEF CacheFrom, Peers
    <3> QED BY <3>1, PutKeepsPeers
  <2>3. call' \in Calls
    BY <1>3 DEF CacheFrom, Calls
  <2> QED BY <1>3, <2>2, <2>3 DEF CacheFrom
<1>4. ASSUME CacheChat PROVE DispatcherOK'
  <2>1. call.msg.chat \in PeerIDs \cup {0}
    BY MessagesAssumption DEF Calls, NoMsg
  <2>2. PeersOK'
    <3> DEFINE peer == [id |-> call.msg.chat, hash |-> 0]
    <3>1. Put(peer) /\ (peer.id # 0 => peer \in Peers)
      BY <1>4, <2>1 DEF CacheChat, Peers
    <3> QED BY <3>1, PutKeepsPeers
  <2>3. call' \in Calls
    BY <1>4 DEF CacheChat, Calls
  <2> QED BY <1>4, <2>2, <2>3 DEF CacheChat
<1>5. ASSUME NEW err \in BOOLEAN, RunHandler(err) PROVE DispatcherOK'
  <2>1. PICK i \in handlersLeft : call' = [call EXCEPT !.ran = Append(@, i), !.err = err]
    BY <1>5 DEF RunHandler
  <2>2. i \in Nat
    BY <2>1 DEF handlersLeft, Calls
  <2>3. call' \in Calls
    <3>1. call.ran \in Seq(Nat) /\ Append(call.ran, i) \in Seq(Nat)
      BY <2>2 DEF Calls
    <3> QED BY <2>1, <3>1 DEF Calls
  <2> QED BY <1>5, <2>3 DEF RunHandler
<1>6. ASSUME Return PROVE DispatcherOK'
  BY <1>6 DEF Return, Calls
<1>7. ASSUME NEW peer \in Peers, PutPeer(peer) PROVE DispatcherOK'
  BY <1>7, PutKeepsPeers DEF PutPeer, dispatchVars
<1>8. CASE UNCHANGED vars
  BY <1>8 DEF vars, dispatchVars
<1> QED BY <1>1, <1>2, <1>3, <1>4, <1>5, <1>6, <1>7, <1>8 DEF Next

LEMMA AlwaysOK == Spec => []DispatcherOK
  BY InitOK, NextOK, PTL DEF Spec

(***************************************************************************)
(* The dispatcher and both caches keep their types whatever is dispatched. *)
(***************************************************************************)
THEOREM TypeCorrect == Spec => []TypeOK
<1>1. DispatcherOK => TypeOK
  BY DEF DispatcherOK, TypeOK, RingOK, PeersOK
<1> QED BY AlwaysOK, <1>1, PTL

(***************************************************************************)
(* PeerCache.Put, called by the dispatching goroutine and by any other,    *)
(* keeps map and order in agreement and within the limit.                  *)
(***************************************************************************)
THEOREM PeerCacheCorrect == Spec => []PeerCacheConsistent
<1>1. DispatcherOK => PeerCacheConsistent
  BY DEF DispatcherOK, PeersOK
<1> QED BY AlwaysOK, <1>1, PTL

(***************************************************************************)
(* Through the dispatcher, MessageCache's ring implements the abstract     *)
(* list of the last Limit messages.                                        *)
(***************************************************************************)
THEOREM RingImplementsRecent == Spec => KeepsMostRecent
<1>1. Init => Recent!Init
  BY DEF Init, NewMessageCache, Recent!Init, orderedLocked
<1>2. DispatcherOK /\ [Next]_vars => [Recent!Next]_orderedLocked
  <2> SUFFICES ASSUME DispatcherOK, [Next]_vars PROVE [Recent!Next]_orderedLocked
    OBVIOUS
  <2>1. UNCHANGED cacheVars => UNCHANGED orderedLocked
    BY DEF cacheVars, orderedLocked
  <2>2. CASE \E m \in Messages : Dispatch(m)
    <3>1. PICK m \in Messages : Dispatch(m)
      BY <2>2
    <3>2. CASE Add(m)
      BY <3>2, AddRefines DEF DispatcherOK, Recent!Next
    <3>3. CASE UNCHANGED cacheVars
      BY <3>3, <2>1
    <3> QED BY <3>1, <3>2, <3>3 DEF Dispatch
  <2>3. CASE ~(\E m \in Messages : Dispatch(m))
    <3>1. UNCHANGED cacheVars
      BY <2>3 DEF Next, vars, OnMessage, CacheFrom, CacheChat, RunHandler, Return,
                  PutPeer
    <3> QED BY <3>1, <2>1
  <2> QED BY <2>2, <2>3
<1> QED BY <1>1, <1>2, AlwaysOK, PTL DEF Spec, KeepsMostRecent, Recent!Spec

(***************************************************************************)
(* PeerCache.Put, whoever calls it, drops only the oldest peer of a full   *)
(* cache.                                                                  *)
(***************************************************************************)
THEOREM PutEvictsOldest == Spec => EvictsOldestOnly
<1> DEFINE Drops == \A id \in DOMAIN known \ DOMAIN known' :
                      Len(order) = PeerLimit /\ id = Head(order)
<1>1. ASSUME DispatcherOK, NEW peer, Put(peer) PROVE Drops
  <2>1. CASE peer.id = 0 \/ PeerLimit = 0
    BY <1>1, <2>1 DEF Put, peerVars
  <2>2. CASE ~(peer.id = 0 \/ PeerLimit = 0)
    <3> DEFINE evict == peer.id \notin DOMAIN known /\ Len(order) >= PeerLimit
               gone == IF evict THEN {Head(order)} ELSE {}
    <3>1. DOMAIN known' = (DOMAIN known \ gone) \cup {peer.id}
      BY <1>1, <2>2 DEF Put
    <3>2. Len(order) \in Nat /\ Len(order) <= PeerLimit /\ PeerLimit \in Nat
      BY <1>1, PeerLimitAssumption DEF DispatcherOK, PeersOK, PeerCacheConsistent
    <3>3. evict => Len(order) = PeerLimit
      BY <3>2
    <3> QED BY <3>1, <3>3
  <2> QED BY <2>1, <2>2
<1>2. ASSUME DispatcherOK, [Next]_vars PROVE Drops \/ UNCHANGED peerVars
  <2>1. \/ UNCHANGED peerVars
        \/ \E id : Put([id |-> id, hash |-> 0])
        \/ \E peer \in Peers : Put(peer)
    BY <1>2 DEF Next, vars, OnMessage, Dispatch, CacheFrom, CacheChat, RunHandler, Return,
                PutPeer
  <2> HIDE DEF Drops
  <2> QED BY <1>1, <1>2, <2>1
<1>3. DispatcherOK /\ [Next]_vars => [Drops]_peerVars
  <2> HIDE DEF Drops
  <2> QED BY <1>2
<1> QED BY <1>3, AlwaysOK, PTL DEF Spec, EvictsOldestOnly

(***************************************************************************)
(* What the cache may hold under the policy in force.                      *)
(***************************************************************************)
Useful(m) ==
  CASE config.mode = "none" -> FALSE
    [] config.mode = "all" -> TRUE
    [] config.mode = "matched" -> matchingRoutes(m) # {}
    [] config.mode = "filtered" -> config.hasFilter /\ m \in CacheFilter

\* A message that shouldCacheMessage accepts is useful, and stays so.
LEMMA CachedIsUseful ==
  ASSUME NEW m, config \in Configs, shouldCacheMessage(m, matchingRoutes(m) # {})
  PROVE  Useful(m)
BY DEF shouldCacheMessage, Useful, Configs

LEMMA StaysUseful ==
  ASSUME NEW m, config \in Configs, Useful(m), config' = config,
         routes \in Seq(Routes), routes' \in Seq(Routes), Len(routes) <= Len(routes'),
         \A i \in 1..Len(routes) : routes'[i] = routes[i]
  PROVE  Useful(m)'
<1>1. matchingRoutes(m) # {} => matchingRoutes(m)' # {}
  <2> SUFFICES ASSUME NEW i \in 1..Len(routes), Accepts(routes[i], m)
               PROVE  matchingRoutes(m)' # {}
    BY DEF matchingRoutes
  <2>1. i \in 1..Len(routes') /\ routes'[i] = routes[i]
    OBVIOUS
  <2> QED BY <2>1 DEF matchingRoutes
<1>2. config.mode \in {"none", "all", "matched", "filtered"}
  BY DEF Configs
<1> QED BY <1>1, <1>2 DEF Useful

\* The slots after an Add hold what they held, or the message.
LEMMA AddedItems ==
  ASSUME RingOK, NEW m \in Messages, Add(m), NEW i \in 1..Len(items')
  PROVE  items'[i] = m \/ \E j \in 1..Len(items) : items'[i] = items[j]
<1> USE LimitAssumption
<1>1. CASE Limit = 0
  BY <1>1 DEF Add, cacheVars
<1>2. CASE Limit # 0 /\ Len(items) < Limit
  <2>1. items' = Append(items, m) /\ items \in Seq(Messages)
    BY <1>2 DEF Add, RingOK
  <2> QED BY <2>1
<1>3. CASE Limit # 0 /\ ~(Len(items) < Limit)
  <2>1. items' = [items EXCEPT ![pos + 1] = m] /\ items \in Seq(Messages)
    BY <1>3 DEF Add, RingOK
  <2>2. Len(items') = Len(items)
    BY <2>1
  <2> QED BY <2>1, <2>2
<1> QED BY <1>1, <1>2, <1>3

(***************************************************************************)
(* The cache holds useful messages only: shouldCacheMessage decides when   *)
(* the message comes, and no route that accepted it is ever removed.       *)
(***************************************************************************)
THEOREM UsefulCached == Spec => []OnlyUsefulCached
<1>1. OnlyUsefulCached <=> \A i \in 1..Len(items) : Useful(items[i])
  BY DEF OnlyUsefulCached, Useful
<1>2. Init => OnlyUsefulCached
  BY DEF Init, NewMessageCache, OnlyUsefulCached
<1>3. ASSUME DispatcherOK, DispatcherOK', OnlyUsefulCached, [Next]_vars
      PROVE  OnlyUsefulCached'
  <2>t. config \in Configs /\ routes \in Seq(Routes) /\ routes' \in Seq(Routes)
    BY <1>3 DEF DispatcherOK
  <2>1. /\ config' = config /\ Len(routes) <= Len(routes')
        /\ \A i \in 1..Len(routes) : routes'[i] = routes[i]
    <3>1. CASE \E r \in Routes : OnMessage(r)
      BY <2>t, <3>1 DEF OnMessage
    <3>2. CASE ~(\E r \in Routes : OnMessage(r))
      <4>1. config' = config /\ routes' = routes
        BY <1>3, <3>2 DEF Next, vars, dispatchVars, Dispatch, CacheFrom, CacheChat, RunHandler,
           Return, PutPeer
      <4>2. Len(routes) \in Nat
        BY <2>t
      <4> QED BY <4>1, <4>2
    <3> QED BY <3>1, <3>2
  <2>2. \A m : Useful(m) => Useful(m)'
    BY <2>t, <2>1, StaysUseful
  <2>3. ASSUME NEW i \in 1..Len(items') PROVE Useful(items'[i])
    <3>1. CASE UNCHANGED cacheVars
      BY <1>1, <1>3, <2>3, <3>1 DEF cacheVars
    <3>2. ASSUME NEW m \in Messages, Add(m), shouldCacheMessage(m, matchingRoutes(m) # {})
          PROVE  Useful(items'[i])
      <4>1. Useful(m)
        BY <2>t, <3>2, CachedIsUseful
      <4>2. items'[i] = m \/ \E j \in 1..Len(items) : items'[i] = items[j]
        BY <1>3, <2>3, <3>2, AddedItems DEF DispatcherOK
      <4> QED BY <1>1, <1>3, <4>1, <4>2
    <3> QED BY <1>3, <3>1, <3>2 DEF Next, vars, OnMessage, Dispatch, CacheFrom, CacheChat,
            RunHandler, Return, PutPeer
  <2>4. ASSUME NEW i \in 1..Len(items'), NEW m, m = items'[i] PROVE Useful(m)'
    BY <2>2, <2>3, <2>4
  <2> QED BY <2>4 DEF OnlyUsefulCached, Useful
<1> QED BY <1>2, <1>3, AlwaysOK, PTL DEF Spec

(***************************************************************************)
(* While a call is under way nothing else is added: the newest message is  *)
(* the one being dispatched, from the moment it is cached.                 *)
(***************************************************************************)
NewestIsOwn == call.pc # "idle" /\ call.cached => Last(1) = <<call.msg>>

\* The last element of a list, as a list.
LEMMA LastOne ==
  ASSUME NEW S, NEW s \in Seq(S), Len(s) > 0
  PROVE  SubSeq(s, Len(s), Len(s)) = <<s[Len(s)]>>
<1>1. Len(s) \in Nat /\ \A k \in Len(s)..Len(s) : s[k] \in S
  BY LenProperties, ElementOfSeq
<1>2. /\ SubSeq(s, Len(s), Len(s)) \in Seq(S)
      /\ Len(SubSeq(s, Len(s), Len(s))) = 1
      /\ SubSeq(s, Len(s), Len(s))[1] = s[Len(s)]
  <2>1. /\ SubSeq(s, Len(s), Len(s)) \in Seq(S)
        /\ Len(SubSeq(s, Len(s), Len(s))) =
             IF Len(s) <= Len(s) THEN Len(s) - Len(s) + 1 ELSE 0
        /\ \A k \in 1..(Len(s) - Len(s) + 1) :
             SubSeq(s, Len(s), Len(s))[k] = s[Len(s) + k - 1]
    BY <1>1, SubSeqProperties
  <2> QED BY <1>1, <2>1
<1>3. <<s[Len(s)]>> \in Seq(S) /\ Len(<<s[Len(s)]>>) = 1 /\ <<s[Len(s)]>>[1] = s[Len(s)]
  BY <1>1
<1> DEFINE a == SubSeq(s, Len(s), Len(s))
           b == <<s[Len(s)]>>
<1>4. a \in Seq(S) /\ b \in Seq(S) /\ Len(a) = 1 /\ Len(b) = 1 /\ a[1] = b[1]
  BY <1>2, <1>3
<1> HIDE DEF a, b
<1>5. Len(a) = Len(b) /\ \A k \in 1..Len(a) : a[k] = b[k]
  BY <1>4
<1>6. a = b
  BY <1>4, <1>5, SeqEqual
<1> QED BY <1>6 DEF a, b

\* The newest message is the one that was added last.
LEMMA AddedIsLast ==
  ASSUME RingOK, RingOK', NEW m \in Messages, Limit > 0, Add(m)
  PROVE  Last(1)' = <<m>>
<1> DEFINE o == orderedLocked
           n == orderedLocked'
<1>1. Recent!Remember(m)
  BY AddRefines
<1>2. o \in Seq(Messages)
  BY RingOrdered
<1>3. n = IF Len(o) < Limit THEN Append(o, m) ELSE Append(Tail(o), m)
  BY <1>1, LimitAssumption DEF Recent!Remember
<1>4. o # <<>> => Tail(o) \in Seq(Messages)
  BY <1>2
<1> HIDE DEF o
<1>5. Len(o) < Limit \/ o # <<>>
  BY <1>2, LimitAssumption
<1>6. PICK p \in Seq(Messages) : n = Append(p, m)
  BY <1>2, <1>3, <1>4, <1>5
<1>7. Len(n) = Len(p) + 1 /\ Len(p) \in Nat /\ n[Len(n)] = m /\ n \in Seq(Messages)
  BY <1>6
<1>8. Last(1)' = SubSeq(n, Len(n), Len(n))
  <2>1. Len(n) - 1 + 1 = Len(n) /\ ~(1 > Len(n)) /\ ~(1 <= 0)
    BY <1>7
  <2> QED BY <2>1 DEF Last
<1> HIDE DEF n
<1>9. SubSeq(n, Len(n), Len(n)) = <<n[Len(n)]>>
  BY <1>7, LastOne
<1> QED BY <1>7, <1>8, <1>9

(***************************************************************************)
(* A handler that asks the message cache for the latest message gets the   *)
(* one it is handling: Dispatch adds it before the peers are cached and    *)
(* the handlers run, and one goroutine dispatches.                         *)
(***************************************************************************)
THEOREM HandlerSeesOwn == Spec => []HandlerSeesOwnMessage
<1>1. Init => NewestIsOwn
  BY DEF Init, Idle, NewestIsOwn
<1>2. ASSUME DispatcherOK, DispatcherOK', NewestIsOwn, [Next]_vars PROVE NewestIsOwn'
  <2>0. UNCHANGED cacheVars => Last(1)' = Last(1)
    BY DEF cacheVars, Last, orderedLocked
  <2>1. ASSUME NEW m \in Messages, Dispatch(m) PROVE NewestIsOwn'
    <3>1. call'.msg = m /\ call'.cached = shouldCacheMessage(m, matchingRoutes(m) # {})
      BY <2>1 DEF Dispatch
    <3>2. CASE shouldCacheMessage(m, matchingRoutes(m) # {})
      <4>1. Add(m) /\ Limit > 0
        BY <2>1, <3>2 DEF Dispatch, shouldCacheMessage
      <4>2. Last(1)' = <<m>>
        BY <1>2, <4>1, AddedIsLast DEF DispatcherOK
      <4> QED BY <3>1, <4>2 DEF NewestIsOwn
    <3>3. CASE ~shouldCacheMessage(m, matchingRoutes(m) # {})
      BY <3>1, <3>3 DEF NewestIsOwn
    <3> QED BY <3>2, <3>3
  <2>2. CASE ~(\E m \in Messages : Dispatch(m))
    <3>1. UNCHANGED cacheVars
      BY <1>2, <2>2 DEF Next, vars, OnMessage, CacheFrom, CacheChat, RunHandler, Return,
         PutPeer
    <3>2. call \in Calls
      BY <1>2 DEF DispatcherOK
    <3>3. /\ call'.msg = call.msg /\ call'.cached = call.cached
          /\ call'.pc # "idle" => call.pc # "idle"
      BY <1>2, <2>2, <3>2 DEF Next, vars, dispatchVars, OnMessage, CacheFrom, CacheChat,
         RunHandler, Return, PutPeer, Calls
    <3> QED BY <1>2, <2>0, <3>1, <3>3 DEF NewestIsOwn
  <2> QED BY <2>1, <2>2
<1>3. NewestIsOwn => HandlerSeesOwnMessage
  BY DEF NewestIsOwn, HandlerSeesOwnMessage
<1> QED BY <1>1, <1>2, <1>3, AlwaysOK, PTL DEF Spec

(***************************************************************************)
(* The loop over the matched routes: they are those that accepted when the *)
(* call began, and are run in their order.                                 *)
(***************************************************************************)
MatchedAtStart ==
  /\ call.before <= Len(routes)
  /\ call.matched = {i \in 1..call.before : Accepts(routes[i], call.msg)}

RunInOrder ==
  /\ alreadyRan \subseteq call.matched
  /\ ~config.updates => call.ran = <<>>
  /\ \A k, l \in 1..Len(call.ran) : k < l => call.ran[k] < call.ran[l]
  /\ ~call.err => \A i \in call.matched \ alreadyRan, j \in alreadyRan : j < i

AllRun ==
  call.pc = "idle" /\ ~call.err =>
    alreadyRan = IF config.updates THEN call.matched ELSE {}

LoopOK == call # Idle => MatchedAtStart /\ RunInOrder /\ AllRun

\* One more handler has run.
LEMMA RanMore ==
  ASSUME call \in Calls, NEW i \in Nat, call'.ran = Append(call.ran, i)
  PROVE  /\ alreadyRan' = alreadyRan \cup {i}
         /\ Len(call'.ran) = Len(call.ran) + 1 /\ call'.ran[Len(call.ran) + 1] = i
         /\ \A k \in 1..Len(call.ran) : call'.ran[k] = call.ran[k]
<1>1. call.ran \in Seq(Nat)
  BY DEF Calls
<1>2. /\ Len(call'.ran) = Len(call.ran) + 1 /\ call'.ran[Len(call.ran) + 1] = i
      /\ \A k \in 1..Len(call.ran) : call'.ran[k] = call.ran[k]
      /\ Len(call.ran) \in Nat
  BY <1>1
<1>3. alreadyRan' = {call'.ran[k] : k \in 1..Len(call'.ran)}
  BY DEF alreadyRan
<1>4. alreadyRan' \subseteq alreadyRan \cup {i}
  BY <1>2, <1>3 DEF alreadyRan
<1>5. alreadyRan \cup {i} \subseteq alreadyRan'
  BY <1>2, <1>3 DEF alreadyRan
<1> QED BY <1>2, <1>4, <1>5

LEMMA HandlerKeepsLoop ==
  ASSUME DispatcherOK, LoopOK, NEW err \in BOOLEAN, RunHandler(err)
  PROVE  LoopOK'
<1>t. call \in Calls /\ call.ran \in Seq(Nat) /\ Len(call.ran) \in Nat
  BY DEF DispatcherOK, Calls
<1>1. PICK i \in handlersLeft :
        /\ \A j \in handlersLeft : i <= j
        /\ call' = [call EXCEPT !.ran = Append(@, i), !.err = err]
  BY DEF RunHandler
<1>2. /\ config.updates /\ ~call.err /\ handlersLeft = call.matched \ alreadyRan
      /\ i \in call.matched /\ i \notin alreadyRan
  BY <1>1 DEF handlersLeft
<1>3. /\ call'.ran = Append(call.ran, i) /\ call'.err = err /\ call'.matched = call.matched
      /\ call'.before = call.before /\ call'.msg = call.msg /\ call'.pc = "handlers"
      /\ UNCHANGED <<config, routes>>
  BY <1>t, <1>1 DEF RunHandler, Calls
<1>4. call # Idle
  BY DEF RunHandler, Idle
<1>5. call.matched \subseteq Nat /\ i \in Nat
  BY <1>t, <1>2 DEF Calls
<1>6. /\ alreadyRan' = alreadyRan \cup {i}
      /\ Len(call'.ran) = Len(call.ran) + 1 /\ call'.ran[Len(call.ran) + 1] = i
      /\ \A k \in 1..Len(call.ran) : call'.ran[k] = call.ran[k]
  BY <1>t, <1>3, <1>5, RanMore
<1>7. \A k \in 1..Len(call.ran) : call.ran[k] \in alreadyRan /\ call.ran[k] < i
  <2>1. \A j \in alreadyRan : j < i
    BY <1>2, <1>4 DEF LoopOK, RunInOrder
  <2> QED BY <2>1 DEF alreadyRan
<1>8. MatchedAtStart'
  BY <1>3, <1>4 DEF LoopOK, MatchedAtStart
<1>9. \A k, l \in 1..Len(call'.ran) : k < l => call'.ran[k] < call'.ran[l]
  <2> SUFFICES ASSUME NEW k \in 1..Len(call'.ran), NEW l \in 1..Len(call'.ran), k < l
               PROVE  call'.ran[k] < call'.ran[l]
    OBVIOUS
  <2>1. k \in 1..Len(call.ran) /\ call'.ran[k] = call.ran[k]
    BY <1>t, <1>6
  <2>2. CASE l = Len(call.ran) + 1
    BY <1>6, <1>7, <2>1, <2>2
  <2>3. CASE l # Len(call.ran) + 1
    <3>1. l \in 1..Len(call.ran) /\ call'.ran[l] = call.ran[l]
      BY <1>t, <1>6, <2>3
    <3> QED BY <1>4, <2>1, <3>1 DEF LoopOK, RunInOrder
  <2> QED BY <2>2, <2>3
<1>10. \A k \in call.matched \ alreadyRan', j \in alreadyRan' : j < k
  <2> SUFFICES ASSUME NEW k \in call.matched, k \notin alreadyRan', NEW j \in alreadyRan'
               PROVE  j < k
    OBVIOUS
  <2>1. k \in handlersLeft /\ k # i
    BY <1>2, <1>6
  <2>2. i <= k /\ k \in Nat
    BY <1>1, <1>5, <2>1
  <2>3. CASE j = i
    BY <1>5, <2>1, <2>2, <2>3
  <2>4. CASE j # i
    BY <1>2, <1>4, <1>6, <2>1, <2>4 DEF LoopOK, RunInOrder
  <2> QED BY <2>3, <2>4
<1>11. RunInOrder'
  <2>1. alreadyRan' \subseteq call'.matched
    BY <1>2, <1>3, <1>4, <1>6 DEF LoopOK, RunInOrder
  <2> QED BY <1>2, <1>3, <1>9, <1>10, <2>1 DEF RunInOrder
<1> QED BY <1>3, <1>8, <1>11 DEF LoopOK, AllRun

LEMMA NextKeepsLoop == DispatcherOK /\ DispatcherOK' /\ LoopOK /\ [Next]_vars => LoopOK'
<1> SUFFICES ASSUME DispatcherOK, DispatcherOK', LoopOK, [Next]_vars PROVE LoopOK'
  OBVIOUS
<1>t. call \in Calls /\ call' \in Calls /\ routes \in Seq(Routes) /\ Len(routes) \in Nat
  BY DEF DispatcherOK
<1>1. ASSUME NEW r \in Routes, OnMessage(r) PROVE LoopOK'
  <2>1. UNCHANGED <<config, call>> /\ routes' = Append(routes, r)
    BY <1>1 DEF OnMessage
  <2>2. /\ Len(routes') = Len(routes) + 1
        /\ \A i \in 1..Len(routes) : routes'[i] = routes[i]
    BY <1>t, <2>1
  <2>3. call.before \in Nat
    BY <1>t DEF Calls
  <2>4. MatchedAtStart => MatchedAtStart'
    <3> SUFFICES ASSUME MatchedAtStart PROVE MatchedAtStart'
      OBVIOUS
    <3>1. call.before <= Len(routes)
      BY DEF MatchedAtStart
    <3>2. \A i \in 1..call.before : routes'[i] = routes[i]
      BY <1>t, <2>2, <2>3, <3>1
    <3>3. call.before <= Len(routes')
      BY <1>t, <2>2, <2>3, <3>1
    <3>4. call.matched = {i \in 1..call.before : Accepts(routes'[i], call.msg)}
      BY <3>2 DEF MatchedAtStart
    <3> QED BY <2>1, <3>3, <3>4 DEF MatchedAtStart
  <2> QED BY <2>1, <2>4 DEF LoopOK, RunInOrder, AllRun, alreadyRan
<1>2. ASSUME NEW m \in Messages, Dispatch(m) PROVE LoopOK'
  <2>1. /\ call'.before = Len(routes) /\ call'.msg = m /\ call'.matched = matchingRoutes(m)
        /\ call'.ran = <<>> /\ call'.pc # "idle" /\ UNCHANGED <<config, routes>>
    BY <1>2 DEF Dispatch, afterCaching
  <2>2. alreadyRan' = {} /\ Len(call'.ran) = 0
    BY <2>1 DEF alreadyRan
  <2>3. MatchedAtStart'
    BY <1>t, <2>1 DEF MatchedAtStart, matchingRoutes
  <2>4. RunInOrder' /\ AllRun'
    BY <2>1, <2>2 DEF RunInOrder, AllRun
  <2> QED BY <2>3, <2>4 DEF LoopOK
<1>3. ASSUME NEW err \in BOOLEAN, RunHandler(err) PROVE LoopOK'
  BY <1>3, HandlerKeepsLoop
<1>4. CASE CacheFrom \/ CacheChat \/ Return
  <2>1. /\ call'.before = call.before /\ call'.msg = call.msg /\ call'.matched = call.matched
        /\ call'.ran = call.ran /\ call'.err = call.err
        /\ call.pc # "idle" /\ UNCHANGED <<config, routes>>
    BY <1>4, <1>t DEF CacheFrom, CacheChat, Return, Calls
  <2>2. call # Idle
    BY <2>1 DEF Idle
  <2>3. alreadyRan' = alreadyRan
    BY <2>1 DEF alreadyRan
  <2>4. MatchedAtStart' /\ RunInOrder'
    BY <2>1, <2>2, <2>3 DEF LoopOK, MatchedAtStart, RunInOrder
  <2>5. AllRun'
    <3>1. CASE Return
      <4>1. handlersLeft = {}
        BY <3>1 DEF Return
      <4> QED BY <2>1, <2>2, <2>3, <4>1 DEF handlersLeft, LoopOK, RunInOrder, AllRun, alreadyRan
    <3>2. CASE CacheFrom \/ CacheChat
      BY <1>t, <3>2 DEF CacheFrom, CacheChat, AllRun, Calls
    <3> QED BY <1>4, <3>1, <3>2
  <2> QED BY <2>4, <2>5 DEF LoopOK
<1>5. CASE (\E peer \in Peers : PutPeer(peer)) \/ UNCHANGED vars
  <2>1. UNCHANGED <<config, routes, call>>
    BY <1>5 DEF PutPeer, vars, dispatchVars
  <2> QED BY <2>1 DEF LoopOK, MatchedAtStart, RunInOrder, AllRun, alreadyRan
<1> QED BY <1>1, <1>2, <1>3, <1>4, <1>5 DEF Next

(***************************************************************************)
(* A dispatch that returns without error has run exactly the accepting     *)
(* routes that were registered when it began, each once and in order; a    *)
(* handler that registers routes does not change the call it runs in.      *)
(***************************************************************************)
THEOREM RunsMatching == Spec => []DispatchRunsMatchingRoutes
<1>1. Init => LoopOK
  BY DEF Init, LoopOK
<1>2. LoopOK => DispatchRunsMatchingRoutes
  <2> SUFFICES ASSUME LoopOK, call.pc = "idle", call # Idle, ~call.err
               PROVE  /\ alreadyRan = {i \in 1..call.before :
                                         config.updates /\ Accepts(routes[i], call.msg)}
                      /\ \A k, l \in 1..Len(call.ran) : k < l => call.ran[k] < call.ran[l]
    BY DEF DispatchRunsMatchingRoutes
  <2> QED BY DEF LoopOK, MatchedAtStart, RunInOrder, AllRun
<1> QED BY <1>1, <1>2, NextKeepsLoop, AlwaysOK, PTL DEF Spec
=============================================================================

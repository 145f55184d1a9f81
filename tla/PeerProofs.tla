----------------------------- MODULE PeerProofs -----------------------------
(***************************************************************************)
(* Proofs about the peer table and the public chat ids, for every set of   *)
(* dialogs, those that share a raw id with one of another class included.  *)
(*                                                                         *)
(* The invariant has two layers.  Of every key of the table it says which  *)
(* raw id it belongs to, so that what is stored for one raw id never       *)
(* touches the keys of another.  Of a dialog that does not share its raw   *)
(* id it says that the table knows it under both its ids or under neither, *)
(* with one entry that fits it; the dialogs that do share theirs may       *)
(* overwrite each other and take over each other's hashes.                 *)
(***************************************************************************)
EXTENDS PeerTable, SequenceTheorems, FiniteSetTheorems, TLAPS

Pub(d) == publicPeerID(d)

\* What a peer of dialog d may look like: with or without its hash, and a
\* supergroup perhaps as a channel.
RefsOf(d) ==
  {p \in [id : {d.id}, kind : Kinds, hash : {0, d.hash}] :
     p.kind = d.kind \/ (p.kind = "channel" /\ d.kind = "supergroup")}

\* Any peer the code handles: it has the id of a dialog and, if only one
\* dialog has that id, fits it.
Refs ==
  {p \in PeerRefs : \A d \in Dialogs : p.id = d.id /\ Unshared(d.id) => p \in RefsOf(d)}

\* The table: a key is the raw or the public id of the peer under it; a dialog
\* with a raw id of its own has both keys or none, and the same entry under both.
TableOK ==
  /\ \A key \in DOMAIN table :
       table[key] \in Refs /\ key \in {table[key].id, publicPeerID(table[key])}
  /\ \A d \in Dialogs : Unshared(d.id) => (d.id \in DOMAIN table <=> Pub(d) \in DOMAIN table)
  /\ \A d \in Dialogs : Unshared(d.id) /\ d.id \in DOMAIN table => table[Pub(d)] = table[d.id]
  /\ IsFiniteSet(Stored)

\* What is on its way into the table, and what has left it.
FlowOK ==
  /\ pending \in Seq(Refs)
  /\ msg \in {<<>>} \cup {<<d>> : d \in Dialogs}
  /\ saved \subseteq Refs /\ IsFiniteSet(saved)
  /\ \A u \in dispatched :
       /\ u.chat \in Dialogs /\ RawChatID(u.chatID) = u.chat.id
       /\ Unshared(u.chat.id) => u.chatID = Pub(u.chat)

\* The table knows at least what p says.
Covered(p) == p.id \in DOMAIN table /\ (p.hash # 0 => table[p.id].hash = p.hash)

\* After a login with a saved session its peers are known or still to come.
RestoreOK ==
  login = "saved" =>
    \A p \in saved : Unshared(p.id) =>
      Covered(p) \/ \E k \in 1..Len(pending) : pending[k] = p

PeersOK == TableOK /\ FlowOK /\ RestoreOK
------------------------------------------------------------------------------
\* Telegram's ids are positive and below the offset.
LEMMA DialogTyped ==
  ASSUME NEW d \in Dialogs
  PROVE  /\ d.id \in Nat /\ d.id > 0 /\ d.id < Offset /\ Offset \in Nat
         /\ d.kind \in Kinds /\ (d.kind = "chat" <=> d.hash = 0)
         /\ d = [id |-> d.id, kind |-> d.kind, hash |-> d.hash]
BY DialogsAssumption

\* A public id leads back to the raw id it was made from, whatever kind was
\* taken for the peer, and a raw id is taken for itself.
LEMMA RawOfPublic ==
  ASSUME NEW d \in Dialogs, NEW kind \in Kinds
  PROVE  /\ NormalizeChatID(d.id, kind) \in Int \ {0}
         /\ RawChatID(NormalizeChatID(d.id, kind)) = d.id /\ RawChatID(d.id) = d.id
<1> DEFINE pub == NormalizeChatID(d.id, kind)
<1>1. d.id \in Nat /\ d.id > 0 /\ d.id < Offset /\ Offset \in Nat
  BY DialogTyped
<1>2. RawChatID(d.id) = d.id
  BY <1>1 DEF RawChatID
<1>3. CASE kind = "chat"
  <2>1. pub = -d.id
    BY <1>1, <1>3 DEF NormalizeChatID
  <2>2. ~(-d.id <= -Offset) /\ -d.id < 0 /\ -(-d.id) = d.id /\ -d.id \in Int
    BY <1>1
  <2>3. RawChatID(-d.id) = d.id
    BY <2>2 DEF RawChatID
  <2> QED BY <1>2, <2>1, <2>2, <2>3
<1>4. CASE kind \in {"channel", "supergroup"}
  <2>1. pub = -Offset - d.id
    BY <1>1, <1>4 DEF NormalizeChatID
  <2>2. /\ -Offset - d.id <= -Offset /\ -Offset - d.id < 0
        /\ -(-Offset - d.id) - Offset = d.id /\ -Offset - d.id \in Int
    BY <1>1
  <2>3. RawChatID(-Offset - d.id) = d.id
    BY <2>2 DEF RawChatID
  <2> QED BY <1>2, <2>1, <2>2, <2>3
<1>5. CASE kind \notin {"chat", "channel", "supergroup"}
  <2>1. pub = d.id
    BY <1>1, <1>5 DEF NormalizeChatID
  <2> QED BY <1>1, <1>2, <2>1
<1> QED BY <1>3, <1>4, <1>5

\* So for a dialog,
LEMMA RawOfPub ==
  ASSUME NEW d \in Dialogs
  PROVE  Pub(d) \in Int \ {0} /\ RawChatID(Pub(d)) = d.id /\ RawChatID(d.id) = d.id
BY DialogTyped, RawOfPublic DEF Pub, publicPeerID

\* and for a peer: both its keys belong to its raw id.
LEMMA RawOfKeys ==
  ASSUME NEW p \in Refs
  PROVE  /\ p.id # 0 /\ publicPeerID(p) # 0
         /\ RawChatID(p.id) = p.id /\ RawChatID(publicPeerID(p)) = p.id
<1>1. p \in PeerRefs /\ p.kind \in Kinds
  BY DEF Refs, PeerRefs
<1>2. PICK d \in Dialogs : p.id = d.id
  BY <1>1 DEF PeerRefs
<1>3. d.id # 0
  BY DialogTyped
<1> QED BY <1>1, <1>2, <1>3, RawOfPublic DEF publicPeerID

\* Whatever a peer of a dialog looks like, its public id is the dialog's.
LEMMA OnePublicID ==
  ASSUME NEW d \in Dialogs, NEW p \in RefsOf(d)
  PROVE  p.id = d.id /\ publicPeerID(p) = Pub(d) /\ NormalizeChatID(d.id, p.kind) = Pub(d)
<1>1. p.id = d.id /\ (p.kind = d.kind \/ (p.kind = "channel" /\ d.kind = "supergroup"))
  BY DEF RefsOf
<1> QED BY <1>1 DEF Pub, publicPeerID, NormalizeChatID

\* Dialogs of one raw id of their own are one dialog.
LEMMA IdOfItsOwn ==
  ASSUME NEW d \in Dialogs, NEW e \in Dialogs, Unshared(d.id), d.id = e.id
  PROVE  d = e
BY DEF Unshared

\* A peer with the id of such a dialog is a peer of it, and the other way
\* round every peer of a dialog is one the code may handle.
LEMMA RefTyped ==
  ASSUME NEW d \in Dialogs, Unshared(d.id)
  PROVE  /\ \A p \in Refs : p.id = d.id => p \in RefsOf(d)
         /\ TableOK /\ d.id \in DOMAIN table => table[d.id] \in RefsOf(d)
<1>1. \A p \in Refs : p.id = d.id => p \in RefsOf(d)
  BY DEF Refs
<1>2. RawChatID(d.id) = d.id
  BY RawOfPub
<1>3. ASSUME TableOK, d.id \in DOMAIN table PROVE table[d.id] \in RefsOf(d)
  <2>1. PICK p \in Refs : p = table[d.id] /\ d.id \in {p.id, publicPeerID(p)}
    BY <1>3 DEF TableOK
  <2>2. p.id = d.id
    BY <1>2, <2>1, RawOfKeys
  <2> QED BY <1>1, <2>1, <2>2
<1> QED BY <1>1, <1>3

LEMMA RefsOfTyped ==
  ASSUME NEW d \in Dialogs
  PROVE  RefsOf(d) \subseteq Refs
<1> SUFFICES ASSUME NEW p \in RefsOf(d) PROVE p \in Refs
  OBVIOUS
<1>1. d.hash \in Hashes \cup {0}
  BY DialogsAssumption
<1>2. p \in PeerRefs /\ p.id = d.id
  BY <1>1 DEF RefsOf, PeerRefs
<1>3. ASSUME NEW e \in Dialogs, p.id = e.id, Unshared(e.id) PROVE p \in RefsOf(e)
  BY <1>2, <1>3, IdOfItsOwn
<1> QED BY <1>2, <1>3 DEF Refs
------------------------------------------------------------------------------
(***************************************************************************)
(* mergePeerLocked and storePeerLocked.                                    *)
(***************************************************************************)
\* Merging with an entry of the same dialog.
LEMMA MergedWith ==
  ASSUME TableOK, NEW d \in Dialogs, Unshared(d.id), NEW p \in RefsOf(d),
         NEW key \in {d.id, Pub(d)}
  PROVE  /\ mergeWith(p, key) \in RefsOf(d)
         /\ p.hash # 0 => mergeWith(p, key).hash = p.hash
         /\ p.kind = "supergroup" => mergeWith(p, key).kind = "supergroup"
         /\ d.id \in DOMAIN table =>
              /\ table[d.id].hash # 0 => mergeWith(p, key).hash # 0
              /\ table[d.id].kind = "supergroup" => mergeWith(p, key).kind = "supergroup"
<1>1. /\ p.id = d.id /\ p.kind \in Kinds /\ p.hash \in {0, d.hash}
      /\ p.kind = d.kind \/ (p.kind = "channel" /\ d.kind = "supergroup")
      /\ p = [id |-> p.id, kind |-> p.kind, hash |-> p.hash]
  BY DEF RefsOf
<1>2. key # 0
  BY DialogTyped, RawOfPub
<1>3. CASE key \notin DOMAIN table
  <2>1. d.id \notin DOMAIN table
    BY <1>3 DEF TableOK
  <2>2. mergeWith(p, key) = p
    BY <1>3 DEF mergeWith
  <2> QED BY <1>1, <2>1, <2>2
<1>4. CASE key \in DOMAIN table
  <2> DEFINE old == table[d.id]
             hash == IF p.hash = 0 THEN old.hash ELSE p.hash
             kind == IF p.kind = "channel" /\ old.kind = "supergroup" THEN old.kind
                     ELSE p.kind
  <2>1. d.id \in DOMAIN table /\ old \in RefsOf(d) /\ table[key] = old
    BY <1>4, RefTyped DEF TableOK
  <2>2. mergeWith(p, key) = [p EXCEPT !.hash = hash, !.kind = kind]
    BY <1>2, <1>4, <2>1 DEF mergeWith
  <2> HIDE DEF old
  <2>3. old.hash \in {0, d.hash} /\ (old.kind = "supergroup" => d.kind = "supergroup")
    BY <2>1 DEF RefsOf
  <2>4. hash \in {0, d.hash} /\ (old.hash # 0 => hash # 0) /\ (p.hash # 0 => hash = p.hash)
    BY <1>1, <2>3
  <2>5. /\ kind \in Kinds /\ (kind = d.kind \/ (kind = "channel" /\ d.kind = "supergroup"))
        /\ p.kind = "supergroup" => kind = "supergroup"
        /\ old.kind = "supergroup" => kind = "supergroup"
    BY <1>1, <2>3 DEF Kinds
  <2> HIDE DEF hash, kind
  <2>6. p \in [id : {d.id}, kind : Kinds, hash : {0, d.hash}]
    BY DEF RefsOf
  <2>7. /\ mergeWith(p, key) \in [id : {d.id}, kind : Kinds, hash : {0, d.hash}]
        /\ mergeWith(p, key).hash = hash /\ mergeWith(p, key).kind = kind
    BY <2>2, <2>4, <2>5, <2>6
  <2>8. mergeWith(p, key) \in RefsOf(d)
    BY <2>5, <2>7 DEF RefsOf
  <2> QED BY <2>1, <2>4, <2>5, <2>7, <2>8 DEF old
<1> QED BY <1>3, <1>4

\* Merging with both: the result is a peer of the same dialog and says no
\* less than what came, nor than what was known.
LEMMA Merged ==
  ASSUME TableOK, NEW d \in Dialogs, Unshared(d.id), NEW p \in RefsOf(d)
  PROVE  /\ mergePeerLocked(p) \in RefsOf(d)
         /\ p.hash # 0 => mergePeerLocked(p).hash = p.hash
         /\ d.id \in DOMAIN table =>
              /\ table[d.id].hash # 0 => mergePeerLocked(p).hash # 0
              /\ table[d.id].kind = "supergroup" => mergePeerLocked(p).kind = "supergroup"
<1> DEFINE q == mergeWith(p, d.id)
<1>1. /\ q \in RefsOf(d) /\ (p.hash # 0 => q.hash = p.hash)
      /\ d.id \in DOMAIN table =>
           /\ table[d.id].hash # 0 => q.hash # 0
           /\ table[d.id].kind = "supergroup" => q.kind = "supergroup"
  BY MergedWith
<1>2. p.id = d.id /\ publicPeerID(p) = Pub(d)
  BY OnePublicID
<1>3. mergePeerLocked(p) = mergeWith(q, Pub(d))
  BY <1>2 DEF mergePeerLocked
<1> HIDE DEF q
<1>4. /\ mergeWith(q, Pub(d)) \in RefsOf(d)
      /\ q.hash # 0 => mergeWith(q, Pub(d)).hash = q.hash
      /\ d.id \in DOMAIN table =>
           /\ table[d.id].hash # 0 => mergeWith(q, Pub(d)).hash # 0
           /\ table[d.id].kind = "supergroup" => mergeWith(q, Pub(d)).kind = "supergroup"
  BY <1>1, MergedWith
<1> QED BY <1>1, <1>3, <1>4

\* Merging for any dialog, with whatever the two keys hold: the result has
\* the keys of what came, no hash is lost and no supergroup turns back.
LEMMA MergedAny ==
  ASSUME TableOK, NEW p \in Refs
  PROVE  /\ mergePeerLocked(p) \in PeerRefs
         /\ mergePeerLocked(p).id = p.id
         /\ publicPeerID(mergePeerLocked(p)) = publicPeerID(p)
         /\ \A key \in {p.id, publicPeerID(p)} : key \in DOMAIN table =>
              /\ table[key].hash # 0 => mergePeerLocked(p).hash # 0
              /\ table[key].kind = "supergroup" => mergePeerLocked(p).kind # "channel"
<1> DEFINE Result(q, r) ==
             /\ r \in PeerRefs /\ r.id = q.id
             /\ r.kind = q.kind \/ (q.kind = "channel" /\ r.kind = "supergroup")
             /\ q.hash # 0 => r.hash # 0
           Heeds(r, key) ==
             key \in DOMAIN table =>
               /\ table[key].hash # 0 => r.hash # 0
               /\ table[key].kind = "supergroup" => r.kind # "channel"
<1>1. ASSUME NEW q \in PeerRefs, NEW key, key # 0
      PROVE  Result(q, mergeWith(q, key)) /\ Heeds(mergeWith(q, key), key)
  <2>1. CASE key \notin DOMAIN table
    BY <2>1 DEF mergeWith
  <2>2. CASE key \in DOMAIN table
    <3>1. PICK old \in PeerRefs : old = table[key]
      BY <2>2 DEF TableOK, Refs
    <3> DEFINE hash == IF q.hash = 0 THEN old.hash ELSE q.hash
               kind == IF q.kind = "channel" /\ old.kind = "supergroup" THEN old.kind
                       ELSE q.kind
    <3>2. mergeWith(q, key) = [q EXCEPT !.hash = hash, !.kind = kind]
      BY <1>1, <2>2, <3>1 DEF mergeWith
    <3>3. /\ hash \in Hashes \cup {0} /\ (q.hash # 0 => hash # 0) /\ (old.hash # 0 => hash # 0)
      BY DEF PeerRefs
    <3>4. /\ kind \in Kinds
          /\ kind = q.kind \/ (q.kind = "channel" /\ kind = "supergroup")
          /\ old.kind = "supergroup" => kind # "channel"
      BY DEF PeerRefs, Kinds
    <3> HIDE DEF hash, kind
    <3>5. /\ mergeWith(q, key) \in PeerRefs /\ mergeWith(q, key).id = q.id
          /\ mergeWith(q, key).hash = hash /\ mergeWith(q, key).kind = kind
      BY <3>2, <3>3, <3>4 DEF PeerRefs
    <3> QED BY <3>1, <3>3, <3>4, <3>5
  <2> QED BY <2>1, <2>2
<1>2. p.id # 0 /\ publicPeerID(p) # 0 /\ p \in PeerRefs
  BY RawOfKeys DEF Refs
<1>3. PICK q : q = mergeWith(p, p.id)
  OBVIOUS
<1>4. PICK r : r = mergeWith(q, publicPeerID(p))
  OBVIOUS
<1>5. mergePeerLocked(p) = r
  BY <1>3, <1>4 DEF mergePeerLocked
<1>6. Result(p, q) /\ Heeds(q, p.id)
  BY <1>1, <1>2, <1>3
<1>7. Result(q, r) /\ Heeds(r, publicPeerID(p))
  BY <1>1, <1>2, <1>4, <1>6
<1>8. Result(p, r) /\ Heeds(r, p.id)
  BY <1>6, <1>7
<1>9. publicPeerID(r) = publicPeerID(p)
  BY <1>8 DEF publicPeerID, NormalizeChatID
<1> QED BY <1>5, <1>7, <1>8, <1>9

\* Merging a peer gives a peer.
LEMMA MergedRef ==
  ASSUME TableOK, NEW p \in Refs
  PROVE  mergePeerLocked(p) \in Refs
<1>1. mergePeerLocked(p) \in PeerRefs /\ mergePeerLocked(p).id = p.id
  BY MergedAny
<1>2. ASSUME NEW d \in Dialogs, p.id = d.id, Unshared(d.id)
      PROVE  mergePeerLocked(p) \in RefsOf(d)
  BY <1>2, RefTyped, Merged
<1> QED BY <1>1, <1>2 DEF Refs

\* Storing a peer changes what its two keys hold and nothing else.
LEMMA StoredOne ==
  ASSUME TableOK, NEW q \in Refs, storePeerLocked(q)
  PROVE  /\ TableOK'
         /\ q.id \in DOMAIN table' /\ table'[q.id] = q /\ table'[publicPeerID(q)] = q
         /\ \A key \in DOMAIN table :
              /\ key \in DOMAIN table'
              /\ key \notin {q.id, publicPeerID(q)} => table'[key] = table[key]
<1> DEFINE keys == {q.id, publicPeerID(q)}
<1>1. table' = [key \in DOMAIN table \cup keys |-> IF key \in keys THEN q ELSE table[key]]
  BY DEF storePeerLocked
<1>2. \A key \in keys : RawChatID(key) = q.id
  BY RawOfKeys
<1>3. q.id \in keys /\ publicPeerID(q) \in keys
  OBVIOUS
<1> HIDE DEF keys
<1>4. /\ DOMAIN table' = DOMAIN table \cup keys
      /\ \A key \in keys : table'[key] = q
      /\ \A key \in DOMAIN table : key \notin keys => table'[key] = table[key]
  BY <1>1
<1>5. \A key \in DOMAIN table' :
        table'[key] \in Refs /\ key \in {table'[key].id, publicPeerID(table'[key])}
  BY <1>4 DEF TableOK, keys
<1>6. ASSUME NEW e \in Dialogs, Unshared(e.id)
      PROVE  /\ e.id \in DOMAIN table' <=> Pub(e) \in DOMAIN table'
             /\ e.id \in DOMAIN table' => table'[Pub(e)] = table'[e.id]
  <2>1. RawChatID(e.id) = e.id /\ RawChatID(Pub(e)) = e.id
    BY RawOfPub
  <2>2. CASE e.id = q.id
    <3>1. q \in RefsOf(e)
      BY <1>6, <2>2, RefTyped
    <3>2. e.id \in keys /\ Pub(e) \in keys
      BY <1>3, <3>1, OnePublicID
    <3> QED BY <1>4, <3>2
  <2>3. CASE e.id # q.id
    <3>1. e.id \notin keys /\ Pub(e) \notin keys
      BY <1>2, <2>1, <2>3
    <3> QED BY <1>4, <1>6, <3>1 DEF TableOK
  <2> QED BY <2>2, <2>3
<1>7. IsFiniteSet(Stored')
  <2>1. Stored' = {table'[key] : key \in DOMAIN table'}
    BY DEF Stored
  <2>2. Stored' \subseteq Stored \cup {q}
    BY <1>4, <2>1 DEF Stored
  <2>3. IsFiniteSet(Stored \cup {q})
    BY FS_AddElement DEF TableOK
  <2> QED BY <2>2, <2>3, FS_Subset
<1>8. TableOK'
  BY <1>5, <1>6, <1>7 DEF TableOK
<1> QED BY <1>3, <1>4, <1>8 DEF keys

\* What the table covers it goes on covering: entries stay, hashes stay and
\* supergroups stay supergroups.
LEMMA RememberKeeps ==
  ASSUME TableOK, FlowOK, RememberNext
  PROVE  /\ TableOK'
         /\ \A key \in DOMAIN table :
              /\ key \in DOMAIN table'
              /\ table[key].hash # 0 => table'[key].hash # 0
              /\ table[key].kind = "supergroup" => table'[key].kind # "channel"
         /\ \A p \in Refs : Unshared(p.id) =>
              (p = Head(pending) \/ Covered(p) => Covered(p)')
<1>1. PICK p0 \in Refs : p0 = Head(pending)
  BY DEF RememberNext, FlowOK
<1>2. PICK q \in Refs : q = mergePeerLocked(p0)
  BY MergedRef
<1>3. storePeerLocked(q)
  BY <1>1, <1>2 DEF RememberNext
<1>4. /\ q.id = p0.id /\ publicPeerID(q) = publicPeerID(p0)
      /\ \A key \in {q.id, publicPeerID(q)} : key \in DOMAIN table =>
           /\ table[key].hash # 0 => q.hash # 0
           /\ table[key].kind = "supergroup" => q.kind # "channel"
  BY <1>2, MergedAny
<1>5. /\ TableOK'
      /\ q.id \in DOMAIN table' /\ table'[q.id] = q /\ table'[publicPeerID(q)] = q
      /\ \A key \in DOMAIN table :
           /\ key \in DOMAIN table'
           /\ key \notin {q.id, publicPeerID(q)} => table'[key] = table[key]
  BY <1>3, StoredOne
<1>6. ASSUME NEW key \in DOMAIN table
      PROVE  /\ key \in DOMAIN table'
             /\ table[key].hash # 0 => table'[key].hash # 0
             /\ table[key].kind = "supergroup" => table'[key].kind # "channel"
  <2>1. CASE key \in {q.id, publicPeerID(q)}
    <3>1. table'[key] = q
      BY <1>5, <2>1
    <3> QED BY <1>4, <1>5, <2>1, <3>1
  <2>2. CASE key \notin {q.id, publicPeerID(q)}
    BY <1>5, <2>2
  <2> QED BY <2>1, <2>2
<1>7. ASSUME NEW p \in Refs, Unshared(p.id), p = p0 \/ Covered(p) PROVE Covered(p)'
  <2>1. PICK d \in Dialogs : p.id = d.id
    BY DEF Refs, PeerRefs
  <2>2. p \in RefsOf(d) /\ p.hash \in {0, d.hash}
    BY <1>7, <2>1, RefTyped DEF RefsOf
  <2>3. CASE p.id = q.id
    <3>1. p0 \in RefsOf(d) /\ q \in RefsOf(d) /\ q.hash \in {0, d.hash}
      <4>1. Unshared(d.id) /\ q.id = d.id /\ p0.id = d.id
        BY <1>4, <1>7, <2>1, <2>3
      <4>2. p0 \in RefsOf(d) /\ q \in RefsOf(d)
        BY <4>1, RefTyped
      <4> QED BY <4>2 DEF RefsOf
    <3>2. p = p0 => (p.hash # 0 => q.hash = p.hash)
      BY <1>2, <1>7, <2>1, <3>1, Merged
    <3>3. Covered(p) /\ p.hash # 0 => q.hash # 0
      BY <1>4, <2>3 DEF Covered
    <3>4. p.hash # 0 => q.hash = p.hash
      BY <1>7, <2>2, <3>1, <3>2, <3>3
    <3> QED BY <1>5, <2>3, <3>4 DEF Covered
  <2>4. CASE p.id # q.id
    <3>1. Covered(p) /\ RawChatID(p.id) = p.id /\ RawChatID(publicPeerID(q)) = q.id
      BY <1>4, <1>7, <2>4, RawOfKeys
    <3>2. p.id \notin {q.id, publicPeerID(q)}
      BY <2>4, <3>1
    <3> QED BY <1>5, <3>1, <3>2 DEF Covered
  <2> QED BY <2>3, <2>4
<1> QED BY <1>1, <1>5, <1>6, <1>7

LEMMA InitPeersOK == Init => PeersOK
<1> SUFFICES ASSUME Init PROVE PeersOK
  OBVIOUS
<1>1. DOMAIN table = {} /\ Stored = {}
  BY DEF Init, Stored
<1>2. TableOK
  BY <1>1, FS_EmptySet DEF TableOK
<1>3. FlowOK
  BY FS_EmptySet DEF Init, FlowOK
<1>4. RestoreOK
  BY DEF Init, RestoreOK
<1> QED BY <1>2, <1>3, <1>4 DEF PeersOK

\* The peers that a difference, a message or a username brings.
LEMMA SourcesTyped ==
  /\ \A d \in Dialogs : d \in RefsOf(d) /\ parsePeer(d) \in RefsOf(d)
  /\ \A d \in Dialogs : [d EXCEPT !.hash = 0] \in RefsOf(d)
  /\ vectorRefs \subseteq Refs /\ resolvedRefs \subseteq Refs
  /\ scanPeerRefs \subseteq Seq(Refs)
<1>1. ASSUME NEW d \in Dialogs
      PROVE  d \in RefsOf(d) /\ parsePeer(d) \in RefsOf(d) /\ [d EXCEPT !.hash = 0] \in RefsOf(d)
  <2>1. d \in [id : Nat \ {0}, kind : Kinds, hash : Hashes \cup {0}]
    BY DialogsAssumption
  <2>2. d \in [id : {d.id}, kind : Kinds, hash : {0, d.hash}]
    BY <2>1
  <2>3. /\ [d EXCEPT !.hash = 0] \in [id : {d.id}, kind : Kinds, hash : {0, d.hash}]
        /\ [d EXCEPT !.hash = 0].kind = d.kind
    BY <2>2
  <2>4. /\ parsePeer(d) \in [id : {d.id}, kind : Kinds, hash : {0, d.hash}]
        /\ parsePeer(d).kind = d.kind
           \/ (parsePeer(d).kind = "channel" /\ d.kind = "supergroup")
    BY <2>1 DEF parsePeer, Kinds
  <2> QED BY <2>2, <2>3, <2>4 DEF RefsOf
<1>2. vectorRefs \subseteq Refs
  <2> SUFFICES ASSUME NEW p \in vectorRefs PROVE p \in Refs
    OBVIOUS
  <2>1. PICK d \in Dialogs : p = d \/ p = [d EXCEPT !.hash = 0]
    BY DEF vectorRefs
  <2>2. p \in RefsOf(d)
    BY <1>1, <2>1
  <2> QED BY <2>2, RefsOfTyped
<1>3. resolvedRefs \subseteq Refs
  <2> SUFFICES ASSUME NEW d \in Dialogs PROVE parsePeer(d) \in Refs
    BY <1>2 DEF resolvedRefs
  <2> QED BY <1>1, RefsOfTyped
<1>4. ASSUME NEW l \in scanPeerRefs PROVE l \in Seq(Refs)
  <2>1. PICK n \in 1..MaxBatch : l \in [1..n -> vectorRefs]
    BY DEF scanPeerRefs
  <2>2. n \in Nat /\ l \in [1..n -> Refs]
    BY <1>2, <2>1, DialogsAssumption
  <2> QED BY <2>2
<1> QED BY <1>1, <1>2, <1>3, <1>4
------------------------------------------------------------------------------
(***************************************************************************)
(* Every step preserves the invariant.                                     *)
(***************************************************************************)
\* rememberPeers takes the lock, or a login leaves the table as it is.
LEMMA TakenUp ==
  ASSUME PeersOK, pending = <<>>, UNCHANGED <<table, saved, dispatched>>,
         login' = login \/ login' = "fresh", pending' \in Seq(Refs),
         msg' \in {<<>>} \cup {<<d>> : d \in Dialogs}
  PROVE  PeersOK'
<1>1. TableOK'
  BY DEF PeersOK, TableOK, Stored
<1>2. FlowOK'
  BY DEF PeersOK, FlowOK
<1>3. Len(pending) = 0
  OBVIOUS
<1>4. login = "saved" => \A p \in saved : Unshared(p.id) => Covered(p)
  BY <1>3 DEF PeersOK, RestoreOK
<1>5. RestoreOK'
  BY <1>4 DEF RestoreOK, Covered
<1> QED BY <1>1, <1>2, <1>5 DEF PeersOK

\* An entry of the table is a peer; if it does not share its raw id, it is
\* there under the raw id too.
LEMMA StoredTyped ==
  ASSUME TableOK, NEW p \in Stored
  PROVE  p \in Refs /\ (Unshared(p.id) => Covered(p))
<1>1. PICK key \in DOMAIN table : p = table[key]
  BY DEF Stored
<1>2. p \in Refs
  BY <1>1 DEF TableOK
<1>3. ASSUME Unshared(p.id) PROVE Covered(p)
  <2>1. PICK d \in Dialogs : p.id = d.id
    BY <1>2 DEF Refs, PeerRefs
  <2>2. key \in {p.id, publicPeerID(p)}
    BY <1>1 DEF TableOK
  <2>3. p \in RefsOf(d) /\ publicPeerID(p) = Pub(d)
    BY <1>2, <1>3, <2>1, RefTyped, OnePublicID
  <2>4. d.id \in DOMAIN table /\ p = table[d.id]
    BY <1>1, <1>3, <2>1, <2>2, <2>3 DEF TableOK
  <2> QED BY <2>1, <2>4 DEF Covered
<1> QED BY <1>2, <1>3

LEMMA NextPeersOK == PeersOK /\ [Next]_tableVars => PeersOK'
<1> SUFFICES ASSUME PeersOK, [Next]_tableVars PROVE PeersOK'
  OBVIOUS
<1>t. /\ TableOK /\ FlowOK /\ RestoreOK /\ pending \in Seq(Refs) /\ saved \subseteq Refs
      /\ msg \in {<<>>} \cup {<<d>> : d \in Dialogs}
  BY DEF PeersOK, FlowOK
<1>1. CASE RememberNext
  <2>1. /\ TableOK'
        /\ \A p \in Refs : Unshared(p.id) =>
             (p = Head(pending) \/ Covered(p) => Covered(p)')
    BY <1>1, <1>t, RememberKeeps
  <2>2. pending # <<>> /\ pending' = Tail(pending) /\ UNCHANGED <<msg, login, saved, dispatched>>
    BY <1>1 DEF RememberNext, tableless
  <2>3. pending' \in Seq(Refs)
    BY <1>t, <2>2
  <2>4. FlowOK'
    BY <2>2, <2>3 DEF PeersOK, FlowOK
  <2>5. RestoreOK'
    <3> SUFFICES ASSUME login = "saved", NEW p \in saved, Unshared(p.id)
                 PROVE  Covered(p)' \/ \E k \in 1..Len(pending') : pending'[k] = p
      BY <2>2 DEF RestoreOK
    <3>1. CASE Covered(p)
      BY <1>t, <2>1, <3>1
    <3>2. ASSUME NEW k \in 1..Len(pending), pending[k] = p
          PROVE  Covered(p)' \/ \E l \in 1..Len(pending') : pending'[l] = p
      <4>1. CASE k = 1
        <5>1. p = Head(pending)
          BY <1>t, <2>2, <3>2, <4>1
        <5> QED BY <1>t, <2>1, <5>1
      <4>2. CASE k # 1
        <5>1. k - 1 \in 1..Len(Tail(pending)) /\ Tail(pending)[k - 1] = pending[k]
          BY <1>t, <2>2, <3>2, <4>2
        <5> QED BY <2>2, <3>2, <5>1
      <4> QED BY <4>1, <4>2
    <3> QED BY <1>t, <3>1, <3>2 DEF RestoreOK
  <2> QED BY <2>1, <2>4, <2>5 DEF PeersOK
<1>2. ASSUME NEW peers \in scanPeerRefs, RememberVectors(peers) PROVE PeersOK'
  <2>1. pending' \in Seq(Refs) /\ pending = <<>>
    BY <1>2, SourcesTyped DEF RememberVectors, Remember
  <2> QED BY <1>2, <1>t, <2>1, TakenUp DEF RememberVectors
<1>3. ASSUME NEW chat \in Dialogs,
             NEW senders \in {<<>>} \cup
               {<<parsePeer(u)>> : u \in {d \in Dialogs : d.kind = "user"}},
             RememberMessage(chat, senders)
      PROVE  PeersOK'
  <2>1. \A d \in Dialogs : parsePeer(d) \in Refs
    BY SourcesTyped, RefsOfTyped
  <2>2. <<parsePeer(chat)>> \in Seq(Refs) /\ senders \in Seq(Refs)
    <3>1. ASSUME NEW d \in Dialogs PROVE <<parsePeer(d)>> \in Seq(Refs)
      <4>1. PICK r \in Refs : r = parsePeer(d)
        BY <2>1
      <4>2. <<r>> \in Seq(Refs)
        OBVIOUS
      <4> QED BY <4>1, <4>2
    <3>2. <<>> \in Seq(Refs)
      OBVIOUS
    <3>3. senders = <<>> \/ \E u \in Dialogs : senders = <<parsePeer(u)>>
      OBVIOUS
    <3> QED BY <3>1, <3>2, <3>3
  <2>3. <<parsePeer(chat)>> \o senders \in Seq(Refs)
    BY <2>2, ConcatProperties
  <2>4. pending' \in Seq(Refs) /\ pending = <<>> /\ msg' \in {<<d>> : d \in Dialogs}
    BY <1>3, <2>3 DEF RememberMessage, Remember
  <2> QED BY <1>3, <2>4, TakenUp DEF RememberMessage
<1>4. CASE ToUpdate
  <2>1. PICK chat \in Dialogs : msg = <<chat>>
    BY <1>4, <1>t DEF ToUpdate
  <2> DEFINE kind == IF isCached(chat.id) THEN getPeer(chat.id).kind ELSE parsePeer(chat).kind
  <2>2. /\ dispatched' = dispatched \cup
                           {[chat |-> chat, chatID |-> NormalizeChatID(chat.id, kind)]}
        /\ msg' = <<>> /\ UNCHANGED <<table, pending, login, saved>>
    BY <1>4, <2>1 DEF ToUpdate
  <2>3. /\ kind \in Kinds
        /\ Unshared(chat.id) => \E p \in RefsOf(chat) : p.kind = kind
    <3>1. keyOf(chat.id) = chat.id
      BY RawOfPub DEF keyOf
    <3>2. CASE isCached(chat.id)
      <4>1. PICK p \in Refs : p = table[chat.id]
        BY <1>t, <3>1, <3>2 DEF isCached, TableOK
      <4>2. p.kind = kind /\ p.kind \in Kinds
        BY <3>1, <3>2, <4>1 DEF getPeer, Refs, PeerRefs
      <4>3. Unshared(chat.id) => p \in RefsOf(chat)
        BY <1>t, <3>1, <3>2, <4>1, RefTyped DEF isCached
      <4> QED BY <4>2, <4>3
    <3>3. CASE ~isCached(chat.id)
      <4>1. PICK p \in RefsOf(chat) : p = parsePeer(chat)
        BY SourcesTyped
      <4>2. p.kind = kind /\ p.kind \in Kinds
        BY <3>3, <4>1 DEF RefsOf
      <4> QED BY <4>1, <4>2
    <3> QED BY <3>2, <3>3
  <2> HIDE DEF kind
  <2>4. /\ RawChatID(NormalizeChatID(chat.id, kind)) = chat.id
        /\ Unshared(chat.id) => NormalizeChatID(chat.id, kind) = Pub(chat)
    BY <2>3, OnePublicID, RawOfPublic
  <2>5. \A u \in dispatched' :
          /\ u.chat \in Dialogs /\ RawChatID(u.chatID) = u.chat.id
          /\ Unshared(u.chat.id) => u.chatID = Pub(u.chat)
    BY <1>t, <2>2, <2>4 DEF FlowOK
  <2>6. TableOK' /\ FlowOK' /\ RestoreOK'
    BY <1>t, <2>2, <2>5 DEF TableOK, Stored, FlowOK, RestoreOK, Covered
  <2> QED BY <2>6 DEF PeersOK
<1>5. ASSUME NEW peer \in resolvedRefs, ResolveUsername(peer) PROVE PeersOK'
  <2>1. <<peer>> \in Seq(Refs)
    BY SourcesTyped
  <2>2. pending' \in Seq(Refs) /\ pending = <<>>
    BY <1>5, <2>1 DEF ResolveUsername, Remember
  <2> QED BY <1>5, <1>t, <2>2, TakenUp DEF ResolveUsername
<1>6. CASE SaveSession
  <2>1. /\ saved' \subseteq Stored /\ UNCHANGED <<table, pending, msg, login, dispatched>>
    BY <1>6 DEF SaveSession, snapshotPeers
  <2>2. \A p \in saved' : p \in Refs /\ (Unshared(p.id) => Covered(p))
    BY <1>t, <2>1, StoredTyped
  <2>3. IsFiniteSet(saved')
    BY <1>t, <2>1, FS_Subset DEF TableOK
  <2>4. TableOK' /\ FlowOK' /\ RestoreOK'
    BY <1>t, <2>1, <2>2, <2>3 DEF TableOK, Stored, FlowOK, RestoreOK, Covered
  <2> QED BY <2>4 DEF PeersOK
<1>7. CASE Login
  <2>1. pending' \in Orders(saved) /\ UNCHANGED <<table, msg, saved, dispatched>>
    BY <1>7 DEF Login
  <2>2. PICK l \in [1..Cardinality(saved) -> saved] :
          l = pending' /\ {l[k] : k \in DOMAIN l} = saved
    BY <2>1 DEF Orders
  <2>3. Cardinality(saved) \in Nat
    BY <1>t, FS_CardinalityType DEF FlowOK
  <2>4. l \in Seq(Refs) /\ DOMAIN l = 1..Len(l)
    <3>1. l \in [1..Cardinality(saved) -> Refs]
      BY <1>t, <2>2
    <3>2. l \in Seq(Refs)
      BY <2>3, <3>1
    <3> QED BY <3>2
  <2>5. \A p \in saved : \E k \in 1..Len(l) : l[k] = p
    BY <2>2, <2>4
  <2>6. pending' \in Seq(Refs) /\ \A p \in saved : \E k \in 1..Len(pending') : pending'[k] = p
    BY <2>2, <2>4, <2>5
  <2>7. TableOK' /\ FlowOK' /\ RestoreOK'
    BY <1>t, <2>1, <2>6 DEF TableOK, Stored, FlowOK, RestoreOK, Covered
  <2> QED BY <2>7 DEF PeersOK
<1>8. CASE LoginFresh
  BY <1>8, <1>t, TakenUp DEF LoginFresh
<1>9. CASE Restart
  <2>1. /\ DOMAIN table' = {} /\ Stored' = {} /\ pending' = <<>> /\ msg' = <<>>
        /\ login' = "none" /\ UNCHANGED <<saved, dispatched>>
    BY <1>9 DEF Restart, Stored
  <2>2. TableOK'
    BY <2>1, FS_EmptySet DEF TableOK
  <2>3. FlowOK' /\ RestoreOK'
    BY <1>t, <2>1 DEF FlowOK, RestoreOK
  <2> QED BY <2>2, <2>3 DEF PeersOK
<1>10. CASE UNCHANGED tableVars
  BY <1>10 DEF tableVars, PeersOK, TableOK, Stored, FlowOK, RestoreOK, Covered
<1> QED BY <1>1, <1>2, <1>3, <1>4, <1>5, <1>6, <1>7, <1>8, <1>9, <1>10 DEF Next

LEMMA AlwaysPeersOK == Spec => []PeersOK
BY InitPeersOK, NextPeersOK, PTL DEF Spec
------------------------------------------------------------------------------
(***************************************************************************)
(* What the two keys of a dialog find.                                     *)
(***************************************************************************)
\* getPeer finds one and the same entry by either id of a dialog that does not
\* share its raw id, and finds
\* one at all exactly when the raw id is in the table.
LEMMA EitherKey ==
  ASSUME TableOK, NEW d \in Dialogs, Unshared(d.id), NEW id \in {d.id, Pub(d)}
  PROVE  /\ isCached(id) <=> d.id \in DOMAIN table
         /\ isCached(id) => getPeer(id) = table[d.id] /\ table[d.id] \in RefsOf(d)
<1>1. RawChatID(id) = d.id
  BY RawOfPub
<1>2. CASE d.id \in DOMAIN table
  <2>1. id \in DOMAIN table /\ table[id] = table[d.id] /\ table[d.id] \in RefsOf(d)
    BY <1>2, RefTyped DEF TableOK
  <2> QED BY <1>2, <2>1 DEF isCached, getPeer, keyOf
<1>3. CASE d.id \notin DOMAIN table
  <2>1. id \notin DOMAIN table
    BY <1>3 DEF TableOK
  <2> QED BY <1>1, <1>3, <2>1 DEF isCached, keyOf
<1> QED BY <1>2, <1>3

\* The public id of a message can be passed back to Reply, SendMessage and
\* EditMessage if no other class uses the chat's raw id: getPeer finds the chat
\* of the message under it and with all that is known of the chat, however
\* other dialogs that do share their raw ids overwrite each other.
THEOREM RepliesReach == Spec => []ReplyReachesChat
<1>1. PeersOK => ReplyReachesChat
  <2> SUFFICES ASSUME TableOK, FlowOK, NEW u \in dispatched, Unshared(u.chat.id)
               PROVE  LeadsBack(u)
    BY DEF PeersOK, ReplyReachesChat
  <2>1. PICK d \in Dialogs : d = u.chat /\ u.chatID = Pub(d)
    BY DEF FlowOK
  <2>2. PICK id \in {d.id, Pub(d)} : id = Pub(d)
    OBVIOUS
  <2>3. /\ isCached(id) <=> d.id \in DOMAIN table
        /\ isCached(id) => getPeer(id) = table[d.id] /\ table[d.id] \in RefsOf(d)
    BY <2>1, EitherKey
  <2>4. isCached(id) =>
          /\ table[d.id].id = d.id /\ table[d.id].hash \in {0, d.hash}
          /\ Class(table[d.id].kind) = Class(d.kind)
    BY <2>3 DEF RefsOf, Class
  <2> QED BY <2>1, <2>2, <2>3, <2>4 DEF LeadsBack, CanSend
<1> QED BY <1>1, AlwaysPeersOK, PTL

\* Handlers may keep state by Message.ChatID of a chat whose raw id no other
\* class uses: it keeps its public id whatever was known of it when a message
\* came, over restarts too, and no other chat, of whatever kind, gets that id.
THEOREM ChatIDsIdentify == Spec => []ChatIDIdentifiesChat
<1>1. PeersOK => ChatIDIdentifiesChat
  <2> SUFFICES ASSUME FlowOK, NEW u \in dispatched, NEW v \in dispatched, Unshared(u.chat.id)
               PROVE  u.chat = v.chat <=> u.chatID = v.chatID
    BY DEF PeersOK, ChatIDIdentifiesChat
  <2>1. /\ u.chat \in Dialogs /\ u.chatID = Pub(u.chat) /\ RawChatID(u.chatID) = u.chat.id
        /\ v.chat \in Dialogs /\ RawChatID(v.chatID) = v.chat.id
    BY DEF FlowOK
  <2>2. u.chat = v.chat => v.chatID = Pub(v.chat)
    BY DEF FlowOK
  <2>3. u.chatID = v.chatID => u.chat = v.chat
    BY <2>1, IdOfItsOwn
  <2> QED BY <2>1, <2>2, <2>3
<1> QED BY <1>1, AlwaysPeersOK, PTL

\* mergePeerLocked: until the process ends no peer goes out of the table, none
\* loses its access hash and no supergroup turns into a channel again, whether
\* dialogs share raw ids or not.
THEOREM NothingForgotten == Spec => PeersNeverForgotten
<1> DEFINE Kept == login' # "none" => \A key \in DOMAIN table :
                     /\ key \in DOMAIN table'
                     /\ table[key].hash # 0 => table'[key].hash # 0
                     /\ table[key].kind = "supergroup" => table'[key].kind # "channel"
<1>1. PeersOK /\ [Next]_tableVars => [Kept]_tableVars
  <2> SUFFICES ASSUME PeersOK, Next PROVE Kept
    OBVIOUS
  <2>1. CASE RememberNext
    BY <2>1, RememberKeeps DEF PeersOK
  <2>2. CASE Restart
    BY <2>2 DEF Restart
  <2>3. CASE table' = table
    BY <2>3
  <2>4. ~RememberNext /\ ~Restart => table' = table
    BY DEF Next, RememberVectors, RememberMessage, ToUpdate, ResolveUsername,
           SaveSession, Login, LoginFresh
  <2> QED BY <2>1, <2>2, <2>3, <2>4
<1> QED BY <1>1, AlwaysPeersOK, PTL DEF Spec, PeersNeverForgotten

\* Once Login has worked through the peers of a saved session, each one that
\* could be addressed, and whose raw id no other class uses, can be addressed
\* by both its ids, with its hash.
THEOREM RestoredUsable == Spec => []RestoredPeersUsable
<1>1. PeersOK => RestoredPeersUsable
  <2> SUFFICES ASSUME PeersOK, login = "saved", pending = <<>>, NEW p \in saved,
                      Unshared(p.id), NEW id \in {p.id, publicPeerID(p)}
               PROVE  /\ hasInputPeer(p) => CanSend(id)
                      /\ p.hash # 0 => getPeer(id).hash = p.hash
    BY DEF RestoredPeersUsable
  <2>1. Len(pending) = 0
    OBVIOUS
  <2>2. Covered(p) /\ TableOK /\ p \in Refs
    BY <2>1 DEF PeersOK, RestoreOK, FlowOK
  <2>3. PICK d \in Dialogs : p.id = d.id /\ p \in RefsOf(d)
    <3>1. PICK d \in Dialogs : p.id = d.id
      BY <2>2 DEF Refs, PeerRefs
    <3> QED BY <2>2, <3>1, RefTyped
  <2>4. p.id = d.id /\ publicPeerID(p) = Pub(d)
    BY <2>3, OnePublicID
  <2>5. isCached(id) /\ getPeer(id) = table[d.id] /\ table[d.id] \in RefsOf(d)
    BY <2>2, <2>4, EitherKey DEF Covered
  <2>6. p.hash # 0 => table[d.id].hash = p.hash
    BY <2>2, <2>4 DEF Covered
  <2>7. p.kind = "chat" => table[d.id].kind = "chat"
    BY <2>3, <2>5 DEF RefsOf
  <2> QED BY <2>5, <2>6, <2>7 DEF CanSend, hasInputPeer
<1> QED BY <1>1, AlwaysPeersOK, PTL
=============================================================================

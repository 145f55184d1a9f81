------------------------------ MODULE PeerTable ------------------------------
(***************************************************************************)
(* MTProtoBot.peers: what the runtime knows of the dialogs it may write    *)
(* to, and the public chat ids handlers use for them.                      *)
(*                                                                         *)
(* Every peer is stored twice, under its raw id and under its public id,   *)
(* after merging it with whatever either key already holds.  Peers come    *)
(* from the users and chats vectors of a difference (perhaps without an    *)
(* access hash), from the peer_id and from_id of a message (never with     *)
(* one, and saying only "channel" for a supergroup), from a resolved       *)
(* username, and from the saved session.  rememberPeers works through its  *)
(* list under b.mu; the rest of the list is pending, and everything else   *)
(* that needs b.mu waits until it is empty.                                *)
(*                                                                         *)
(* An access hash is an integer, 0 for none.  Usernames and titles, which  *)
(* are merged like hashes, and log output are left out.                    *)
(***************************************************************************)
EXTENDS PeerCache, FiniteSets

CONSTANTS Dialogs,    \* the dialogs that exist: [id, kind, hash]
          Offset,     \* channelDialogIDOffset
          MaxBatch    \* bound: peers in one difference

Kinds == {"user", "chat", "channel", "supergroup"}

\* Supergroups are channels: Telegram numbers them in one sequence.
Class(kind) == IF kind = "supergroup" THEN "channel" ELSE kind

\* External: Telegram's raw ids are positive and below the offset, every
\* dialog but a basic group has an access hash, and users, basic groups and
\* channels are each numbered in a sequence of their own: within a class an id
\* names one dialog, across classes it may name up to three.
ASSUME DialogsAssumption ==
  /\ Offset \in Nat /\ MaxBatch \in Nat
  /\ Dialogs \subseteq [id : Nat \ {0}, kind : Kinds, hash : Hashes \cup {0}]
  /\ \A d \in Dialogs : d.id < Offset /\ (d.kind = "chat" <=> d.hash = 0)
  /\ \A d, e \in Dialogs : d.id = e.id /\ Class(d.kind) = Class(e.kind) => d = e

\* No two classes use this raw id.
Unshared(id) == \A d, e \in Dialogs : d.id = id /\ e.id = id => d = e

VARIABLES
  table,      \* b.peers: a function from raw and public ids to peers
  pending,    \* what rememberPeers, holding b.mu, has still to store
  msg,        \* the chat of the message on its way to the dispatcher: <<chat>> or <<>>
  login,      \* how Login ended: "none" yet, with a "saved" session, a "fresh" one
  saved,      \* the peers of the saved session
  dispatched  \* history: the chat and the public ids of dispatched messages

tableVars == <<table, pending, msg, login, saved, dispatched, peerVars>>

tableless == <<msg, login, saved, dispatched>>

Init ==
  /\ table = [key \in {} |-> 0] /\ pending = <<>> /\ msg = <<>>
  /\ login = "none" /\ saved = {} /\ dispatched = {}
  /\ NewPeerCache
------------------------------------------------------------------------------
(***************************************************************************)
(* Public and raw chat ids.                                                *)
(***************************************************************************)
\* Mutant of NormalizeChatID: broadcast channels keep their raw id.
NormalizeSupergroupsOnly(id, kind) ==
  CASE id <= 0              -> id
    [] kind = "chat"        -> -id
    [] kind = "supergroup"  -> -Offset - id
    [] OTHER                -> id

\* NormalizeChatID, on the chat type that updateChatType gives the kind.
NormalizeChatID(id, kind) ==
  CASE id <= 0                           -> id
    [] kind = "chat"                     -> -id
    [] kind \in {"channel", "supergroup"} -> -Offset - id
    [] OTHER                             -> id

RawChatID(chatID) ==
  CASE chatID <= -Offset                  -> -chatID - Offset
    [] chatID < 0 /\ ~(chatID <= -Offset) -> -chatID
    [] OTHER                              -> chatID

publicPeerID(peer) == NormalizeChatID(peer.id, peer.kind)

\* Mutant of keyOf: every negative id is taken for a basic group's.
keyOfAbs(chatID) == IF chatID < 0 THEN -chatID ELSE chatID

\* The key under which getPeer finds chatID, if either is there.
keyOf(chatID) == IF chatID \in DOMAIN table THEN chatID ELSE RawChatID(chatID)

isCached(chatID) == keyOf(chatID) \in DOMAIN table

getPeer(chatID) == table[keyOf(chatID)]

\* PeerRef.InputPeer: users and channels cannot be addressed without a hash.
hasInputPeer(peer) == peer.kind = "chat" \/ peer.hash # 0

\* Reply, SendMessage, EditMessage and DeleteMessages reach the server.
CanSend(chatID) == isCached(chatID) /\ hasInputPeer(getPeer(chatID))
------------------------------------------------------------------------------
(***************************************************************************)
(* mergePeerLocked and storePeerLocked.                                    *)
(***************************************************************************)
\* Mutant of mergeWith: an update that omits the hash clears it.
mergeHashless(peer, key) ==
  IF key = 0 \/ key \notin DOMAIN table THEN peer
  ELSE LET old == table[key]
       IN  [peer EXCEPT !.kind = IF @ = "channel" /\ old.kind = "supergroup"
                                 THEN old.kind ELSE @]

mergeWith(peer, key) ==
  IF key = 0 \/ key \notin DOMAIN table THEN peer
  ELSE LET old == table[key]
       IN  [peer EXCEPT
              !.hash = IF @ = 0 THEN old.hash ELSE @,
              !.kind = IF @ = "channel" /\ old.kind = "supergroup" THEN old.kind ELSE @]

\* Both keys are computed before the loop, from the kind the peer came with.
mergePeerLocked(peer) == mergeWith(mergeWith(peer, peer.id), publicPeerID(peer))

\* Mutant of storePeerLocked: only the public key is written.
storePublicOnly(peer) ==
  LET keys == {publicPeerID(peer)}
  IN  /\ table' = [key \in DOMAIN table \cup keys |->
                     IF key \in keys THEN peer ELSE table[key]]
      /\ Put([id |-> publicPeerID(peer), hash |-> peer.hash])

storePeerLocked(peer) ==
  LET keys == {peer.id, publicPeerID(peer)}
  IN  /\ table' = [key \in DOMAIN table \cup keys |->
                     IF key \in keys THEN peer ELSE table[key]]
      /\ Put([id |-> publicPeerID(peer), hash |-> peer.hash])

\* One round of rememberPeers' loop.
RememberNext ==
  /\ pending # <<>>
  /\ storePeerLocked(mergePeerLocked(Head(pending)))
  /\ pending' = Tail(pending)
  /\ UNCHANGED tableless

\* rememberPeers takes b.mu.
Remember(peers) == pending = <<>> /\ pending' = peers
------------------------------------------------------------------------------
(***************************************************************************)
(* Where peers come from.                                                  *)
(***************************************************************************)
\* scanPeerRefs: a peer of the vectors, its hash present or not.
vectorRefs == Dialogs \cup {[d EXCEPT !.hash = 0] : d \in Dialogs}

\* A scan returns each (kind, id) once, in the order of a Go map: any.
scanPeerRefs ==
  {l \in UNION {[1..n -> vectorRefs] : n \in 1..MaxBatch} :
     \A i, j \in 1..Len(l) : l[i].id = l[j].id /\ l[i].kind = l[j].kind => i = j}

\* parsePeer only tells users, basic groups and channels apart.
parsePeer(d) == [id |-> d.id, hash |-> 0,
                 kind |-> IF d.kind = "supergroup" THEN "channel" ELSE d.kind]

\* Run: rememberPeers(diff.Peers).
RememberVectors(peers) ==
  /\ login # "none" /\ msg = <<>>
  /\ Remember(peers)
  /\ UNCHANGED <<table, msg, login, saved, dispatched, peerVars>>

\* Run: rememberPeers(peersFromTextMessage(msg)).  A message of a private
\* chat or a channel post may have no sender.
RememberMessage(chat, senders) ==
  /\ login # "none" /\ msg = <<>>
  /\ msg' = <<chat>>
  /\ Remember(<<parsePeer(chat)>> \o senders)
  /\ UNCHANGED <<table, login, saved, dispatched, peerVars>>

\* mtprotoTextMessageToUpdate and DispatchMessage: handlers see the public
\* id made from the kind the table knows for the raw id.
ToUpdate ==
  /\ msg # <<>> /\ pending = <<>>
  /\ LET chat == Head(msg)
         kind == IF isCached(chat.id) THEN getPeer(chat.id).kind ELSE parsePeer(chat).kind
     IN  dispatched' = dispatched \cup
                         {[chat |-> chat, chatID |-> NormalizeChatID(chat.id, kind)]}
  /\ msg' = <<>>
  /\ UNCHANGED <<table, pending, login, saved, peerVars>>

\* ResolveUsername, by any goroutine: the peer as the vectors have it, or else
\* as the resolved peer_id has it.
resolvedRefs == vectorRefs \cup {parsePeer(d) : d \in Dialogs}

ResolveUsername(peer) ==
  /\ login # "none" /\ Remember(<<peer>>)
  /\ UNCHANGED <<table, msg, login, saved, dispatched, peerVars>>
------------------------------------------------------------------------------
(***************************************************************************)
(* Saving and loading.                                                     *)
(***************************************************************************)
Stored == {table[key] : key \in DOMAIN table}

\* snapshotPeers: one peer for each (kind, id), whichever is met first.
snapshotPeers ==
  {S \in SUBSET Stored :
     \A p \in Stored : \E q \in S :
       /\ q.kind = p.kind /\ q.id = p.id
       /\ \A r \in S : r.kind = p.kind /\ r.id = p.id => r = q}

SaveSession ==
  /\ login # "none" /\ pending = <<>>
  /\ saved' \in snapshotPeers
  /\ UNCHANGED <<table, pending, msg, login, dispatched, peerVars>>

\* Login with a saved session, at the start or in a reconnect between polls:
\* its peers are remembered on top of what the table holds.
Orders(S) == {l \in [1..Cardinality(S) -> S] : {l[i] : i \in DOMAIN l} = S}

Login ==
  /\ msg = <<>> /\ pending = <<>>
  /\ pending' \in Orders(saved)
  /\ login' = "saved"
  /\ UNCHANGED <<table, msg, saved, dispatched, peerVars>>

\* Login without one: the table is left as it is.
LoginFresh ==
  /\ msg = <<>> /\ pending = <<>>
  /\ login' = "fresh"
  /\ UNCHANGED <<table, pending, msg, saved, dispatched, peerVars>>

\* The process dies and a new one starts, with a new bot.
Restart ==
  /\ login # "none"
  /\ table' = [key \in {} |-> 0] /\ pending' = <<>> /\ msg' = <<>>
  /\ login' = "none"
  /\ order' = <<>> /\ known' = [id \in {} |-> 0]
  /\ UNCHANGED <<saved, dispatched>>

Next ==
  \/ RememberNext
  \/ \E peers \in scanPeerRefs : RememberVectors(peers)
  \/ \E chat \in Dialogs :
       \E senders \in {<<>>} \cup {<<parsePeer(u)>> : u \in {d \in Dialogs : d.kind = "user"}} :
         RememberMessage(chat, senders)
  \/ ToUpdate
  \/ \E peer \in resolvedRefs : ResolveUsername(peer)
  \/ SaveSession \/ Login \/ LoginFresh \/ Restart

Spec == Init /\ [][Next]_tableVars
------------------------------------------------------------------------------
(***************************************************************************)
(* Types: a table key is the raw or the public id of the peer under it.    *)
(***************************************************************************)
PeerRefs == [id : {d.id : d \in Dialogs}, kind : Kinds, hash : Hashes \cup {0}]

TypeOK ==
  /\ \A key \in DOMAIN table :
       /\ table[key] \in PeerRefs
       /\ key \in {table[key].id, publicPeerID(table[key])}
  /\ \A i \in 1..Len(pending) : pending[i] \in PeerRefs
  /\ msg \in {<<>>} \cup {<<d>> : d \in Dialogs}
  /\ login \in {"none", "saved", "fresh"}
  /\ saved \subseteq PeerRefs
  /\ \A u \in dispatched : u.chat \in Dialogs /\ u.chatID \in Int

\* The chat id of a message u leads back to its chat: if the chat can be
\* addressed at all, it can be addressed by that id; and whatever peer the id
\* finds is the chat: same id, same class, no other dialog's hash.
LeadsBack(u) ==
  /\ u.chat.id \in DOMAIN table /\ hasInputPeer(table[u.chat.id]) => CanSend(u.chatID)
  /\ isCached(u.chatID) =>
       /\ getPeer(u.chatID).id = u.chat.id
       /\ Class(getPeer(u.chatID).kind) = Class(u.chat.kind)
       /\ getPeer(u.chatID).hash \in {0, u.chat.hash}

(***************************************************************************)
(* The chat id of any message from a chat whose raw id no other class uses *)
(* leads back to that chat, whatever was learnt since, also of dialogs     *)
(* that do share their ids (getPeer, storePeerLocked).                     *)
(***************************************************************************)
ReplyReachesChat ==
  \A u \in dispatched : Unshared(u.chat.id) => LeadsBack(u)

(***************************************************************************)
(* README: "You can pass the public Message.ChatID back to Reply,          *)
(* SendMessage, and EditMessage; MtProGo resolves it to the cached raw     *)
(* peer internally."  It says so of every chat.                            *)
(***************************************************************************)
ChatIDCanBePassedBack == \A u \in dispatched : LeadsBack(u)

(***************************************************************************)
(* Handlers keep state by chat id, over restarts too.  A chat whose raw id *)
(* no other class uses has one public id, whatever was known of it when    *)
(* its messages came, and no other chat is ever given that id              *)
(* (NormalizeChatID, mtprotoTextMessageToUpdate).                          *)
(***************************************************************************)
ChatIDIdentifiesChat ==
  \A u, v \in dispatched :
    Unshared(u.chat.id) => (u.chat = v.chat <=> u.chatID = v.chatID)

(***************************************************************************)
(* What a running process knows of a peer it does not lose to a message    *)
(* that says less: no entry goes away, one that came without a hash never  *)
(* takes the access hash out of the table, and one that says only          *)
(* "channel" (parsePeer) never turns a supergroup back (mergePeerLocked).  *)
(***************************************************************************)
PeersNeverForgotten ==
  [][login' # "none" => \A key \in DOMAIN table :
       /\ key \in DOMAIN table'
       /\ table[key].hash # 0 => table'[key].hash # 0
       /\ table[key].kind = "supergroup" => table'[key].kind # "channel"]_tableVars

(***************************************************************************)
(* README: the peer cache is persisted.  Once Login has taken over a saved *)
(* session, every peer in it that could be addressed, and whose raw id no  *)
(* other class uses, can be addressed by its raw and its public id, with   *)
(* its hash, in whatever order they came.                                  *)
(***************************************************************************)
RestoredPeersUsable ==
  login = "saved" /\ pending = <<>> =>
    \A p \in saved : Unshared(p.id) =>
      \A id \in {p.id, publicPeerID(p)} :
        /\ hasInputPeer(p) => CanSend(id)
        /\ p.hash # 0 => getPeer(id).hash = p.hash
==============================================================================
